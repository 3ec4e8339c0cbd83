----------------------------- MODULE MCUpdater -----------------------------
EXTENDS Updater, TLC
CONSTANTS i1, i2, i2b, i3

\* Later releases, one of them built twice.
MCRelease == i1 :> 1 @@ i2 :> 2 @@ i2b :> 2 @@ i3 :> 3
=============================================================================
