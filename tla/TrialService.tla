---------------------------- MODULE TrialService ----------------------------
(***************************************************************************)
(* What the updater promises, without saying how: a device runs the image  *)
(* it trusts or, once, a later one on trial.  The trial is confirmed, and  *)
(* the image trusted from then on, or the device falls back to the one it  *)
(* trusted before.  Nothing else changes the image that runs: not a cut of *)
(* the power, not a failed write, not a release that was tried already.    *)
(***************************************************************************)
EXTENDS Naturals

CONSTANTS
  Images, release,
  Factory,  \* the image the device starts with, trusted by nobody yet
  None

VARIABLES
  running,  \* the image that runs
  trusted,  \* the last image that was confirmed, None before the first
  tried     \* the images that have run

vars == <<running, trusted, tried>>

Init == running = Factory /\ trusted = None /\ tried = {Factory}

Try ==
  /\ running = trusted
  /\ \E i \in Images \ tried :
       /\ release[i] > release[trusted]
       /\ running' = i /\ tried' = tried \cup {i}
  /\ UNCHANGED trusted

Confirm == trusted' = running /\ UNCHANGED <<running, tried>>

FallBack ==
  /\ trusted # None
  /\ running' = trusted /\ UNCHANGED <<trusted, tried>>

Next == Try \/ Confirm \/ FallBack

Spec == Init /\ [][Next]_vars

-----------------------------------------------------------------------------
(* What follows from the promise *)

\* What is on trial is later than what it falls back to.
TrialIsLater ==
  trusted # None /\ running # trusted => release[running] > release[trusted]

\* Trust is never lost, and passes only to a later release.
OnlyLater ==
  [][trusted # None /\ trusted' # trusted
       => trusted' # None /\ release[trusted'] > release[trusted]]_vars
=============================================================================
