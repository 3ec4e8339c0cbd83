--------------------------- MODULE LockoutWindow ---------------------------
(***************************************************************************)
(* What the failure limiter promises: the FailThreshold-th counted failure *)
(* within FailWindow starts a lockout of LockoutSec, a lockout starts for  *)
(* no other reason, and it begins a new count.                             *)
(***************************************************************************)
EXTENDS Integers, Sequences

CONSTANTS FailThreshold, FailWindow, LockoutSec

VARIABLES
  now,    \* seconds since boot
  fails,  \* times of the failures since the last lockout
  until   \* the end of the last lockout

vars == <<now, fails, until>>

Init == now = 1 /\ fails = <<>> /\ until = 0

\* FailThreshold failures, or more, all within the window.
TooMany(f) ==
  \E i \in DOMAIN f : /\ Len(f) - i + 1 >= FailThreshold
                      /\ \A j \in i .. Len(f) : now - f[j] <= FailWindow

Fail ==
  /\ until <= now
  /\ LET f == Append(fails, now) IN
       IF TooMany(f)
       THEN fails' = <<>> /\ until' = now + LockoutSec
       ELSE fails' = f /\ UNCHANGED until
  /\ UNCHANGED now

Pass == now' = now + 1 /\ UNCHANGED <<fails, until>>

Restart == now' = 1 /\ fails' = <<>> /\ until' = 0

Next == Fail \/ Pass \/ Restart

Spec == Init /\ [][Next]_vars
=============================================================================
