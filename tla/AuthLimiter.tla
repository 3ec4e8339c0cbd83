---------------------------- MODULE AuthLimiter ----------------------------
(***************************************************************************)
(* The relay task's failure limiter on its own: the ring of AuthLockout    *)
(* driven by the clock of esp_timer_get_time() and checked against the     *)
(* sliding window it stands for.                                           *)
(***************************************************************************)
EXTENDS AuthLockout, Sequences

CONSTANTS
  MaxNow,   \* bound: the clock
  MaxFails  \* bound: failures since the last lockout

VARIABLES
  now,    \* esp_timer_get_time(), in the window's unit; never 0 by then
  ring,
  fails   \* history: times of the failures since the last lockout

vars == <<now, ring, fails>>

Init == now = 1 /\ ring = EmptyRing /\ fails = <<>>

Cleared(r) == r.ts = EmptyRing.ts

\* handle_envelope() counts a failure only when it is not locked out.
Fail ==
  /\ ~LockedOut(ring, now)
  /\ Len(fails) < MaxFails
  /\ ring' = NoteAuthFailure(ring, now)
  /\ fails' = IF Cleared(ring') THEN <<>> ELSE Append(fails, now)
  /\ UNCHANGED now

Pass == now < MaxNow /\ now' = now + 1 /\ UNCHANGED <<ring, fails>>

\* A restart forgets failures and lockout: both are static variables.
Restart == now' = 1 /\ ring' = EmptyRing /\ fails' = <<>>

Next == Fail \/ Pass \/ Restart

Spec == Init /\ [][Next]_vars

TypeOK == now \in Nat \ {0} /\ ring \in RingType /\ fails \in Seq(Nat)

\* How many stores ago slot i was written: 1 for the newest.
Age(i) == IF i < ring.head THEN ring.head - i ELSE ring.head - i + FailThreshold

\* The ring holds the last failures since the last lockout, the newest just
\* below the head; a slot not yet used is 0, which no failure time is.
RingHoldsLast ==
  /\ TypeOK
  /\ \A i \in DOMAIN fails : fails[i] \in 1 .. now
  /\ \A i, j \in DOMAIN fails : i <= j => fails[i] <= fails[j]
  /\ \A i \in Slots :
       ring.ts[i] = IF Age(i) <= Len(fails) THEN fails[Len(fails) - Age(i) + 1]
                    ELSE 0

\* The ring locks exactly when the sliding window does (relay_client.c: "if it
\* happened within the last minute we have hit the threshold").
Window == INSTANCE LockoutWindow WITH until <- ring.until
ImplementsWindow == Window!Spec
=============================================================================
