---------------------------- MODULE AuthLockout ----------------------------
(***************************************************************************)
(* The firmware's rate limiting of failed authentications                  *)
(* (relay_client.c: s_fail_ts, s_fail_head, s_lock_until_us).              *)
(*                                                                         *)
(* The source keeps the times of the last FailThreshold failures in a ring *)
(* and compares a new failure with the slot it will overwrite next.  The   *)
(* ring is a value here, so that the command protocol can carry it as one  *)
(* of its variables; module AuthLimiter checks it against the sliding      *)
(* window it stands for.  A time of 0 is an unused slot, as in the source. *)
(***************************************************************************)
EXTENDS Integers

CONSTANTS
  FailThreshold,  \* CONFIG_RW_AUTH_FAIL_THRESHOLD: failures that lock
  FailWindow,     \* the 60 s over which they are counted
  LockoutSec      \* CONFIG_RW_AUTH_LOCKOUT_SEC

ASSUME LockoutAssumption ==
  /\ FailThreshold \in Nat \ {0}
  /\ FailWindow \in Nat
  /\ LockoutSec \in Nat

\* The slots of the ring, numbered as the array is.
Slots == 0 .. FailThreshold - 1

\* The static initial state, which is also the state after every boot.
EmptyRing == [ts |-> [i \in Slots |-> 0], head |-> 0, until |-> 0]

RingType == [ts : [Slots -> Nat], head : Slots, until : Nat]

LockedOut(ring, t) == ring.until > t

\* Mutant: a lockout leaves the failures that led to it in the ring.
NoteAuthFailureUncleared(ring, t) ==
  LET head   == (ring.head + 1) % FailThreshold
      ts     == [ring.ts EXCEPT ![ring.head] = t]
      oldest == ts[head]
  IN  [ts |-> ts, head |-> head,
       until |-> IF oldest # 0 /\ t - oldest <= FailWindow
                 THEN t + LockoutSec ELSE ring.until]

\* Mutant: the head moves on before the failure is stored.
NoteAuthFailureAhead(ring, t) ==
  LET head == (ring.head + 1) % FailThreshold
      ts   == [ring.ts EXCEPT ![head] = t]
  IN  IF ring.ts[head] # 0 /\ t - ring.ts[head] <= FailWindow
      THEN [EmptyRing EXCEPT !.until = t + LockoutSec]
      ELSE [ring EXCEPT !.ts = ts, !.head = head]

\* note_auth_failure() at time t: store, advance, and look at the oldest
\* failure kept.  Locking clears the ring but not an earlier deadline.
NoteAuthFailure(ring, t) ==
  LET head   == (ring.head + 1) % FailThreshold
      ts     == [ring.ts EXCEPT ![ring.head] = t]
      oldest == ts[head]
  IN  IF oldest # 0 /\ t - oldest <= FailWindow
      THEN [EmptyRing EXCEPT !.until = t + LockoutSec]
      ELSE [ring EXCEPT !.ts = ts, !.head = head]
=============================================================================
