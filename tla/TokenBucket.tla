---------------------------- MODULE TokenBucket ----------------------------
(***************************************************************************)
(* The relay's rate limiter as a value (relay/src/ratelimit.ts), so that   *)
(* the device object can carry it in its state.  The source refills        *)
(* refillPerMinute fractional tokens a minute; here a token is counted in  *)
(* the time it takes to be refilled, Cost ticks, so that a tick refills 1. *)
(***************************************************************************)
EXTENDS Integers

CONSTANTS
  Capacity,  \* DEFAULT_BUCKET.capacity: the burst
  Cost       \* ticks that refill one token: 60 s / refillPerMinute

ASSUME BucketAssumption == Capacity \in Nat \ {0} /\ Cost \in Nat \ {0}

Full == Capacity * Cost

BucketType == [tokens : 0 .. Full, updated : Int]

NewBucket(t) == [tokens |-> Full, updated |-> t]

\* What the bucket holds at time t; a clock that went back refills nothing.
Refilled(b, t) ==
  LET sum == b.tokens + (IF t > b.updated THEN t - b.updated ELSE 0)
  IN  IF sum < Full THEN sum ELSE Full

Allowed(b, t) == Refilled(b, t) >= Cost

\* Mutant: the bucket overflows, so a quiet hour buys a burst of an hour.
ConsumeUncapped(b, t) ==
  LET sum == b.tokens + (IF t > b.updated THEN t - b.updated ELSE 0)
  IN  [tokens |-> IF Allowed(b, t) THEN sum - Cost ELSE sum, updated |-> t]

\* Mutant: the part of a token refilled so far is lost by a refusal.
ConsumeWholeTokens(b, t) ==
  [tokens  |-> IF Allowed(b, t) THEN Refilled(b, t) - Cost ELSE b.tokens,
   updated |-> t]

\* consume(): the state after an attempt at time t, which Allowed(b, t) grants.
Consume(b, t) ==
  [tokens  |-> IF Allowed(b, t) THEN Refilled(b, t) - Cost ELSE Refilled(b, t),
   updated |-> t]
=============================================================================
