---------------------------- MODULE RateLimiter ----------------------------
(***************************************************************************)
(* The token bucket under a wall clock that may be corrected either way:   *)
(* Date.now() is not monotonic.  What the bucket promises is stated in     *)
(* true time and in what the clock was put forward, which consume() takes  *)
(* for time elapsed.                                                       *)
(***************************************************************************)
EXTENDS TokenBucket, Sequences

CONSTANTS
  Timeout,     \* RESPONSE_TIMEOUT_MS: how long a request can be pending
  PendingCap,  \* PENDING_CAP
  MaxTime,     \* bound: true time
  MaxBack,     \* bound: ticks the clock is set back in all
  MaxForward   \* bound: ticks the clock is put forward in all

\* 5 tokens at 6 s, 20 s and 8 pending: 30 + 20 < 9 * 6.
ASSUME RateAssumption ==
  /\ Timeout \in Nat /\ PendingCap \in Nat \ {0}
  /\ Full + Timeout < (PendingCap + 1) * Cost

VARIABLES
  bucket,   \* DeviceObject.bucket, and K_BUCKET in storage
  now,      \* Date.now()
  back,     \* history: ticks the clock was set back in all
  fwd,      \* history: ticks it was put forward in all
  log,      \* history: each time handleSend() was let through, and `fwd` then
  slack     \* history: ticks set back since the last of them

vars == <<bucket, now, back, fwd, log, slack>>

True == now + back - fwd

Grant == [at : Int, fwd : Nat]

Init == /\ now = 0 /\ back = 0 /\ fwd = 0 /\ slack = 0 /\ log = <<>>
        /\ bucket = NewBucket(now)

\* handleSend() asks for a token; a refusal is stored like a grant.
Attempt ==
  /\ bucket' = Consume(bucket, now)
  /\ IF Allowed(bucket, now)
     THEN log' = Append(log, [at |-> True, fwd |-> fwd]) /\ slack' = 0
     ELSE UNCHANGED <<log, slack>>
  /\ UNCHANGED <<now, back, fwd>>

Pass == /\ True < MaxTime
        /\ now' = now + 1
        /\ UNCHANGED <<bucket, back, fwd, log, slack>>

\* The object moves to a machine, or the machine to a time, that is behind.
\* The object and its storage stay as they are.
SetBack(d) ==
  /\ back + d <= MaxBack
  /\ now' = now - d /\ back' = back + d /\ slack' = slack + d
  /\ UNCHANGED <<bucket, fwd, log>>

\* The clock is corrected forward, after a set-back or on its own: the next
\* attempt takes the whole jump for time elapsed since `updated`.
SetForward(d) ==
  /\ fwd + d <= MaxForward
  /\ now' = now + d /\ fwd' = fwd + d
  /\ UNCHANGED <<bucket, back, log, slack>>

Next == \/ Attempt \/ Pass
        \/ \E d \in 1 .. MaxBack : SetBack(d)
        \/ \E d \in 1 .. MaxForward : SetForward(d)

Spec == Init /\ [][Next]_vars

-----------------------------------------------------------------------------

TypeOK ==
  /\ bucket \in BucketType /\ now \in Int
  /\ back \in Nat /\ fwd \in Nat /\ slack \in Nat /\ log \in Seq(Grant)

\* In any stretch of true time at most Capacity requests go through, and one
\* more for every Cost ticks of it and for every Cost ticks the clock was put
\* forward in it: setting the clock back and forth earns no more than the forth
\* (ratelimit.ts: "Tokens added per minute").
WindowBound ==
  \A i, j \in DOMAIN log :
    i <= j => (j - i + 1) * Cost <= Full + (log[j].at - log[i].at)
                                         + (log[j].fwd - log[i].fwd)

\* Unless the clock was put forward in between, the ninth request comes after
\* the first has timed out: the limiter binds before the cap on pending requests
\* does (relay/README.md, Limits).
CapNeverBinds ==
  \A i, j \in DOMAIN log :
    j = i + PendingCap /\ log[j].fwd = log[i].fwd => log[j].at - log[i].at > Timeout

\* A phone that keeps asking is not starved: once Cost ticks have passed since
\* the last grant (and what the clock was set back), the next attempt is
\* granted, however many were refused in between.
ServedInTurn ==
  log = <<>> \/ True - log[Len(log)].at >= Cost + slack => Allowed(bucket, now)
=============================================================================
