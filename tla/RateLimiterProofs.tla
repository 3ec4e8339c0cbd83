------------------------- MODULE RateLimiterProofs -------------------------
(* Proofs about RateLimiter: the bound on every window and its converse.   *)
EXTENDS RateLimiter, TLAPS

\* What the next attempt would find.
Avail == Refilled(bucket, now)

\* How far the clock has gone forward, by itself and by corrections, so far...
Seen == True + fwd

\* ...and when the i-th request was let through.
Then == [i \in DOMAIN log |-> log[i].at + log[i].fwd]

\* What has been spent since any grant, and what is left, was in the bucket
\* then or refilled since.
Potential ==
  \A i \in DOMAIN log :
    (Len(log) - i + 1) * Cost + Avail <= Full + (Seen - Then[i])

\* What was refilled since the last grant is still there; a clock set back
\* since the last attempt owes some of it.
Credit ==
  IF log = <<>> THEN bucket.tokens = Full
  ELSE bucket.tokens + (now - bucket.updated) >= True - log[Len(log)].at - slack

\* WindowBound, in these terms.
Window ==
  \A i, j \in DOMAIN log : i <= j => (j - i + 1) * Cost <= Full + (Then[j] - Then[i])

IInv == TypeOK /\ Window /\ Potential /\ Credit

-----------------------------------------------------------------------------
(* Facts about the bucket *)

LEMMA FullFacts == Full \in Nat /\ Cost \in Nat \ {0} /\ Cost <= Full
<1> DEFINE more == Capacity - 1
<1>1. Capacity \in Nat \ {0} /\ Cost \in Nat \ {0}
  BY BucketAssumption
<1>2. more \in Nat /\ Capacity = more + 1
  BY <1>1
<1> HIDE DEF more
<1>3. more * Cost \in Nat /\ (more + 1) * Cost = more * Cost + Cost
  BY <1>1, <1>2
<1> QED
  BY <1>1, <1>2, <1>3 DEF Full

\* What an attempt sees in the bucket, and leaves.
LEMMA RefilledFacts ==
  ASSUME NEW b \in BucketType, NEW t \in Int
  PROVE  /\ b.tokens \in Int /\ b.updated \in Int
         /\ Refilled(b, t) \in Int /\ 0 <= Refilled(b, t)
         /\ Refilled(b, t) <= Full /\ b.tokens <= Refilled(b, t)
         /\ \/ Refilled(b, t) = Full
            \/ Refilled(b, t) >= b.tokens + (t - b.updated)
  BY FullFacts DEF BucketType, Refilled

\* A tick refills at most one, and a clock set back refills nothing.
LEMMA RefilledMonotone ==
  ASSUME NEW b \in BucketType, NEW t \in Int, NEW s \in Int, s <= t
  PROVE  /\ Refilled(b, s) <= Refilled(b, t)
         /\ Refilled(b, t) <= Refilled(b, s) + (t - s)
  BY FullFacts DEF BucketType, Refilled

\* What a clock has gone forward since an entry of the log is a number.
LEMMA ThenType ==
  ASSUME log \in Seq(Grant), NEW i \in DOMAIN log
  PROVE  log[i].at \in Int /\ log[i].fwd \in Nat /\ Then[i] \in Int
<1>1. log[i] \in Grant
  OBVIOUS
<1> QED
  BY <1>1 DEF Grant, Then

LEMMA ConsumeFacts ==
  ASSUME NEW b \in BucketType, NEW t \in Int
  PROVE  /\ Consume(b, t) \in BucketType
         /\ Consume(b, t).updated = t
         /\ Refilled(Consume(b, t), t) = Consume(b, t).tokens
         /\ Consume(b, t).tokens = IF Allowed(b, t) THEN Refilled(b, t) - Cost
                                   ELSE Refilled(b, t)
<1> DEFINE r == Refilled(b, t)
           n == IF Allowed(b, t) THEN r - Cost ELSE r
<1>1. r \in 0 .. Full
  BY RefilledFacts, FullFacts
<1>2. n \in 0 .. Full
  BY <1>1, FullFacts DEF Allowed
<1>3. Consume(b, t) = [tokens |-> n, updated |-> t]
  BY DEF Consume
<1> HIDE DEF n
<1>4. Consume(b, t) \in BucketType
  BY <1>2, <1>3 DEF BucketType
<1>5. Refilled(Consume(b, t), t) = n
  BY <1>2, <1>3, FullFacts DEF Refilled
<1> QED
  BY <1>3, <1>4, <1>5 DEF n

-----------------------------------------------------------------------------
(* The invariant *)

LEMMA InitIInv == Init => IInv
<1> SUFFICES ASSUME Init PROVE IInv
  OBVIOUS
<1>1. TypeOK
  BY FullFacts DEF Init, TypeOK, BucketType, NewBucket
<1>2. Window /\ Potential
  BY DEF Init, Window, Potential
<1>3. Credit
  BY DEF Init, Credit, NewBucket
<1> QED
  BY <1>1, <1>2, <1>3 DEF IInv

\* A grant spends a token the potential has counted.
LEMMA GrantInv ==
  ASSUME IInv, Attempt, Allowed(bucket, now)
  PROVE  IInv'
<1> DEFINE n == Len(log)
           entry == [at |-> True, fwd |-> fwd]
<1>1. /\ bucket \in BucketType /\ now \in Int /\ back \in Nat /\ fwd \in Nat
      /\ log \in Seq(Grant) /\ n \in Nat /\ DOMAIN log = 1 .. n
  BY DEF IInv, TypeOK
<1>2. /\ bucket' \in BucketType /\ bucket'.updated = now
      /\ bucket'.tokens = Avail - Cost /\ Avail' = Avail - Cost
      /\ now' = now /\ back' = back /\ fwd' = fwd /\ slack' = 0
      /\ True' = True /\ Seen' = Seen /\ log' = Append(log, entry)
  BY <1>1, ConsumeFacts DEF Attempt, True, Seen, Avail, entry
<1>3. /\ Avail \in Int /\ 0 <= Avail /\ Avail <= Full /\ Avail >= Cost
      /\ True \in Int /\ Seen \in Int /\ Full \in Int /\ Cost \in Int /\ 0 <= Cost /\ Cost <= Full
  BY <1>1, RefilledFacts, FullFacts DEF Allowed, True, Seen, Avail
<1>4. /\ log' \in Seq(Grant) /\ Len(log') = n + 1 /\ DOMAIN log' = 1 .. (n + 1)
      /\ log'[n + 1].at = True /\ log'[n + 1].fwd = fwd
      /\ \A i \in 1 .. n : log'[i] = log[i]
  <2>1. entry \in Grant /\ entry.at = True /\ entry.fwd = fwd
    BY <1>1, <1>3 DEF Grant
  <2> HIDE DEF entry
  <2> QED
    BY <1>1, <1>2, <2>1
<1>w. /\ Then'[n + 1] = Seen
      /\ \A i \in 1 .. n : Then'[i] = Then[i] /\ Then[i] \in Int
  <2>1. Then' = [i \in 1 .. (n + 1) |-> log'[i].at + log'[i].fwd]
    BY <1>4 DEF Then
  <2>2. \A i \in 1 .. n : Then[i] \in Int /\ Then[i] = log[i].at + log[i].fwd
    BY <1>1, ThenType DEF Then
  <2> HIDE DEF n
  <2> QED
    BY <1>1, <1>4, <2>1, <2>2 DEF Seen
<1>5. \A i \in 1 .. n : (n - i + 1) * Cost + Avail <= Full + (Seen - Then[i])
  BY <1>1 DEF IInv, Potential
<1>6. TypeOK'
  BY <1>1, <1>2, <1>4 DEF TypeOK
<1> HIDE DEF n
<1>7. \A i \in 1 .. (n + 1) :
        (n + 1 - i + 1) * Cost + (Avail - Cost) <= Full + (Seen - Then'[i])
  <2> SUFFICES ASSUME NEW i \in 1 .. (n + 1)
               PROVE  (n + 1 - i + 1) * Cost + (Avail - Cost)
                        <= Full + (Seen - Then'[i])
    OBVIOUS
  <2>1. CASE i = n + 1
    BY <1>1, <1>3, <1>w, <2>1
  <2>2. CASE i # n + 1
    <3> DEFINE k == (n - i + 1) * Cost
    <3>1. i \in 1 .. n /\ n - i + 1 \in Nat
      BY <1>1, <2>2
    <3>2. (n + 1 - i + 1) * Cost = k + Cost /\ k \in Int
      BY <1>1, <1>3, <3>1
    <3>3. k + Avail <= Full + (Seen - Then[i]) /\ Then[i] \in Int /\ Then'[i] = Then[i]
      BY <1>w, <1>5, <3>1
    <3> HIDE DEF k
    <3>4. k + Cost + (Avail - Cost) <= Full + (Seen - Then[i])
      BY <1>3, <3>2, <3>3
    <3> QED
      BY <3>2, <3>3, <3>4
  <2> QED
    BY <2>1, <2>2
<1>8. Potential'
  BY <1>1, <1>2, <1>4, <1>7 DEF Potential
<1>9. Window'
  <2> SUFFICES ASSUME NEW i \in 1 .. (n + 1), NEW j \in 1 .. (n + 1), i <= j
               PROVE  (j - i + 1) * Cost <= Full + (Then'[j] - Then'[i])
    BY <1>4 DEF Window
  <2>1. CASE j = n + 1
    <3> DEFINE k == (n + 1 - i + 1) * Cost
    <3>1. k \in Int /\ Then'[i] \in Int
      BY <1>1, <1>3, <1>w
    <3>2. k + (Avail - Cost) <= Full + (Seen - Then'[i])
      BY <1>7
    <3> HIDE DEF k
    <3>3. k <= Full + (Then'[n + 1] - Then'[i])
      BY <1>3, <1>w, <3>1, <3>2
    <3> QED
      <4>1. j - i + 1 = n + 1 - i + 1
        BY <1>1, <2>1
      <4> QED
        BY <2>1, <3>3, <4>1 DEF k
  <2>2. CASE j # n + 1
    <3>1. i \in 1 .. n /\ j \in 1 .. n
      BY <1>1, <2>2
    <3>2. (j - i + 1) * Cost <= Full + (Then[j] - Then[i])
      BY <1>1, <3>1 DEF IInv, Window
    <3> QED
      BY <1>w, <3>1, <3>2
  <2> QED
    BY <2>1, <2>2
<1>10. Credit'
  BY <1>1, <1>2, <1>3, <1>4 DEF Credit
<1> QED
  BY <1>6, <1>8, <1>9, <1>10 DEF IInv

\* A refusal keeps what was refilled.
LEMMA RefusalInv ==
  ASSUME IInv, Attempt, ~Allowed(bucket, now)
  PROVE  IInv'
<1>1. /\ bucket \in BucketType /\ now \in Int /\ back \in Nat /\ fwd \in Nat /\ slack \in Nat
      /\ log \in Seq(Grant)
  BY DEF IInv, TypeOK
<1>2. /\ bucket' \in BucketType /\ bucket'.updated = now
      /\ bucket'.tokens = Avail /\ Avail' = Avail
      /\ now' = now /\ back' = back /\ fwd' = fwd /\ slack' = slack
      /\ True' = True /\ Seen' = Seen /\ log' = log
  <2>1. /\ bucket' = Consume(bucket, now) /\ UNCHANGED <<now, back, fwd, log, slack>>
    BY DEF Attempt
  <2>2. /\ Consume(bucket, now) \in BucketType
        /\ Consume(bucket, now).updated = now
        /\ Consume(bucket, now).tokens = Avail
        /\ Refilled(Consume(bucket, now), now) = Avail
    BY <1>1, ConsumeFacts DEF Avail
  <2>3. Avail' = Refilled(Consume(bucket, now), now) /\ True' = True /\ Seen' = Seen
    BY <2>1 DEF Avail, True, Seen
  <2> QED
    BY <2>1, <2>2, <2>3
<1>3. /\ Avail \in Int /\ Avail < Cost /\ Cost <= Full
      /\ Full \in Int /\ Cost \in Int /\ True \in Int
      /\ bucket.tokens <= Avail
      /\ bucket.tokens \in Int /\ bucket.updated \in Int
      /\ Avail = Full \/ Avail >= bucket.tokens + (now - bucket.updated)
  BY <1>1, RefilledFacts, FullFacts DEF Allowed, True, Avail
<1>4. TypeOK'
  BY <1>1, <1>2 DEF TypeOK
<1>5. Potential' /\ Window'
  BY <1>2 DEF IInv, Potential, Window, Then
<1>6. Credit'
  <2>1. log # <<>>
    BY <1>3 DEF IInv, Credit
  <2>2. bucket.tokens + (now - bucket.updated) >= True - log[Len(log)].at - slack
    BY <2>1 DEF IInv, Credit
  <2>3. log[Len(log)].at \in Int
    <3>1. Len(log) \in DOMAIN log
      BY <1>1, <2>1
    <3> QED
      BY <1>1, <3>1, ThenType
  <2>4. bucket'.tokens + (now - now) >= True - log[Len(log)].at - slack
    <3> DEFINE last == log[Len(log)].at
               tokens == bucket.tokens
               updated == bucket.updated
    <3>1. /\ tokens + (now - updated) >= True - last - slack
          /\ last \in Int /\ tokens \in Int /\ updated \in Int
          /\ Avail = Full \/ Avail >= tokens + (now - updated)
      BY <1>3, <2>2, <2>3
    <3> HIDE DEF last, tokens, updated
    <3>2. Avail + (now - now) >= True - last - slack
      BY <1>1, <1>3, <3>1
    <3> QED
      BY <1>2, <3>2 DEF last
  <2> QED
    BY <1>2, <2>1, <2>4 DEF Credit
<1> QED
  BY <1>4, <1>5, <1>6 DEF IInv

\* However the clock moves, the bucket can offer no more than the clock went
\* forward, and is owed no more than it was set back.
LEMMA ClockInv ==
  ASSUME IInv, UNCHANGED <<bucket, log>>, back' \in Nat, fwd' \in Nat,
         NEW d \in Int, now' = now + d,
         NEW f \in Nat, Seen' = Seen + f, d <= f,
         NEW t \in Nat, True' = True + t,
         NEW b \in Nat, slack' = slack + b, d >= t - b
  PROVE  IInv'
<1>1. /\ bucket \in BucketType /\ now \in Int /\ back \in Nat /\ fwd \in Nat
      /\ slack \in Nat /\ log \in Seq(Grant)
      /\ bucket.tokens \in Int /\ bucket.updated \in Int
  BY DEF IInv, TypeOK, BucketType
<1>2. True \in Int /\ Seen \in Int
  BY <1>1 DEF True, Seen
<1>3. Avail \in Int /\ Avail' \in Int /\ Avail' <= Avail + f
  <2>1. Avail' = Refilled(bucket, now + d)
    BY DEF Avail
  <2>2. Refilled(bucket, now) \in Int /\ Refilled(bucket, now + d) \in Int
    <3>1. now + d \in Int
      BY <1>1
    <3> QED
      BY <1>1, <3>1, RefilledFacts
  <2>3. Refilled(bucket, now + d) <= Refilled(bucket, now) + f
    <3>1. CASE d <= 0
      BY <1>1, <2>2, <3>1, RefilledMonotone
    <3>2. CASE 0 <= d
      <4>1. Refilled(bucket, now + d) <= Refilled(bucket, now) + ((now + d) - now)
        BY <1>1, <3>2, RefilledMonotone
      <4> QED
        BY <1>1, <2>2, <4>1
    <3> QED
      BY <3>1, <3>2
  <2> QED
    BY <2>1, <2>2, <2>3 DEF Avail
<1>4. TypeOK'
  BY <1>1 DEF IInv, TypeOK
<1>5. Window'
  BY DEF IInv, Window, Then
<1>6. Potential'
  <2> SUFFICES ASSUME NEW i \in DOMAIN log
               PROVE  (Len(log) - i + 1) * Cost + Avail' <= Full + ((Seen + f) - Then[i])
    BY Zenon DEF Potential, Then
  <2> DEFINE k == (Len(log) - i + 1) * Cost
  <2>1. k + Avail <= Full + (Seen - Then[i])
    BY DEF IInv, Potential
  <2>2. k \in Int /\ Then[i] \in Int /\ Full \in Int
    BY <1>1, FullFacts, ThenType
  <2> HIDE DEF k
  <2>3. k + Avail' <= Full + ((Seen + f) - Then[i])
    BY <1>2, <1>3, <2>1, <2>2
  <2> QED
    BY <2>3 DEF k
<1>7. Credit'
  <2>1. CASE log = <<>>
    BY <2>1 DEF IInv, Credit
  <2>2. CASE log # <<>>
    <3> DEFINE last == log[Len(log)].at
               tokens == bucket.tokens
               updated == bucket.updated
    <3>1. last \in Int
      <4>1. Len(log) \in DOMAIN log
        BY <1>1, <2>2
      <4> QED
        BY <1>1, <4>1, ThenType
    <3>2. tokens + (now - updated) >= True - last - slack
      BY <2>2 DEF IInv, Credit
    <3>3. tokens \in Int /\ updated \in Int
      BY <1>1
    <3> HIDE DEF last, tokens, updated
    <3>4. tokens + ((now + d) - updated) >= (True + t) - last - (slack + b)
      BY <1>1, <1>2, <3>1, <3>2, <3>3
    <3> QED
      BY <2>2, <3>4 DEF Credit, last, tokens, updated
  <2> QED
    BY <2>1, <2>2
<1> QED
  BY <1>4, <1>5, <1>6, <1>7 DEF IInv

LEMMA ClockStep ==
  ASSUME IInv,
         \/ Pass
         \/ \E d \in 1 .. MaxBack : SetBack(d)
         \/ \E d \in 1 .. MaxForward : SetForward(d)
  PROVE  IInv'
<1>1. now \in Int /\ back \in Nat /\ fwd \in Nat /\ slack \in Nat
  BY DEF IInv, TypeOK
<1>2. CASE Pass
  <2>1. now' = now + 1 /\ Seen' = Seen + 1 /\ True' = True + 1 /\ slack' = slack + 0
    BY <1>1, <1>2 DEF Pass, True, Seen
  <2>2. UNCHANGED <<bucket, log>> /\ back' \in Nat /\ fwd' \in Nat
    BY <1>1, <1>2 DEF Pass
  <2> QED
    BY <2>1, <2>2, ClockInv
<1>3. ASSUME NEW d \in 1 .. MaxBack, SetBack(d) PROVE IInv'
  <2>1. now' = now + (-d) /\ Seen' = Seen + 0 /\ True' = True + 0 /\ slack' = slack + d
    BY <1>1, <1>3 DEF SetBack, True, Seen
  <2>2. UNCHANGED <<bucket, log>> /\ back' \in Nat /\ fwd' \in Nat
    BY <1>1, <1>3 DEF SetBack
  <2> QED
    BY <2>1, <2>2, ClockInv
<1>4. ASSUME NEW d \in 1 .. MaxForward, SetForward(d) PROVE IInv'
  <2>1. now' = now + d /\ Seen' = Seen + d /\ True' = True + 0 /\ slack' = slack + 0
    BY <1>1, <1>4 DEF SetForward, True, Seen
  <2>2. UNCHANGED <<bucket, log>> /\ back' \in Nat /\ fwd' \in Nat
    BY <1>1, <1>4 DEF SetForward
  <2> QED
    BY <2>1, <2>2, ClockInv
<1> QED
  BY <1>2, <1>3, <1>4

LEMMA Invariance == Spec => []IInv
<1>1. IInv /\ [Next]_vars => IInv'
  <2> SUFFICES ASSUME IInv, [Next]_vars PROVE IInv'
    OBVIOUS
  <2>1. CASE Attempt
    BY <2>1, GrantInv, RefusalInv
  <2>2. CASE UNCHANGED vars
    BY <2>2
    DEF vars, IInv, TypeOK, Window, Potential, Credit, Avail, True, Seen, Then
  <2> QED
    BY <2>1, <2>2, ClockStep DEF Next
<1> QED
  BY <1>1, InitIInv, PTL DEF Spec

-----------------------------------------------------------------------------
(* What the bucket promises *)

\* No window of true time sees more than the burst, what was refilled in it and
\* what the clock was put forward in it, for every burst, rate and behaviour of
\* the clock (ratelimit.ts, consume).
THEOREM RateBounded == Spec => []WindowBound
<1>1. IInv => WindowBound
  <2> SUFFICES ASSUME IInv, NEW i \in DOMAIN log, NEW j \in DOMAIN log, i <= j
               PROVE  (j - i + 1) * Cost <= Full + (log[j].at - log[i].at)
                                                 + (log[j].fwd - log[i].fwd)
    BY DEF WindowBound
  <2>1. /\ log[i].at \in Int /\ log[j].at \in Int
        /\ log[i].fwd \in Int /\ log[j].fwd \in Int
    BY ThenType DEF IInv, TypeOK
  <2> DEFINE used == (j - i + 1) * Cost
  <2>2. used <= Full + (Then[j] - Then[i])
    BY DEF IInv, Window
  <2>3. Full \in Int /\ used \in Int
    <3>1. i \in Int /\ j \in Int
      BY DEF IInv, TypeOK
    <3> QED
      BY <3>1, FullFacts
  <2> HIDE DEF used
  <2>4. used <= Full + (log[j].at - log[i].at) + (log[j].fwd - log[i].fwd)
    BY <2>1, <2>2, <2>3 DEF Then
  <2> QED
    BY <2>4 DEF used
<1> QED
  BY <1>1, Invariance, PTL

\* The cap on pending requests is never what refuses one (device.ts:371) unless
\* the clock was put forward: the first of PendingCap + 1 has timed out when the
\* last is let through.
THEOREM CapIsSpare == Spec => []CapNeverBinds
<1>1. IInv => CapNeverBinds
  <2> SUFFICES ASSUME IInv, NEW i \in DOMAIN log, NEW j \in DOMAIN log,
                      j = i + PendingCap, log[j].fwd = log[i].fwd
               PROVE  log[j].at - log[i].at > Timeout
    BY DEF CapNeverBinds
  <2>1. /\ PendingCap \in Nat /\ Timeout \in Nat
        /\ Full + Timeout < (PendingCap + 1) * Cost
    BY RateAssumption
  <2>2. /\ log[i].at \in Int /\ log[j].at \in Int /\ log[i].fwd \in Int
        /\ i \in Int /\ j \in Int
    BY ThenType DEF IInv, TypeOK
  <2>3. i <= j /\ j - i + 1 = PendingCap + 1
    BY <2>1, <2>2
  <2>4. (PendingCap + 1) * Cost <= Full + (Then[j] - Then[i])
    BY <2>3 DEF IInv, Window
  <2>5. (PendingCap + 1) * Cost \in Int
    BY <2>1, FullFacts
  <2>6. Then[j] - Then[i] = log[j].at - log[i].at
    BY <2>2 DEF Then
  <2> QED
    BY <2>1, <2>2, <2>4, <2>5, <2>6, FullFacts
<1> QED
  BY <1>1, Invariance, PTL

\* Refusals do not put the next grant off (device.ts:362-366).
THEOREM NoStarvation == Spec => []ServedInTurn
<1>1. IInv => ServedInTurn
  <2> SUFFICES ASSUME IInv, log = <<>> \/ True - log[Len(log)].at >= Cost + slack
               PROVE  Avail >= Cost
    BY DEF ServedInTurn, Allowed, Avail
  <2>1. /\ bucket \in BucketType /\ now \in Int /\ back \in Nat /\ fwd \in Nat
        /\ slack \in Nat /\ log \in Seq(Grant)
    BY DEF IInv, TypeOK
  <2> DEFINE tokens == bucket.tokens
             updated == bucket.updated
             last == log[Len(log)].at
  <2>2. /\ tokens \in Int /\ updated \in Int /\ Avail \in Int /\ tokens <= Avail
        /\ Avail = Full \/ Avail >= tokens + (now - updated)
        /\ Full \in Int /\ Cost \in Int /\ Cost <= Full
    BY <2>1, RefilledFacts, FullFacts DEF Avail
  <2>3. IF log = <<>> THEN tokens = Full
        ELSE tokens + (now - updated) >= True - last - slack
    BY DEF IInv, Credit
  <2>4. CASE log = <<>>
    <3>1. tokens = Full
      BY <2>3, <2>4
    <3> HIDE DEF tokens, updated
    <3> QED
      BY <2>2, <3>1
  <2>5. CASE log # <<>>
    <3>1. last \in Int /\ True \in Int
      <4>1. Len(log) \in DOMAIN log
        BY <2>1, <2>5
      <4>2. log[Len(log)].at \in Int
        BY <2>1, <4>1, ThenType
      <4> QED
        BY <2>1, <4>2 DEF True
    <3>2. /\ tokens + (now - updated) >= True - last - slack
          /\ True - last >= Cost + slack
      BY <2>3, <2>5
    <3> HIDE DEF tokens, updated, last
    <3> QED
      BY <2>1, <2>2, <3>1, <3>2
  <2> QED
    BY <2>4, <2>5
<1> QED
  BY <1>1, Invariance, PTL
=============================================================================
