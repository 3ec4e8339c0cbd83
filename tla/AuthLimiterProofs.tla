------------------------- MODULE AuthLimiterProofs -------------------------
(***************************************************************************)
(* The ring of failure times implements the sliding window, for every      *)
(* threshold, window and lockout length.                                   *)
(***************************************************************************)
EXTENDS AuthLimiter, TLAPS

USE LockoutAssumption

-----------------------------------------------------------------------------
(* The ring *)

\* One step round the ring.
LEMMA NextSlot ==
  ASSUME NEW h \in Slots
  PROVE  /\ (h + 1) % FailThreshold \in Slots
         /\ (h + 1) % FailThreshold = IF h + 1 = FailThreshold THEN 0 ELSE h + 1
BY DEF Slots

\* FailThreshold failures all recent is the FailThreshold-th newest recent:
\* the times never decrease.
LEMMA WindowOfLast ==
  ASSUME NEW f \in Seq(Nat), NEW t \in Nat,
         \A i, j \in DOMAIN f : i <= j => f[i] <= f[j]
  PROVE  (\E i \in DOMAIN f : /\ Len(f) - i + 1 >= FailThreshold
                              /\ \A j \in i .. Len(f) : t - f[j] <= FailWindow)
           <=> /\ Len(f) >= FailThreshold
               /\ t - f[Len(f) - FailThreshold + 1] <= FailWindow
<1> DEFINE n == Len(f)
           k == n - FailThreshold + 1
<1>0. n \in Nat /\ DOMAIN f = 1 .. n /\ \A i \in 1 .. n : f[i] \in Nat
  OBVIOUS
<1> HIDE DEF n
<1>1. ASSUME NEW i \in 1 .. n, n - i + 1 >= FailThreshold,
             \A j \in i .. n : t - f[j] <= FailWindow
      PROVE  n >= FailThreshold /\ t - f[k] <= FailWindow
  <2>1. k \in i .. n /\ n >= FailThreshold
    BY <1>0, <1>1
  <2> QED
    BY <1>1, <2>1
<1>2. ASSUME n >= FailThreshold, t - f[k] <= FailWindow
      PROVE  /\ k \in 1 .. n /\ n - k + 1 >= FailThreshold
             /\ \A j \in k .. n : t - f[j] <= FailWindow
  <2>1. k \in 1 .. n /\ n - k + 1 >= FailThreshold
    BY <1>0, <1>2
  <2>2. ASSUME NEW j \in k .. n PROVE t - f[j] <= FailWindow
    <3>1. j \in 1 .. n /\ k <= j
      BY <1>0, <2>1
    <3>2. f[k] <= f[j] /\ f[k] \in Nat /\ f[j] \in Nat
      BY <1>0, <2>1, <3>1
    <3> QED
      BY <1>2, <3>2
  <2> QED
    BY <2>1, <2>2
<1> HIDE DEF k
<1>3. (\E i \in 1 .. n : /\ n - i + 1 >= FailThreshold
                         /\ \A j \in i .. n : t - f[j] <= FailWindow)
        <=> n >= FailThreshold /\ t - f[k] <= FailWindow
  BY <1>1, <1>2
<1> QED
  BY <1>0, <1>3 DEF k, n

-----------------------------------------------------------------------------
(* The invariant *)

LEMMA InitHolds == Init => RingHoldsLast
<1> SUFFICES ASSUME Init PROVE RingHoldsLast
  OBVIOUS
<1>1. now = 1 /\ ring = EmptyRing /\ fails = <<>>
  BY DEF Init
<1>2. \A i \in Slots : ring.ts[i] = 0 /\ ring.head = 0 /\ i \in Int /\ i >= 0
  BY <1>1 DEF EmptyRing, Slots
<1>3. ring \in RingType
  BY <1>1 DEF EmptyRing, RingType, Slots
<1>4. \A i \in Slots : ~(Age(i) <= Len(fails))
  BY <1>1, <1>2 DEF Age, Slots
<1> QED
  BY <1>1, <1>2, <1>3, <1>4 DEF RingHoldsLast, TypeOK

\* A failure is stored at the head, every other slot is one store older, and
\* the slot compared is the FailThreshold-th newest.
LEMMA FailStep ==
  ASSUME RingHoldsLast, Fail
  PROVE  /\ RingHoldsLast'
         /\ Window!Fail
<1> DEFINE n    == Len(fails)
           f    == Append(fails, now)
           h    == ring.head
           head == (h + 1) % FailThreshold
           ts   == [ring.ts EXCEPT ![h] = now]
           age(i) == IF i < head THEN head - i ELSE head - i + FailThreshold
<1>0. /\ now \in Nat \ {0} /\ ring \in RingType /\ fails \in Seq(Nat)
      /\ n \in Nat /\ h \in Slots /\ ring.ts \in [Slots -> Nat]
  BY DEF RingHoldsLast, TypeOK, RingType
<1>1. /\ head \in Slots
      /\ head = IF h + 1 = FailThreshold THEN 0 ELSE h + 1
  BY <1>0, NextSlot
<1>2. /\ f \in Seq(Nat) /\ Len(f) = n + 1 /\ f[n + 1] = now
      /\ \A i \in 1 .. n : f[i] = fails[i]
      /\ DOMAIN f = 1 .. n + 1
  BY <1>0
<1>3. \A i \in 1 .. n + 1 : f[i] \in 1 .. now
  BY <1>0, <1>2 DEF RingHoldsLast
<1>4. \A i, j \in 1 .. n + 1 : i <= j => f[i] <= f[j]
  <2> SUFFICES ASSUME NEW i \in 1 .. n + 1, NEW j \in 1 .. n + 1, i <= j
               PROVE  f[i] <= f[j]
    OBVIOUS
  <2>1. CASE j = n + 1
    BY <1>0, <1>2, <1>3, <2>1
  <2>2. CASE j # n + 1
    BY <1>0, <1>2, <2>2 DEF RingHoldsLast
  <2> QED
    BY <2>1, <2>2
<1>5. \A i \in Slots :
        ts[i] = IF age(i) <= n + 1 THEN f[n + 1 - age(i) + 1] ELSE 0
  <2> SUFFICES ASSUME NEW i \in Slots
               PROVE  ts[i] = IF age(i) <= n + 1 THEN f[n + 1 - age(i) + 1]
                              ELSE 0
    OBVIOUS
  <2> HIDE DEF f, n, head, h
  <2>1. CASE i = h
    <3>1. age(i) = 1 /\ ts[i] = now
      BY <1>0, <1>1, <2>1 DEF Slots
    <3> QED
      BY <1>0, <1>2, <3>1
  <2>2. CASE i # h
    <3>a. /\ h \in Int /\ 0 <= h /\ h < FailThreshold /\ h = ring.head
          /\ i \in Int /\ 0 <= i /\ i < FailThreshold
      BY <1>0 DEF Slots, h
    <3>b. Age(i) = IF i < h THEN h - i ELSE h - i + FailThreshold
      BY <3>a DEF Age
    <3>1. age(i) = Age(i) + 1 /\ Age(i) \in Nat \ {0}
      <4>1. CASE i < h
        BY <1>1, <2>2, <3>a, <3>b, <4>1
      <4>2. CASE h < i
        BY <1>1, <2>2, <3>a, <3>b, <4>2
      <4> QED
        BY <2>2, <3>a, <4>1, <4>2
    <3>2. ts[i] = ring.ts[i]
      BY <1>0, <2>2
    <3>3. ts[i] = IF Age(i) <= n THEN fails[n - Age(i) + 1] ELSE 0
      BY <3>2 DEF RingHoldsLast, n
    <3>4. Age(i) <= n => n - Age(i) + 1 \in 1 .. n
      BY <1>0, <3>1
    <3>5. Age(i) <= n => fails[n - Age(i) + 1] = f[n - Age(i) + 1]
      BY <1>2, <3>4
    <3>6. age(i) <= n + 1 <=> Age(i) <= n
      BY <1>0, <3>1
    <3>7. n + 1 - age(i) + 1 = n - Age(i) + 1
      BY <1>0, <3>1
    <3> HIDE DEF age, ts
    <3> QED
      BY <3>3, <3>5, <3>6, <3>7
  <2> QED
    BY <2>1, <2>2
<1>6. ts[head] = IF FailThreshold <= n + 1 THEN f[n + 1 - FailThreshold + 1]
                 ELSE 0
  <2>1. age(head) = FailThreshold
    BY <1>1 DEF Slots
  <2> QED
    BY <1>1, <1>5, <2>1
<1>7. ts[head] # 0 /\ now - ts[head] <= FailWindow
        <=> Len(f) >= FailThreshold
            /\ now - f[Len(f) - FailThreshold + 1] <= FailWindow
  <2>1. FailThreshold <= n + 1 => n + 1 - FailThreshold + 1 \in 1 .. n + 1
    BY <1>0
  <2> HIDE DEF f, n, head, ts
  <2>2. FailThreshold <= n + 1 => f[n + 1 - FailThreshold + 1] # 0
    BY <1>0, <1>3, <2>1
  <2> QED
    BY <1>0, <1>2, <1>6, <2>2
<1>8. Window!TooMany(f)
        <=> ts[head] # 0 /\ now - ts[head] <= FailWindow
  <2> HIDE DEF f, n, head, ts
  <2>1. /\ now \in Nat
        /\ \A i \in DOMAIN f : f[i] <= now
        /\ \A i, j \in DOMAIN f : i <= j => f[i] <= f[j]
    BY <1>0, <1>2, <1>3, <1>4
  <2> QED
    BY <1>2, <1>7, <2>1, WindowOfLast DEF Window!TooMany
<1>9. /\ now' = now /\ ~LockedOut(ring, now)
      /\ ring' = NoteAuthFailure(ring, now)
      /\ fails' = IF Cleared(ring') THEN <<>> ELSE f
  BY DEF Fail
<1>10. CASE ts[head] # 0 /\ now - ts[head] <= FailWindow
  <2>1. ring' = [EmptyRing EXCEPT !.until = now + LockoutSec]
    BY <1>9, <1>10 DEF NoteAuthFailure
  <2>2. fails' = <<>> /\ ring'.until = now + LockoutSec
    BY <1>9, <2>1 DEF Cleared, EmptyRing
  <2>3. /\ ring'.head = 0 /\ ring' \in RingType
        /\ \A i \in Slots : ring'.ts[i] = 0
    <3>1. now + LockoutSec \in Nat /\ 0 \in Slots
      BY <1>0 DEF Slots
    <3>2. ring' = [ts |-> [i \in Slots |-> 0], head |-> 0,
                   until |-> now + LockoutSec]
      BY <2>1 DEF EmptyRing
    <3> QED
      BY <3>1, <3>2 DEF RingType
  <2>4. \A i \in Slots : ~(Age(i)' <= Len(fails'))
    BY <2>2, <2>3 DEF Age, Slots
  <2>5. RingHoldsLast'
    BY <1>0, <1>9, <2>2, <2>3, <2>4 DEF RingHoldsLast, TypeOK
  <2>6. Window!Fail
    <3>1. ring.until <= now
      BY <1>0, <1>9 DEF LockedOut, RingType
    <3>2. Window!TooMany(Append(fails, now))
      BY <1>8, <1>10
    <3> QED
      BY <1>9, <2>2, <3>1, <3>2 DEF Window!Fail
  <2> QED
    BY <2>5, <2>6
<1>11. CASE ~(ts[head] # 0 /\ now - ts[head] <= FailWindow)
  <2>1. ring' = [ring EXCEPT !.ts = ts, !.head = head]
    BY <1>9, <1>11 DEF NoteAuthFailure
  <2>2. ring'.ts = ts /\ ring'.head = head /\ ring'.until = ring.until
    BY <1>0, <2>1 DEF RingType
  <2>3. ring' \in RingType
    BY <1>0, <1>1, <2>1 DEF RingType
  <2>4. fails' = f
    <3>1. ts[h] = now /\ EmptyRing.ts[h] = 0
      BY <1>0 DEF EmptyRing
    <3> QED
      BY <1>0, <1>9, <2>2, <3>1 DEF Cleared
  <2> HIDE DEF f, n, head, ts, age
  <2>5. RingHoldsLast'
    <3>1. TypeOK'
      BY <1>0, <1>2, <1>9, <2>3, <2>4 DEF TypeOK
    <3>2. /\ \A i \in DOMAIN fails' : fails'[i] \in 1 .. now'
          /\ \A i, j \in DOMAIN fails' : i <= j => fails'[i] <= fails'[j]
      BY <1>2, <1>3, <1>4, <1>9, <2>4
    <3>3. \A i \in Slots :
            ring'.ts[i] = IF Age(i)' <= Len(fails')
                          THEN fails'[Len(fails') - Age(i)' + 1] ELSE 0
      <4> SUFFICES ASSUME NEW i \in Slots
                   PROVE  ring'.ts[i] = IF Age(i)' <= Len(fails')
                                        THEN fails'[Len(fails') - Age(i)' + 1]
                                        ELSE 0
        OBVIOUS
      <4>1. fails' = f /\ Len(fails') = n + 1
        BY <1>2, <2>4
      <4>2. ts[i] = IF age(i) <= n + 1 THEN f[n + 1 - age(i) + 1] ELSE 0
        BY <1>5
      <4> QED
        <5> DEFINE a == age(i)
        <5>1. Age(i)' = a
          BY <2>2 DEF Age, age
        <5>2. a \in Int
          BY <1>1 DEF age, Slots
        <5>3. ts[i] = IF a <= n + 1 THEN f[n + 1 - a + 1] ELSE 0
          BY <4>2
        <5> HIDE DEF a
        <5>4. ts[i] = IF a <= Len(fails') THEN fails'[Len(fails') - a + 1] ELSE 0
          BY <1>0, <4>1, <5>2, <5>3
        <5> QED
          BY <2>2, <5>1, <5>4
    <3> QED
      BY <3>1, <3>2, <3>3 DEF RingHoldsLast
  <2>6. Window!Fail
    <3>1. ring.until <= now
      BY <1>0, <1>9 DEF LockedOut, RingType
    <3> QED
      <4>1. ~Window!TooMany(Append(fails, now))
        BY <1>8, <1>11 DEF f
      <4> QED
        BY <1>9, <2>2, <2>4, <3>1, <4>1 DEF Window!Fail, f
  <2> QED
    BY <2>5, <2>6
<1> QED
  BY <1>10, <1>11

LEMMA StepHolds ==
  RingHoldsLast /\ [Next]_vars
    => RingHoldsLast' /\ [Window!Next]_(Window!vars)
<1> SUFFICES ASSUME RingHoldsLast, [Next]_vars
             PROVE  RingHoldsLast' /\ [Window!Next]_(Window!vars)
  OBVIOUS
<1>1. CASE Fail
  BY <1>1, FailStep DEF Window!Next
<1>2. CASE Pass
  <2>1. now' = now + 1 /\ ring' = ring /\ fails' = fails
    BY <1>2 DEF Pass
  <2>2. now \in Nat \ {0} /\ \A i \in Slots : Age(i)' = Age(i)
    BY <2>1 DEF RingHoldsLast, TypeOK, Age
  <2>3. RingHoldsLast'
    BY <2>1, <2>2 DEF RingHoldsLast, TypeOK
  <2> QED
    BY <2>1, <2>3 DEF Window!Next, Window!Pass
<1>3. CASE Restart
  <2>1. now' = 1 /\ ring' = EmptyRing /\ fails' = <<>>
    BY <1>3 DEF Restart
  <2>2. \A i \in Slots : ring'.ts[i] = 0 /\ ring'.head = 0
    BY <2>1 DEF EmptyRing
  <2>3. ring' \in RingType /\ ring'.until = 0
    BY <2>1 DEF EmptyRing, RingType, Slots
  <2>4. \A i \in Slots : ~(Age(i)' <= Len(fails'))
    BY <2>1, <2>2 DEF Age, Slots
  <2>5. RingHoldsLast'
    BY <2>1, <2>2, <2>3, <2>4 DEF RingHoldsLast, TypeOK
  <2> QED
    BY <2>1, <2>3, <2>5 DEF Window!Next, Window!Restart
<1>4. CASE UNCHANGED vars
  <2>1. now' = now /\ ring' = ring /\ fails' = fails
    BY <1>4 DEF vars
  <2>2. RingHoldsLast'
    BY <2>1 DEF RingHoldsLast, TypeOK, Age
  <2> QED
    BY <2>1, <2>2 DEF Window!vars
<1> QED
  BY <1>1, <1>2, <1>3, <1>4 DEF Next

\* The ring always holds the last failures since the last lockout.
THEOREM RingCorrect == Spec => []RingHoldsLast
<1>1. RingHoldsLast /\ [Next]_vars => RingHoldsLast'
  BY StepHolds
<1> QED
  BY <1>1, InitHolds, PTL DEF Spec

\* Comparing with one slot of the ring locks exactly when FailThreshold
\* failures lie within the window.
THEOREM RingImplementsWindow == Spec => ImplementsWindow
<1>1. Init => Window!Init
  BY DEF Init, Window!Init, EmptyRing
<1>2. RingHoldsLast /\ [Next]_vars => [Window!Next]_(Window!vars)
  BY StepHolds
<1> QED
  BY <1>1, <1>2, RingCorrect, PTL DEF Spec, ImplementsWindow, Window!Spec
=============================================================================
