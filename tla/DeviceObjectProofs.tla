------------------------- MODULE DeviceObjectProofs -------------------------
(* Proofs about DeviceObject: the sockets, the requests and the update       *)
(* checks each keep their part of the invariant; the parts meet only in gen. *)
(* The object implements CallService for those who send commands.            *)
EXTENDS DeviceObject, TLAPS

SocketPart == SocketTypes /\ SocketInv
CallPart   == CallTypes /\ CallInv
CheckPart  == CheckTypes /\ CheckInv

LEMMA Parts == IInv <=> SocketPart /\ CallPart /\ CheckPart
  BY Zenon DEF IInv, TypeOK, SocketPart, CallPart, CheckPart

LEMMA FullNat == Full \in Nat /\ Cost \in Nat /\ Cost # 0
  BY BucketAssumption DEF Full

LEMMA BucketKept ==
  ASSUME NEW b \in BucketType, NEW t \in Int
  PROVE  Consume(b, t) \in BucketType
<1>1. b.tokens \in 0 .. Full /\ b.updated \in Int /\ Full \in Nat /\ Cost \in Nat
  BY FullNat DEF BucketType
<1>2. Refilled(b, t) \in 0 .. Full
  BY <1>1 DEF Refilled
<1>3. (IF Allowed(b, t) THEN Refilled(b, t) - Cost ELSE Refilled(b, t)) \in 0 .. Full
  BY <1>1, <1>2 DEF Allowed
<1> QED
  BY <1>3 DEF Consume, BucketType

LEMMA GenFacts == MaxGen \in Nat /\ Gens = 1 .. MaxGen
  BY ObjectAssumption DEF Gens

\* The active socket is open, of the newest generation, and the only open one.
LEMMA ActiveFacts ==
  ASSUME SocketPart
  PROVE  /\ gen \in Nat /\ Active \in 0 .. MaxGen
         /\ Active # 0 => Active = gen /\ gen \in Gens /\ sock[gen] = "open"
         /\ Active = 0 => \A g \in Gens : sock[g] # "open"
  BY GenFacts DEF SocketPart, SocketTypes, SocketInv, OneSocket, Active, ActiveAmong

-----------------------------------------------------------------------------
(* Sockets and presence *)

\* A socket ends and presence is marked: webSocketClose(), webSocketError() and
\* onSocketGone() alike.
LEMMA SocketEnds ==
  ASSUME SocketPart, NEW g \in Gens, NEW st \in {"closing", "gone"},
         sock[g] \in {"open", "closing"}, sock' = [sock EXCEPT ![g] = st],
         MarkPresence(sock'), UNCHANGED <<gen, lost>>
  PROVE  SocketPart'
<1>1. /\ sock \in [Gens -> States] /\ gen \in 0 .. MaxGen /\ gen' = gen
      /\ \A h \in Gens : sock[h] = "open" => h = gen
      /\ \A h \in Gens : sock[h] = "none" <=> h > gen
  BY DEF SocketPart, SocketTypes, SocketInv, OneSocket
<1>2. /\ sock' \in [Gens -> States] /\ sock'[g] = st
      /\ \A h \in Gens \ {g} : sock'[h] = sock[h]
  BY <1>1 DEF States
<1>3. OneSocket'
  BY <1>1, <1>2 DEF OneSocket
<1>4. lost = FALSE /\ lost' = FALSE
  BY DEF SocketPart, SocketTypes, SocketInv
<1>5. Active' = ActiveAmong(sock')
  BY <1>1 DEF Active, ActiveAmong
<1>6. Active' # 0 => Active # 0
  BY <1>1, <1>2, GenFacts DEF Active, ActiveAmong
<1>7. CASE Active' = 0
  <2>1. since' = "offline" /\ alarm' = FALSE
    BY <1>5, <1>7 DEF MarkPresence
  <2>2. SocketInv'
    BY <1>3, <1>4, <1>7, <2>1 DEF SocketInv, AlarmArmed, PresenceDated
  <2> QED
    BY <1>1, <1>2, <1>4, <2>1, <2>2 DEF SocketPart, SocketTypes
<1>8. CASE Active' # 0
  <2>1. since' = since /\ alarm' = alarm
    BY <1>5, <1>8 DEF MarkPresence
  <2>2. alarm /\ since = "online"
    BY <1>6, <1>8 DEF SocketPart, SocketInv, AlarmArmed, PresenceDated
  <2>3. SocketInv'
    BY <1>3, <1>4, <1>8, <2>1, <2>2 DEF SocketInv, AlarmArmed, PresenceDated
  <2>4. SocketTypes'
    BY <1>1, <1>2, <1>4, <2>1, <2>2 DEF SocketTypes
  <2> QED
    BY <2>3, <2>4 DEF SocketPart
<1> QED
  BY <1>7, <1>8

LEMMA GoneSockets ==
  ASSUME SocketPart, Active # 0, SocketGone(Active)
  PROVE  SocketPart'
<1>1. Active \in Gens /\ sock[Active] = "open"
  BY ActiveFacts
<1> QED
  BY <1>1, SocketEnds DEF SocketGone

LEMMA UpgradeSockets ==
  ASSUME SocketPart, Upgrade
  PROVE  SocketPart'
<1>1. /\ sock \in [Gens -> States] /\ gen \in 0 .. MaxGen
      /\ \A h \in Gens : sock[h] = "none" <=> h > gen
  BY DEF SocketPart, SocketTypes, SocketInv, OneSocket
<1>2. /\ gen' = gen + 1 /\ gen' \in Gens /\ since' = "online"
      /\ alarm' = TRUE /\ lost' = FALSE
  BY <1>1, GenFacts DEF Upgrade
<1>3. sock' = [g \in Gens |-> IF g = gen + 1 THEN "open"
                              ELSE IF sock[g] = "open" THEN "closing" ELSE sock[g]]
  BY DEF Upgrade
<1>4. sock' \in [Gens -> States] /\ sock'[gen + 1] = "open"
  BY <1>1, <1>2, <1>3 DEF States
<1>5. \A h \in Gens \ {gen + 1} :
        sock'[h] # "open" /\ (sock'[h] = "none" <=> h > gen)
  BY <1>1, <1>3
<1>6. OneSocket'
  BY <1>1, <1>2, <1>4, <1>5, GenFacts DEF OneSocket
<1>7. Active' # 0
  BY <1>1, <1>2, <1>4, GenFacts DEF Active, ActiveAmong
<1>8. SocketInv'
  BY <1>2, <1>6, <1>7 DEF SocketInv, AlarmArmed, PresenceDated
<1>9. SocketTypes'
  <2>1. gen' \in 0 .. MaxGen
    BY <1>2, GenFacts
  <2> QED
    BY <1>2, <1>4, <2>1, Zenon DEF SocketTypes
<1> QED
  BY <1>8, <1>9 DEF SocketPart

LEMMA ResetSockets ==
  ASSUME SocketPart, Reset
  PROVE  SocketPart'
<1>1. /\ sock \in [Gens -> States] /\ gen \in 0 .. MaxGen
      /\ \A h \in Gens : sock[h] = "none" <=> h > gen
      /\ lost \in BOOLEAN
  BY DEF SocketPart, SocketTypes, SocketInv, OneSocket
<1>2. /\ sock' = [g \in Gens |-> IF sock[g] = "none" THEN "none" ELSE "gone"]
      /\ gen' = gen /\ since' = since /\ alarm' = alarm
      /\ lost' = (lost \/ Active # 0)
  BY DEF Reset
<1>3. /\ sock' \in [Gens -> States]
      /\ \A h \in Gens : /\ sock'[h] \in {"none", "gone"}
                         /\ sock'[h] = "none" <=> sock[h] = "none"
  BY <1>2 DEF States
<1>4. OneSocket'
  BY <1>1, <1>2, <1>3 DEF OneSocket
<1>5. Active' = 0
  BY <1>3 DEF Active, ActiveAmong
<1>6. PresenceDated'
  BY <1>2, <1>5, Zenon DEF SocketPart, SocketInv, PresenceDated
<1>7. SocketInv'
  BY <1>3, <1>4, <1>5, <1>6 DEF SocketInv, AlarmArmed
<1>8. SocketTypes'
  BY <1>1, <1>2, <1>3 DEF SocketPart, SocketTypes
<1> QED
  BY <1>7, <1>8 DEF SocketPart

LEMMA IdleSockets ==
  ASSUME SocketPart, AlarmIdle
  PROVE  SocketPart'
<1>1. /\ gen' = gen /\ since' = since /\ lost' = lost /\ sock' = sock
      /\ alarm' = FALSE /\ Active = 0 /\ Active' = 0
  BY DEF AlarmIdle, Active, ActiveAmong
<1>2. OneSocket' /\ PresenceDated'
  BY <1>1, Zenon DEF SocketPart, SocketInv, OneSocket, PresenceDated
<1>3. SocketInv'
  BY <1>1, <1>2 DEF SocketPart, SocketInv, AlarmArmed
<1>4. SocketTypes'
  BY <1>1 DEF SocketPart, SocketTypes
<1> QED
  BY <1>3, <1>4 DEF SocketPart

LEMMA SameSockets ==
  ASSUME SocketPart, UNCHANGED socketVars
  PROVE  SocketPart'
  BY Zenon DEF SocketPart, SocketTypes, SocketInv, OneSocket, AlarmArmed,
               PresenceDated, Active, ActiveAmong, socketVars

\* Every step keeps the sockets' part, and the generation never goes back.
LEMMA SocketStep ==
  ASSUME IInv, [Next]_vars
  PROVE  SocketPart' /\ gen' \in {gen, gen + 1}
<1>1. SocketPart
  BY Parts
<1>2. CASE Upgrade
  BY <1>1, <1>2, UpgradeSockets DEF Upgrade
<1>3. CASE \E g \in Gens : SocketClosed(g)
  BY <1>1, <1>3, SocketEnds DEF SocketClosed
<1>4. CASE \E r \in Reqs, id \in Ids : HandleSend(r, id)
  <2> PICK r \in Reqs, id \in Ids : HandleSend(r, id)
    BY <1>4
  <2>1. CASE UNCHANGED socketVars
    BY <1>1, <2>1, SameSockets DEF socketVars
  <2>2. CASE ~Refused(id) /\ SocketGone(Active)
    BY <1>1, <2>2, GoneSockets DEF Refused, SocketGone
  <2> QED
    BY <2>1, <2>2 DEF HandleSend
<1>5. CASE KeepaliveFails
  BY <1>1, <1>5, GoneSockets DEF KeepaliveFails, SocketGone
<1>6. CASE Keepalive
  <2>1. UNCHANGED socketVars
    BY <1>1, <1>6 DEF Keepalive, socketVars, SocketPart, SocketInv, AlarmArmed,
                      SocketTypes
  <2> QED
    BY <1>1, <2>1, SameSockets DEF socketVars
<1>7. CASE AlarmIdle
  BY <1>1, <1>7, IdleSockets DEF AlarmIdle
<1>8. CASE Reset
  BY <1>1, <1>8, ResetSockets DEF Reset
<1>9. CASE \/ \E g \in Gens, id \in Ids : Answer(g, id)
           \/ \E r \in Reqs : ResponseTimeout(r)
           \/ \E g \in Gens, reg \in Regs : Hello(g, reg)
           \/ CatalogServes \/ CatalogEnds \/ Tick \/ UNCHANGED vars
  <2>1. UNCHANGED socketVars
    BY <1>9, Zenon DEF Answer, ResponseTimeout, Hello, CatalogServes, CatalogEnds, Tick, vars
  <2> QED
    BY <1>1, <2>1, SameSockets DEF socketVars
<1> QED
  BY <1>2, <1>3, <1>4, <1>5, <1>6, <1>7, <1>8, <1>9 DEF Next
-----------------------------------------------------------------------------
(* Requests *)

\* A newer generation changes nothing about the requests.
LEMMA SameCalls ==
  ASSUME CallPart, UNCHANGED callVars, gen \in Nat, gen' \in {gen, gen + 1}
  PROVE  CallPart'
<1>1. WaitersTimed' /\ AnsweredByOwner' /\ CallTypes'
  BY Zenon DEF CallPart, CallTypes, CallInv, WaitersTimed, AnsweredByOwner, Waiting,
               callVars
<1>2. \A r \in Reqs : Waiting(r) => req[r].via \in 1 .. gen
  BY DEF CallPart, CallInv
<1>3. \A v : v \in 1 .. gen => v \in 1 .. gen'
  OBVIOUS
<1>4. \A r \in Reqs : (Waiting(r))' => req'[r].via \in 1 .. gen'
  BY <1>2, <1>3, Zenon DEF Waiting, callVars
<1> QED
  BY <1>1, <1>4 DEF CallPart, CallInv, Waiting

\* A request that ends or is replaced by one that never waited.
LEMMA NoCallFacts ==
  /\ NoCall \in CallType /\ NoCall.out = "none"
  /\ \A g \in 1 .. MaxGen : /\ SentOn(g) \in CallType
                            /\ SentOn(g).out = "waiting" /\ SentOn(g).via = g
  /\ \A q \in CallType, g \in 1 .. MaxGen :
       /\ AnsweredBy(q, g) \in CallType
       /\ AnsweredBy(q, g).out = "answered"
       /\ AnsweredBy(q, g).via = q.via /\ AnsweredBy(q, g).by = g
<1>1. NoCall \in CallType /\ NoCall.out = "none"
  BY GenFacts DEF NoCall, CallType
<1>2. ASSUME NEW g \in 1 .. MaxGen
      PROVE  /\ SentOn(g) \in CallType
             /\ SentOn(g).out = "waiting" /\ SentOn(g).via = g
  BY GenFacts DEF SentOn, CallType
<1>3. ASSUME NEW q \in CallType, NEW g \in 1 .. MaxGen
      PROVE  /\ AnsweredBy(q, g) \in CallType
             /\ AnsweredBy(q, g).out = "answered"
             /\ AnsweredBy(q, g).via = q.via /\ AnsweredBy(q, g).by = g
  BY <1>3, GenFacts DEF AnsweredBy, CallType
<1> QED
  BY <1>1, <1>2, <1>3

\* A request that does not wait has neither timer nor id.
LEMMA IdleHasNothing ==
  ASSUME CallPart, NEW r \in Reqs, ~Waiting(r)
  PROVE  timer[r] = NoId /\ \A id \in Ids : pending[id] # r
  BY ObjectAssumption DEF CallPart, CallInv, WaitersTimed

\* A turned away request does not disturb those that wait.
LEMMA RefusedCall ==
  ASSUME CallPart, NEW r \in Reqs, ~Waiting(r), req' = [req EXCEPT ![r] = NoCall],
         bucket' \in BucketType, UNCHANGED <<pending, timer>>,
         gen \in Nat, gen' = gen
  PROVE  CallPart'
<1>1. req \in [Reqs -> CallType]
  BY DEF CallPart, CallTypes
<1>2. /\ req' \in [Reqs -> CallType] /\ req'[r].out = "none"
      /\ \A q \in Reqs \ {r} : req'[q] = req[q]
  BY <1>1, NoCallFacts
<1>3. CallTypes'
  BY <1>2 DEF CallPart, CallTypes
<1>4. \A q \in Reqs : (Waiting(q))' <=> Waiting(q)
  BY <1>2 DEF Waiting
<1>5. WaitersTimed'
  BY <1>4 DEF CallPart, CallInv, WaitersTimed
<1>6. AnsweredByOwner'
  BY <1>2 DEF CallPart, CallInv, AnsweredByOwner
<1>7. \A q \in Reqs : (Waiting(q))' => req'[q].via \in 1 .. gen'
  BY <1>2, <1>4 DEF CallPart, CallInv, Waiting
<1> QED
  BY <1>3, <1>5, <1>6, <1>7 DEF CallPart, CallInv, Waiting

LEMMA SentCall ==
  ASSUME CallPart, SocketPart, NEW r \in Reqs, NEW id \in Ids, ~Waiting(r),
         Active # 0, pending[id] = NoReq,
         req' = [req EXCEPT ![r] = SentOn(Active)],
         pending' = [pending EXCEPT ![id] = r], timer' = [timer EXCEPT ![r] = id],
         bucket' \in BucketType, gen' = gen
  PROVE  CallPart'
<1>1. /\ req \in [Reqs -> CallType] /\ pending \in [Ids -> Reqs \cup {NoReq}]
      /\ timer \in [Reqs -> Ids \cup {NoId}] /\ NoReq \notin Reqs /\ NoId \notin Ids
  BY ObjectAssumption DEF CallPart, CallTypes
<1>2. Active = gen /\ gen \in 1 .. MaxGen
  BY ActiveFacts, GenFacts
<1>3. /\ req' \in [Reqs -> CallType] /\ req'[r].out = "waiting" /\ req'[r].via = gen
      /\ \A q \in Reqs \ {r} : req'[q] = req[q]
  BY <1>1, <1>2, NoCallFacts
<1>4. /\ pending'[id] = r /\ \A i \in Ids \ {id} : pending'[i] = pending[i]
      /\ timer'[r] = id /\ \A q \in Reqs \ {r} : timer'[q] = timer[q]
      /\ pending' \in [Ids -> Reqs \cup {NoReq}]
      /\ timer' \in [Reqs -> Ids \cup {NoId}]
  BY <1>1
<1>5. CallTypes'
  BY <1>3, <1>4 DEF CallTypes
<1>6. WaitersTimed'
  <2>1. timer[r] = NoId /\ \A i \in Ids : pending[i] # r
    BY IdleHasNothing
  <2>2. \A q \in Reqs : (Waiting(q))' <=> timer'[q] # NoId
    BY <1>1, <1>3, <1>4 DEF Waiting, CallPart, CallInv, WaitersTimed
  <2>3. \A q \in Reqs, i \in Ids : pending'[i] = q <=> timer'[q] = i
    <3> SUFFICES ASSUME NEW q \in Reqs, NEW i \in Ids
                 PROVE  pending'[i] = q <=> timer'[q] = i
      OBVIOUS
    <3>1. pending[i] = q <=> timer[q] = i
      BY DEF CallPart, CallInv, WaitersTimed
    <3> QED
      BY <1>1, <1>4, <2>1, <3>1
  <2> QED
    BY <2>2, <2>3 DEF WaitersTimed
<1>7. AnsweredByOwner'
  BY <1>3 DEF CallPart, CallInv, AnsweredByOwner
<1>8. \A q \in Reqs : (Waiting(q))' => req'[q].via \in 1 .. gen'
  BY <1>2, <1>3 DEF CallPart, CallInv, Waiting
<1> QED
  BY <1>5, <1>6, <1>7, <1>8 DEF CallPart, CallInv, Waiting

\* An answer, or the timeout, ends exactly one wait.
LEMMA SettledCall ==
  ASSUME CallPart, NEW r \in Reqs, NEW id \in Ids, NEW q \in CallType,
         pending[id] = r, q.out # "waiting",
         q.out = "answered" => q.via # 0 /\ q.by >= q.via,
         req' = [req EXCEPT ![r] = q],
         pending' = [pending EXCEPT ![id] = NoReq],
         timer' = [timer EXCEPT ![r] = NoId],
         bucket' = bucket, gen' = gen
  PROVE  CallPart'
<1>1. /\ req \in [Reqs -> CallType] /\ pending \in [Ids -> Reqs \cup {NoReq}]
      /\ timer \in [Reqs -> Ids \cup {NoId}] /\ NoReq \notin Reqs /\ NoId \notin Ids
  BY ObjectAssumption DEF CallPart, CallTypes
<1>2. /\ req' \in [Reqs -> CallType] /\ req'[r] = q
      /\ \A p \in Reqs \ {r} : req'[p] = req[p]
  BY <1>1
<1>3. /\ pending'[id] = NoReq /\ \A i \in Ids \ {id} : pending'[i] = pending[i]
      /\ timer'[r] = NoId /\ \A p \in Reqs \ {r} : timer'[p] = timer[p]
      /\ pending' \in [Ids -> Reqs \cup {NoReq}]
      /\ timer' \in [Reqs -> Ids \cup {NoId}]
  BY <1>1
<1>4. CallTypes'
  BY <1>2, <1>3 DEF CallPart, CallTypes
<1>5. WaitersTimed'
  <2>1. \A p \in Reqs : (Waiting(p))' <=> timer'[p] # NoId
    BY <1>1, <1>2, <1>3 DEF Waiting, CallPart, CallInv, WaitersTimed
  <2>2. \A p \in Reqs, i \in Ids : pending'[i] = p <=> timer'[p] = i
    <3> SUFFICES ASSUME NEW p \in Reqs, NEW i \in Ids
                 PROVE  pending'[i] = p <=> timer'[p] = i
      OBVIOUS
    <3>1. /\ pending[i] = p <=> timer[p] = i
          /\ pending[i] = r <=> timer[r] = i
          /\ pending[id] = p <=> timer[p] = id
      BY DEF CallPart, CallInv, WaitersTimed
    <3> QED
      BY <1>1, <1>3, <3>1
  <2> QED
    BY <2>1, <2>2 DEF WaitersTimed
<1>6. AnsweredByOwner'
  BY <1>2 DEF CallPart, CallInv, AnsweredByOwner
<1>7. \A p \in Reqs : (Waiting(p))' => req'[p].via \in 1 .. gen'
  BY <1>2 DEF CallPart, CallInv, Waiting
<1> QED
  BY <1>4, <1>5, <1>6, <1>7 DEF CallPart, CallInv, Waiting

LEMMA ResetCalls ==
  ASSUME CallPart, Reset
  PROVE  CallPart'
<1>1. /\ req \in [Reqs -> CallType] /\ NoReq \notin Reqs /\ NoId \notin Ids
  BY ObjectAssumption DEF CallPart, CallTypes
<1>2. /\ pending' = [i \in Ids |-> NoReq] /\ timer' = [q \in Reqs |-> NoId]
      /\ req' = [q \in Reqs |-> IF Waiting(q) THEN NoCall ELSE req[q]]
      /\ bucket' = bucket
  BY DEF Reset
<1>3. /\ req' \in [Reqs -> CallType]
      /\ \A q \in Reqs : req'[q].out # "waiting" /\ req'[q] \in {NoCall, req[q]}
  BY <1>1, <1>2, NoCallFacts DEF Waiting
<1>4. CallTypes'
  BY <1>2, <1>3 DEF CallPart, CallTypes
<1>5. WaitersTimed'
  BY <1>1, <1>2, <1>3 DEF WaitersTimed, Waiting
<1>6. AnsweredByOwner'
  BY <1>3, NoCallFacts DEF CallPart, CallInv, AnsweredByOwner
<1>7. \A q \in Reqs : (Waiting(q))' => req'[q].via \in 1 .. gen'
  BY <1>3 DEF Waiting
<1> QED
  BY <1>4, <1>5, <1>6, <1>7 DEF CallPart, CallInv, Waiting

\* Every step keeps the requests' part.
LEMMA CallStep ==
  ASSUME IInv, [Next]_vars
  PROVE  CallPart'
<1>1. CallPart /\ SocketPart /\ gen \in Nat /\ gen' \in {gen, gen + 1}
  BY Parts, SocketStep, ActiveFacts
<1>2. CASE \E r \in Reqs, id \in Ids : HandleSend(r, id)
  <2> PICK r \in Reqs, id \in Ids : HandleSend(r, id)
    BY <1>2
  <2>1. ~Waiting(r) /\ bucket' \in BucketType
    <3>1. bucket \in BucketType
      BY <1>1 DEF CallPart, CallTypes
    <3> QED
      BY <3>1, BucketKept DEF HandleSend
  <2>2. CASE /\ req' = [req EXCEPT ![r] = NoCall]
             /\ UNCHANGED <<pending, timer>> /\ gen' = gen
    BY <1>1, <2>1, <2>2, RefusedCall
  <2>3. CASE /\ ~Refused(id) /\ gen' = gen
             /\ req' = [req EXCEPT ![r] = SentOn(Active)]
             /\ pending' = [pending EXCEPT ![id] = r]
             /\ timer' = [timer EXCEPT ![r] = id]
    BY <1>1, <2>1, <2>3, SentCall DEF Refused
  <2> QED
    BY <2>2, <2>3, Zenon DEF HandleSend, SocketGone, socketVars
<1>3. CASE \E g \in Gens, id \in Ids : Answer(g, id)
  <2> PICK g \in Gens, id \in Ids : Answer(g, id)
    BY <1>3
  <2> DEFINE r == pending[id]
             q == AnsweredBy(req[r], g)
  <2>1. /\ pending[id] # NoReq /\ g = Active
        /\ req' = [req EXCEPT ![r] = AnsweredBy(@, g)]
        /\ pending' = [pending EXCEPT ![id] = NoReq]
        /\ timer' = [timer EXCEPT ![r] = NoId]
        /\ bucket' = bucket /\ gen' = gen
    BY DEF Answer, Speaks, socketVars
  <2>2. /\ r \in Reqs /\ req[r] \in CallType /\ req \in [Reqs -> CallType]
        /\ NoId \notin Ids
    BY <1>1, <2>1, ObjectAssumption DEF CallPart, CallTypes
  <2>3. Waiting(r) /\ req[r].via \in 1 .. gen
    BY <1>1, <2>2 DEF CallPart, CallInv, WaitersTimed
  <2>4. g = gen /\ g \in 1 .. MaxGen
    BY <1>1, <2>1, ActiveFacts, GenFacts
  <2>5. q \in CallType /\ q.out = "answered" /\ q.via = req[r].via /\ q.by = g
    BY <2>2, <2>4, NoCallFacts
  <2>6. req' = [req EXCEPT ![r] = q]
    BY <2>1, <2>2
  <2>7. q.via # 0 /\ q.by >= q.via
    BY <1>1, <2>3, <2>4, <2>5
  <2> HIDE DEF r, q
  <2> QED
    BY <1>1, <2>1, <2>2, <2>5, <2>6, <2>7, SettledCall DEF r
<1>4. CASE \E r \in Reqs : ResponseTimeout(r)
  <2> PICK r \in Reqs : ResponseTimeout(r)
    BY <1>4
  <2> DEFINE id == timer[r]
  <2>1. /\ id # NoId /\ timer' = [timer EXCEPT ![r] = NoId]
        /\ pending' = [pending EXCEPT ![id] = NoReq]
        /\ req' = IF pending[id] # NoReq /\ Waiting(r)
                  THEN [req EXCEPT ![r] = NoCall] ELSE req
        /\ bucket' = bucket /\ gen' = gen
    BY DEF ResponseTimeout, socketVars
  <2>2. id \in Ids /\ NoReq \notin Reqs
    BY <1>1, <2>1, ObjectAssumption DEF CallPart, CallTypes
  <2>3. pending[id] = r /\ Waiting(r)
    BY <1>1, <2>1, <2>2 DEF CallPart, CallInv, WaitersTimed
  <2>4. req' = [req EXCEPT ![r] = NoCall]
    BY <2>1, <2>2, <2>3
  <2>5. NoCall \in CallType /\ NoCall.out = "none"
    BY NoCallFacts
  <2> HIDE DEF id
  <2> QED
    BY <1>1, <2>1, <2>2, <2>3, <2>4, <2>5, SettledCall
<1>5. CASE Reset
  BY <1>1, <1>5, ResetCalls
<1>6. CASE Tick
  <2>1. bucket' = [bucket EXCEPT !.updated = Older(@, Full)]
        /\ UNCHANGED <<pending, timer, req, gen>>
    BY <1>6, Zenon DEF Tick, socketVars
  <2>2. bucket \in BucketType
    BY <1>1 DEF CallPart, CallTypes
  <2>3. bucket' \in BucketType
    BY <2>1, <2>2, FullNat DEF BucketType, Older
  <2>4. CallInv'
    BY <1>1, <2>1, Zenon DEF CallPart, CallInv, WaitersTimed, AnsweredByOwner, Waiting
  <2> QED
    BY <1>1, <2>1, <2>3, <2>4 DEF CallPart, CallTypes
<1>7. CASE \/ Upgrade \/ \E g \in Gens : SocketClosed(g)
           \/ \E g \in Gens, reg \in Regs : Hello(g, reg)
           \/ CatalogServes \/ CatalogEnds
           \/ Keepalive \/ KeepaliveFails \/ AlarmIdle \/ UNCHANGED vars
  <2>1. UNCHANGED callVars
    BY <1>7, Zenon DEF Upgrade, SocketClosed, Hello, CatalogServes, CatalogEnds,
                       Keepalive, KeepaliveFails, AlarmIdle, vars
  <2> QED
    BY <1>1, <2>1, SameCalls
<1> QED
  BY <1>2, <1>3, <1>4, <1>5, <1>6, <1>7 DEF Next

-----------------------------------------------------------------------------
(* Update checks *)

LEMMA SameChecks ==
  ASSUME CheckPart, UNCHANGED <<att, checkingUpdate, fetch>>, advice' \in {0, 1},
         gen \in Nat, gen' \in {gen, gen + 1}
  PROVE  CheckPart'
<1>1. CheckTypes' /\ OneFetch'
  BY Zenon DEF CheckPart, CheckTypes, CheckInv, OneFetch
<1>2. \A g \in Gens : att'[g].reg # NoReg => g <= gen'
  BY GenFacts DEF CheckPart, CheckInv
<1>3. fetch' # NoFetch => fetch'.reg \in Regs /\ fetch'.ws \in 1 .. gen'
  BY DEF CheckPart, CheckInv
<1> QED
  BY <1>1, <1>2, <1>3 DEF CheckPart, CheckInv

\* The end of a fetch, wanted or not.
LEMMA FetchEnded ==
  ASSUME CheckPart, FetchEnds, UNCHANGED <<att, gen>>, advice' \in {0, 1}
  PROVE  CheckPart'
<1>1. fetch' = NoFetch /\ checkingUpdate' = FALSE /\ NoFetch \in FetchType
  BY GenFacts DEF FetchEnds, NoFetch, FetchType
<1>2. CheckTypes'
  BY <1>1, Zenon DEF CheckPart, CheckTypes
<1> QED
  BY <1>1, <1>2 DEF CheckPart, CheckInv, OneFetch

\* checkUpdate() on attachments that are in order.
LEMMA CheckStarted ==
  ASSUME CheckPart, NEW g \in 1 .. gen, g \in Gens, gen \in 0 .. MaxGen,
         NEW a \in [Gens -> AttType],
         \A h \in Gens : a[h].reg # NoReg => h <= gen,
         NEW interval, CheckUpdate(g, a, interval), UNCHANGED <<advice, gen>>
  PROVE  CheckPart'
<1>1. CASE att' = a /\ UNCHANGED <<checkingUpdate, fetch>>
  <2>1. CheckTypes' /\ OneFetch'
    BY <1>1, Zenon DEF CheckPart, CheckTypes, CheckInv, OneFetch
  <2> QED
    BY <1>1, <2>1 DEF CheckPart, CheckInv
<1>2. CASE /\ a[g].reg # NoReg
           /\ att' = [a EXCEPT ![g].checkedAt = 0]
           /\ checkingUpdate' = TRUE /\ fetch' = [ws |-> g, reg |-> a[g].reg]
  <2>1. a[g] \in AttType /\ a[g].reg \in Regs
    BY <1>2 DEF AttType
  <2>2. [a[g] EXCEPT !.checkedAt = 0] \in AttType
        /\ [a[g] EXCEPT !.checkedAt = 0].reg = a[g].reg
    BY <2>1, ObjectAssumption DEF AttType
  <2>3. /\ att' \in [Gens -> AttType] /\ \A h \in Gens : att'[h].reg = a[h].reg
    BY <1>2, <2>2
  <2>4. /\ fetch' \in FetchType /\ fetch'.ws = g /\ fetch'.reg = a[g].reg
        /\ fetch' # NoFetch
    BY <1>2, <2>1, GenFacts DEF FetchType, NoFetch
  <2>5. CheckTypes'
    BY <1>2, <2>3, <2>4, Zenon DEF CheckPart, CheckTypes
  <2> QED
    BY <1>2, <2>1, <2>3, <2>4, <2>5 DEF CheckPart, CheckInv, OneFetch
<1> QED
  BY <1>1, <1>2 DEF CheckUpdate

\* Every step keeps the checks' part.
LEMMA CheckStep ==
  ASSUME IInv, [Next]_vars
  PROVE  CheckPart'
<1>1. /\ CheckPart /\ SocketPart /\ gen \in Nat /\ gen \in 0 .. MaxGen
      /\ gen' \in {gen, gen + 1}
  BY Parts, SocketStep, ActiveFacts DEF SocketPart, SocketTypes
<1>2. /\ att \in [Gens -> AttType] /\ advice \in {0, 1}
      /\ \A h \in Gens : att[h].reg # NoReg => h <= gen
  BY <1>1 DEF CheckPart, CheckTypes, CheckInv
<1>3. CASE \E g \in Gens, reg \in Regs : Hello(g, reg)
  <2> PICK g \in Gens, reg \in Regs : Hello(g, reg)
    BY <1>3
  <2> DEFINE new == [reg |-> reg, checkedAt |-> IF att[g].reg = NoReg
                                   THEN -UpdateRefresh ELSE att[g].checkedAt]
             a == [att EXCEPT ![g] = new]
  <2>1. /\ g = Active /\ CheckUpdate(g, a, UpdateRetry)
        /\ UNCHANGED <<advice, gen>>
    BY DEF Hello, Speaks, socketVars
  <2>2. g = gen /\ g \in 1 .. gen
    BY <1>1, <2>1, ActiveFacts, GenFacts
  <2>3. new \in AttType
    BY <1>2, ObjectAssumption DEF AttType
  <2>4. a \in [Gens -> AttType] /\ \A h \in Gens : a[h].reg # NoReg => h <= gen
    BY <1>1, <1>2, <2>2, <2>3
  <2> HIDE DEF a
  <2> QED
    BY <1>1, <2>1, <2>2, <2>4, CheckStarted
<1>4. CASE Keepalive
  <2>1. Active \in 1 .. gen /\ Active \in Gens
    BY <1>1, <1>4, ActiveFacts, GenFacts DEF Keepalive
  <2> QED
    BY <1>1, <1>2, <1>4, <2>1, CheckStarted DEF Keepalive
<1>5. CASE CatalogServes
  <2>1. advice' \in {0, 1} /\ FetchEnds /\ UNCHANGED <<att, gen>>
    BY <1>2, <1>5 DEF CatalogServes, socketVars
  <2> QED
    BY <1>1, <2>1, FetchEnded
<1>6. CASE CatalogEnds
  BY <1>1, <1>2, <1>6, FetchEnded DEF CatalogEnds, socketVars
<1>7. CASE Reset
  <2>1. /\ FetchEnds /\ att' = [g \in Gens |-> NoAtt]
        /\ advice' = advice /\ gen' = gen
    BY <1>7 DEF Reset
  <2>2. fetch' = NoFetch /\ checkingUpdate' = FALSE /\ NoFetch \in FetchType
    BY <2>1, GenFacts DEF FetchEnds, NoFetch, FetchType
  <2>3. NoAtt \in AttType /\ NoAtt.reg = NoReg
    BY ObjectAssumption DEF NoAtt, AttType
  <2>4. att' \in [Gens -> AttType] /\ \A g \in Gens : att'[g].reg = NoReg
    BY <2>1, <2>3
  <2>5. CheckTypes'
    BY <1>2, <2>1, <2>2, <2>4, Zenon DEF CheckTypes
  <2> QED
    BY <2>2, <2>4, <2>5 DEF CheckPart, CheckInv, OneFetch
<1>8. CASE Tick
  <2>1. /\ att' = [g \in Gens |-> IF att[g].reg = NoReg THEN att[g] ELSE
                      [att[g] EXCEPT !.checkedAt = Older(@, UpdateRefresh)]]
        /\ UNCHANGED <<checkingUpdate, fetch, advice, gen>>
    BY <1>8 DEF Tick, socketVars
  <2>2. \A x \in AttType :
           /\ [x EXCEPT !.checkedAt = Older(@, UpdateRefresh)] \in AttType
           /\ [x EXCEPT !.checkedAt = Older(@, UpdateRefresh)].reg = x.reg
    BY ObjectAssumption DEF AttType, Older
  <2>3. att' \in [Gens -> AttType] /\ \A g \in Gens : att'[g].reg = att[g].reg
    BY <1>2, <2>1, <2>2
  <2>4. CheckTypes' /\ OneFetch'
    BY <1>1, <2>1, <2>3, Zenon DEF CheckPart, CheckTypes, CheckInv, OneFetch
  <2> QED
    BY <1>1, <2>1, <2>3, <2>4 DEF CheckPart, CheckInv
<1>9. CASE \/ Upgrade \/ \E g \in Gens : SocketClosed(g)
           \/ \E r \in Reqs, id \in Ids : HandleSend(r, id)
           \/ \E g \in Gens, id \in Ids : Answer(g, id)
           \/ \E r \in Reqs : ResponseTimeout(r)
           \/ KeepaliveFails \/ AlarmIdle \/ UNCHANGED vars
  <2>1. UNCHANGED checkVars
    BY <1>9, Zenon DEF Upgrade, SocketClosed, HandleSend, Answer, ResponseTimeout,
                       KeepaliveFails, AlarmIdle, vars
  <2> QED
    BY <1>1, <1>2, <2>1, SameChecks DEF checkVars
<1> QED
  BY <1>3, <1>4, <1>5, <1>6, <1>7, <1>8, <1>9 DEF Next

-----------------------------------------------------------------------------
(* The theorems *)

LEMMA InitIInv == Init => IInv
<1> SUFFICES ASSUME Init PROVE IInv
  OBVIOUS
<1>1. SocketPart
  <2>1. Active = 0
    BY GenFacts DEF Init, Active, ActiveAmong
  <2>2. OneSocket
    BY GenFacts DEF Init, OneSocket
  <2>3. SocketInv
    BY <2>1, <2>2 DEF Init, SocketInv, AlarmArmed, PresenceDated
  <2>4. SocketTypes
    <3>1. gen \in 0 .. MaxGen
      BY GenFacts DEF Init
    <3>2. sock \in [Gens -> States]
      BY DEF Init, States
    <3> QED
      BY <3>1, <3>2, Zenon DEF Init, SocketTypes
  <2> QED
    BY <2>3, <2>4 DEF SocketPart
<1>2. CallPart
  <2>1. CallTypes
    BY NoCallFacts, FullNat DEF Init, CallTypes, NewBucket, BucketType
  <2>2. WaitersTimed
    BY NoCallFacts, ObjectAssumption DEF Init, WaitersTimed, Waiting
  <2> QED
    BY <2>1, <2>2, NoCallFacts DEF Init, CallPart, CallInv, AnsweredByOwner, Waiting
<1>3. CheckPart
  <2>1. NoAtt \in AttType /\ NoAtt.reg = NoReg /\ NoFetch \in FetchType
    BY ObjectAssumption, GenFacts DEF NoAtt, AttType, NoFetch, FetchType
  <2>2. CheckTypes
    BY <2>1 DEF Init, CheckTypes
  <2> QED
    BY <2>1, <2>2 DEF Init, CheckPart, CheckInv, OneFetch
<1> QED
  BY <1>1, <1>2, <1>3, Parts

\* The invariant of the device object, for every number of sockets, requests,
\* ids and registrations, every limit and interval (device.ts).
THEOREM ObjectConsistent == Spec => []IInv
<1>1. IInv /\ [Next]_vars => IInv'
  <2> SUFFICES ASSUME IInv, [Next]_vars PROVE IInv'
    OBVIOUS
  <2>1. SocketPart' /\ CallPart' /\ CheckPart'
    BY SocketStep, CallStep, CheckStep
  <2> QED
    BY <2>1, Zenon DEF IInv, TypeOK, SocketPart, CallPart, CheckPart
<1> QED
  BY <1>1, InitIInv, PTL DEF Spec

\* Callers never get each other's answer, timeout or slot, and no wait is
\* without a timer (handleSend(), webSocketMessage()).
THEOREM CallersIsolated == Spec => []WaitersTimed
<1>1. IInv => WaitersTimed
  BY DEF IInv, CallInv
<1> QED
  BY <1>1, ObjectConsistent, PTL

\* A superseded device does not answer what was sent to its successor.
THEOREM SupersededSilent == Spec => []AnsweredByOwner
<1>1. IInv => AnsweredByOwner
  BY DEF IInv, CallInv
<1> QED
  BY <1>1, ObjectConsistent, PTL

\* The keepalive of a connected device never stops (alarm(), markPresence()).
THEOREM KeptAlive == Spec => []AlarmArmed
<1>1. IInv => AlarmArmed
  BY DEF IInv, SocketInv
<1> QED
  BY <1>1, ObjectConsistent, PTL

\* `since` dates the transition to the state presence reports (markPresence()).
THEOREM PresenceTrue == Spec => []PresenceDated
<1>1. IInv => PresenceDated
  BY DEF IInv, SocketInv
<1> QED
  BY <1>1, ObjectConsistent, PTL

-----------------------------------------------------------------------------
(* The object implements the abstract service of its callers *)

\* A socket other than the newest comes and goes without the callers' notice,
\* and none comes back.
LEMMA SocketDrops ==
  ASSUME SocketPart, NEW g \in Gens, NEW st \in {"closing", "gone"},
         sock' = [sock EXCEPT ![g] = st], gen' = gen
  PROVE  (Active' # 0) \in {Active # 0, FALSE}
<1>1. sock \in [Gens -> States] /\ gen \in Nat
  BY ActiveFacts DEF SocketPart, SocketTypes
<1>2. \A h \in Gens : sock'[h] = "open" => sock[h] = "open"
  BY <1>1
<1> QED
  BY <1>1, <1>2, GenFacts DEF Active, ActiveAmong

LEMMA DropService ==
  ASSUME (Active' # 0) \in {Active # 0, FALSE}, UNCHANGED <<gen, timer, req>>
  PROVE  [Calls!Next]_(Calls!vars)
<1>1. CASE (Active' # 0) = (Active # 0)
  BY <1>1 DEF Calls!vars
<1>2. CASE (Active' # 0) = FALSE
  BY <1>2 DEF Calls!Next, Calls!Drop
<1> QED BY <1>1, <1>2

LEMMA ConnectService ==
  ASSUME IInv, Upgrade
  PROVE  Calls!Next
<1>1. SocketPart' /\ gen \in Nat
  BY Parts, SocketStep, ActiveFacts DEF Next
<1>2. gen' = gen + 1 /\ UNCHANGED <<timer, req>>
  BY DEF Upgrade, callVars
<1>3. Active' # 0
  <2>1. sock' = [g \in Gens |-> IF g = gen + 1 THEN "open"
                               ELSE IF sock[g] = "open" THEN "closing" ELSE sock[g]]
    BY DEF Upgrade
  <2>2. gen + 1 \in Gens
    BY <1>1, GenFacts DEF Upgrade
  <2> QED
    BY <1>1, <1>2, <2>1, <2>2, GenFacts DEF Active, ActiveAmong
<1> QED
  BY <1>2, <1>3 DEF Calls!Next, Calls!Connect

\* handleSend(): a command that is sent waits alone under its id; one that is not
\* leaves the others alone.
LEMMA SendService ==
  ASSUME IInv, NEW r \in Reqs, NEW id \in Ids, HandleSend(r, id)
  PROVE  Calls!Next
<1>1. SocketPart /\ CallPart
  BY Parts
<1>2. ~Waiting(r) /\ timer[r] = NoId
  BY DEF HandleSend
<1>3. CASE UNCHANGED socketVars /\ req' = [req EXCEPT ![r] = NoCall] /\ timer' = timer
  <2>1. Active' = Active /\ gen' = gen
    BY <1>3 DEF socketVars, Active, ActiveAmong
  <2>2. Calls!TurnAway(r)
    BY <1>2, <1>3, <2>1 DEF Calls!TurnAway, Calls!Failed, NoCall
  <2> QED
    BY <2>2 DEF Calls!Next
<1>4. CASE /\ ~Refused(id) /\ UNCHANGED socketVars
           /\ req' = [req EXCEPT ![r] = SentOn(Active)]
           /\ timer' = [timer EXCEPT ![r] = id]
  <2>1. Active' = Active /\ gen' = gen
    BY <1>4 DEF socketVars, Active, ActiveAmong
  <2>2. Active # 0 /\ Active = gen
    BY <1>1, <1>4, ActiveFacts DEF Refused
  <2>3. \A q \in Reqs : timer[q] # id
    BY <1>1, <1>4, ObjectAssumption DEF Refused, CallPart, CallInv, WaitersTimed
  <2>4. Calls!Take(r, id)
    BY <1>2, <1>4, <2>1, <2>2, <2>3 DEF Calls!Take, SentOn
  <2> QED
    BY <2>4 DEF Calls!Next
<1>5. CASE /\ ~Refused(id) /\ SocketGone(Active)
           /\ req' = [req EXCEPT ![r] = NoCall] /\ timer' = timer
  <2>1. Active \in Gens /\ gen' = gen /\ sock' = [sock EXCEPT ![Active] = "closing"]
    BY <1>1, <1>5, ActiveFacts DEF Refused, SocketGone
  <2>2. (Active' # 0) \in {Active # 0, FALSE}
    BY <1>1, <2>1, SocketDrops
  <2>3. Calls!TurnAway(r)
    BY <1>2, <1>5, <2>1, <2>2 DEF Calls!TurnAway, Calls!Failed, NoCall
  <2> QED
    BY <2>3 DEF Calls!Next
<1> QED
  BY <1>3, <1>4, <1>5, Zenon DEF HandleSend

\* webSocketMessage(): the caller is the one whose timer leads to the id.
LEMMA AnswerService ==
  ASSUME IInv, NEW g \in Gens, NEW id \in Ids, Answer(g, id)
  PROVE  Calls!Next
<1>1. SocketPart /\ CallPart
  BY Parts
<1> DEFINE r == pending[id]
<1>2. r \in Reqs /\ timer[r] = id
  BY <1>1 DEF Answer, CallPart, CallTypes, CallInv, WaitersTimed
<1>3. Active # 0 /\ g = gen
  BY <1>1, ActiveFacts, GenFacts DEF Answer, Speaks
<1>4. Active' = Active /\ gen' = gen
  BY DEF Answer, socketVars, Active, ActiveAmong
<1>5. /\ req' = [req EXCEPT ![r] = AnsweredBy(@, g)]
      /\ timer' = [timer EXCEPT ![r] = NoId]
  BY DEF Answer
<1>6. Calls!Answer(r)
  BY <1>2, <1>3, <1>4, <1>5, ObjectAssumption DEF Calls!Answer, AnsweredBy
<1> HIDE DEF r
<1> QED
  BY <1>2, <1>6 DEF Calls!Next

\* The response timer ends its own caller's wait only.
LEMMA TimeoutService ==
  ASSUME IInv, NEW r \in Reqs, ResponseTimeout(r)
  PROVE  Calls!Next
<1>1. CallPart
  BY Parts
<1>2. timer[r] # NoId /\ timer[r] \in Ids
  BY <1>1 DEF ResponseTimeout, CallPart, CallTypes
<1>3. pending[timer[r]] = r /\ Waiting(r) /\ r # NoReq
  BY <1>1, <1>2, ObjectAssumption DEF CallPart, CallInv, WaitersTimed
<1>4. /\ req' = [req EXCEPT ![r] = NoCall]
      /\ timer' = [timer EXCEPT ![r] = NoId]
  BY <1>3 DEF ResponseTimeout
<1>5. Active' = Active /\ gen' = gen
  BY DEF ResponseTimeout, socketVars, Active, ActiveAmong
<1>6. Calls!GiveUp(r)
  BY <1>2, <1>4, <1>5 DEF Calls!GiveUp, Calls!Failed, NoCall
<1> QED
  BY <1>6 DEF Calls!Next

LEMMA ResetService ==
  ASSUME IInv, Reset
  PROVE  Calls!Next
<1>1. CallPart /\ SocketPart
  BY Parts
<1>2. \A r \in Reqs : Waiting(r) <=> timer[r] # NoId
  BY <1>1 DEF CallPart, CallInv, WaitersTimed
<1>3. Active' = 0 /\ gen' = gen
  BY DEF Reset, Active, ActiveAmong
<1>4. req' = [r \in Reqs |-> IF timer[r] # NoId THEN NoCall ELSE req[r]]
  BY <1>2 DEF Reset
<1>5. Calls!Reset
  BY <1>3, <1>4 DEF Calls!Reset, Calls!Failed, NoCall, Reset
<1> QED
  BY <1>5 DEF Calls!Next

\* Callers are served as the abstract service promises, for any number of
\* requests, ids and connections, wherever sockets linger, timers fire late and
\* the object is reset.
THEOREM Implementation == Spec => ImplementsCalls
<1>1. Init => Calls!Init
  BY GenFacts DEF Init, Calls!Init, Calls!Failed, NoCall, Active, ActiveAmong
<1>2. IInv /\ [Next]_vars => [Calls!Next]_(Calls!vars)
  <2> SUFFICES ASSUME IInv, [Next]_vars PROVE [Calls!Next]_(Calls!vars)
    OBVIOUS
  <2>1. SocketPart
    BY Parts
  <2>2. CASE Upgrade
    BY <2>2, ConnectService
  <2>3. CASE \E g \in Gens : SocketClosed(g)
    <3> PICK g \in Gens : SocketClosed(g)
      BY <2>3
    <3>1. (Active' # 0) \in {Active # 0, FALSE}
      BY <2>1, SocketDrops DEF SocketClosed
    <3> QED
      BY <3>1, DropService DEF SocketClosed, callVars
  <2>4. CASE \E r \in Reqs, id \in Ids : HandleSend(r, id)
    BY <2>4, SendService
  <2>5. CASE \E g \in Gens, id \in Ids : Answer(g, id)
    BY <2>5, AnswerService
  <2>6. CASE \E r \in Reqs : ResponseTimeout(r)
    BY <2>6, TimeoutService
  <2>7. CASE Reset
    BY <2>7, ResetService
  <2>8. CASE KeepaliveFails
    <3>1. Active \in Gens /\ sock' = [sock EXCEPT ![Active] = "closing"] /\ gen' = gen
      BY <2>1, <2>8, ActiveFacts DEF KeepaliveFails, SocketGone
    <3>2. (Active' # 0) \in {Active # 0, FALSE}
      BY <2>1, <3>1, SocketDrops
    <3> QED
      BY <2>8, <3>1, <3>2, DropService DEF KeepaliveFails, callVars
  <2>9. CASE \/ \E g \in Gens, reg \in Regs : Hello(g, reg)
             \/ CatalogServes \/ CatalogEnds \/ Keepalive \/ AlarmIdle \/ Tick
             \/ UNCHANGED vars
    <3>1. UNCHANGED <<gen, sock, timer, req>>
      BY <2>9, Zenon DEF Hello, CatalogServes, CatalogEnds, Keepalive, AlarmIdle, Tick,
                         vars, socketVars, callVars
    <3> QED
      BY <3>1 DEF Calls!vars, Active, ActiveAmong
  <2> QED
    BY <2>2, <2>3, <2>4, <2>5, <2>6, <2>7, <2>8, <2>9 DEF Next
<1> QED
  BY <1>1, <1>2, ObjectConsistent, PTL DEF Spec, ImplementsCalls, Calls!Spec

\* What follows from the abstract service holds of the object by the refinement: a
\* command that waits went out by a connection that was made, no two requests wait
\* under one id (device.ts:372), and an answer comes over the connection its command
\* went out by or a later one.
THEOREM WaitsAlone == Spec => [](Calls!Underway /\ Calls!OneWaiter /\ Calls!InOrder)
<1> DEFINE P == Calls!Underway /\ Calls!OneWaiter /\ Calls!InOrder
<1>1. Calls!Init => P
  BY DEF Calls!Init, Calls!Failed, Calls!Underway, Calls!OneWaiter, Calls!InOrder
<1>2. IInv => /\ gen \in Nat
              /\ timer \in [Reqs -> Ids \cup {NoId}] /\ req \in [Reqs -> CallType]
  BY GenFacts DEF IInv, TypeOK, SocketTypes, CallTypes
<1>3. IInv /\ P /\ [Calls!Next]_(Calls!vars) => P'
  <2> SUFFICES ASSUME IInv, P, [Calls!Next]_(Calls!vars) PROVE P'
    OBVIOUS
  <2>1. CASE Calls!Connect \/ Calls!Drop \/ UNCHANGED Calls!vars
    <3>1. UNCHANGED <<timer, req>>
      BY <2>1 DEF Calls!Connect, Calls!Drop, Calls!vars
    <3>2. \A r \in Reqs : req[r].via \in Nat
      BY <1>2 DEF CallType
    <3>3. \/ gen' = gen /\ (Active' # 0 => Active # 0)
          \/ gen' = gen + 1
      BY <2>1 DEF Calls!Connect, Calls!Drop, Calls!vars
    <3>4. Calls!Underway'
      BY <1>2, <3>1, <3>2, <3>3 DEF Calls!Underway
    <3> QED
      BY <3>1, <3>4 DEF Calls!OneWaiter, Calls!InOrder
  <2>2. CASE Calls!Reset
    BY <1>2, <2>2 DEF Calls!Reset, Calls!Failed, Calls!Underway, Calls!OneWaiter,
                      Calls!InOrder
  <2>3. ASSUME NEW r \in Reqs, Calls!TurnAway(r) \/ Calls!GiveUp(r)
        PROVE  P'
    <3>1. /\ gen' = gen /\ (Active' # 0 => Active # 0)
          /\ req' = [req EXCEPT ![r] = NoCall] /\ NoCall.out = "none"
          /\ timer'[r] = NoId /\ \A q \in Reqs \ {r} : timer'[q] = timer[q]
      BY <1>2, <2>3, NoCallFacts DEF Calls!TurnAway, Calls!GiveUp, Calls!Failed, NoCall
    <3>2. /\ req'[r].out = "none" /\ \A q \in Reqs \ {r} : req'[q] = req[q]
      BY <1>2, <3>1
    <3>3. Calls!Underway' /\ Calls!InOrder'
      BY <3>1, <3>2 DEF Calls!Underway, Calls!InOrder
    <3>4. Calls!OneWaiter'
      BY <3>1 DEF Calls!OneWaiter
    <3> QED
      BY <3>3, <3>4
  <2>4. ASSUME NEW r \in Reqs, Calls!Answer(r)
        PROVE  P'
    BY <1>2, <2>4 DEF Calls!Answer, Calls!Underway, Calls!OneWaiter, Calls!InOrder
  <2>5. ASSUME NEW r \in Reqs, NEW id \in Ids, Calls!Take(r, id)
        PROVE  P'
    BY <1>2, <2>5 DEF Calls!Take, Calls!Underway, Calls!OneWaiter, Calls!InOrder
  <2> HIDE DEF P
  <2> QED
    BY <2>1, <2>2, <2>3, <2>4, <2>5 DEF Calls!Next
<1> HIDE DEF P
<1>4. Spec => []P
  BY <1>1, <1>3, ObjectConsistent, Implementation, PTL DEF ImplementsCalls, Calls!Spec
<1> QED
  BY <1>4, PTL DEF P
=============================================================================
