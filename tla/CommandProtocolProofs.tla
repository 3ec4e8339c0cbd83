----------------------- MODULE CommandProtocolProofs -----------------------
(***************************************************************************)
(* Proofs about CommandProtocol for every number of phones, tabs, key      *)
(* slots and commands, and every bound.                                    *)
(***************************************************************************)
EXTENDS CommandProtocol, TLAPS

USE LockoutAssumption, ProtocolAssumption

-----------------------------------------------------------------------------
(* Typing *)

\* note_auth_failure() keeps the ring a ring, its head inside the array.
LEMMA NoteAuthFailureType ==
  ASSUME NEW r \in RingType, NEW t \in Nat
  PROVE  NoteAuthFailure(r, t) \in RingType
<1>1. (r.head + 1) % FailThreshold \in Slots
  BY DEF RingType, Slots
<1>2. EmptyRing \in RingType
  BY DEF EmptyRing, RingType, Slots
<1>3. t + LockoutSec \in Nat
  OBVIOUS
<1> QED
  BY <1>1, <1>2, <1>3 DEF NoteAuthFailure, RingType, EmptyRing

\* Rejecting a command leaves the answers, the ring and the task well typed.
LEMMA RejectType ==
  ASSUME TypeOK, NEW e \in Envelope, NEW err \in VerifyErrs, NEW mark \in Nat,
         Reject(e, err, mark)
  PROVE  /\ replies' \subseteq Reply
         /\ ring' \in RingType
         /\ task' = IdleTask
<1>1. [id |-> e.id, err |-> err, mark |-> mark] \in Reply
  BY DEF Reply, Envelope
<1>2. replies' \subseteq Reply
  BY <1>1 DEF Reject, Answer, TypeOK
<1>3. ring' \in RingType
  BY NoteAuthFailureType DEF Reject, TypeOK
<1> QED
  BY <1>2, <1>3 DEF Reject, TypeOK

LEMMA InitType == Init => TypeOK
<1>1. NoTab \in TabState
  BY DEF NoTab, TabState, DevIds, Kids
<1>2. EmptyRing \in RingType
  BY DEF EmptyRing, RingType, Slots
<1>3. ASSUME Init
      PROVE  ran \in Seq(RunRecord) /\ strays \in Seq(StrayRecord)
  BY <1>3 DEF Init
<1>4. ASSUME Init
      PROVE  /\ stored \in [Phones -> [Pairings -> Nat]]
             /\ tab \in [Phones -> [Tabs -> TabState]]
  BY <1>1, <1>4 DEF Init
<1>5. ASSUME Init
      PROVE  /\ pairing \in [Phones -> Pairings \cup {NoPairing}]
             /\ slots \in [Kids -> Phones \cup {None}]
             /\ hwm \in [Kids -> Nat] /\ wiped \in [Kids -> Nat]
             /\ devId \in DevIds /\ lastDev \in DevIds /\ nvsId \in DevIds
  BY <1>5 DEF Init, DevIds
<1>6. ASSUME Init
      PROVE  /\ nextId \in Nat /\ restores \in Nat /\ now \in Nat
             /\ resets \in 0 .. MaxResets /\ reset \in {"no", "erased", "forgot"}
             /\ sent \subseteq Envelope /\ net \subseteq sent
             /\ replies \subseteq Reply
             /\ mode \in {"setup", "normal"}
             /\ setupJob \in (Phones \X Kids) \cup {NoJob}
             /\ task = IdleTask
             /\ ring \in RingType
  BY <1>2, <1>6 DEF Init
<1>7. ASSUME Init
      PROVE  sessionOk \in BOOLEAN /\ synced \in BOOLEAN
  BY <1>7, Zenon DEF Init
<1> QED
  BY <1>3, <1>4, <1>5, <1>6, <1>7, Zenon DEF TypeOK

\* Every step of the phone keeps the types.
LEMMA PhoneType ==
  ASSUME TypeOK, PhoneStep
  PROVE  TypeOK'
<1> SUFFICES ASSUME NEW p \in Phones,
                    \/ \E t \in Tabs : \/ NextCounter(p, t) \/ SignAndSend(p, t)
                                       \/ HandleReply(p, t) \/ AbandonRun(p, t)
                    \/ Restore(p)
                    \/ \E k \in Kids : ChangeKid(p, k)
             PROVE  TypeOK'
  BY DEF PhoneStep
<1>1. NoTab \in TabState
  BY DEF NoTab, TabState, DevIds, Kids
<1>2. ASSUME NEW t \in Tabs, NextCounter(p, t) PROVE TypeOK'
  <2>1. pairing[p] \in DevIds \X Kids
    BY <1>2 DEF NextCounter, TypeOK, Pairings
  <2> DEFINE c == stored[p][pairing[p]] + 1
             x == [pc |-> "counted", dev |-> pairing[p][1],
                   kid |-> pairing[p][2], ctr |-> c, id |-> nextId]
  <2>2. c \in Nat
    BY <2>1 DEF TypeOK, Pairings
  <2>3. x \in TabState
    BY <2>1, <2>2 DEF TabState, TypeOK
  <2>4. tab' \in [Phones -> [Tabs -> TabState]]
    BY <1>2, <2>3 DEF NextCounter, TypeOK
  <2>5. stored' \in [Phones -> [Pairings -> Nat]]
    BY <1>2, <2>1, <2>2 DEF NextCounter, TypeOK, Pairings
  <2>6. nextId' \in Nat
    BY <1>2 DEF NextCounter, TypeOK
  <2> QED
    BY <1>2, <2>4, <2>5, <2>6
    DEF NextCounter, TypeOK, netVars, nvsVars, ramVars, worldVars
<1>3. ASSUME NEW t \in Tabs, SignAndSend(p, t) PROVE TypeOK'
  <2> DEFINE x == [tab[p][t] EXCEPT !.pc = "waiting"]
  <2>0. tab[p][t] \in TabState
    BY DEF TypeOK
  <2>x. x \in TabState
    BY <2>0 DEF TabState
  <2>1. tab' \in [Phones -> [Tabs -> TabState]]
    <3>1. tab' = [tab EXCEPT ![p] = [tab[p] EXCEPT ![t] = x]]
      BY <1>3 DEF SignAndSend, TypeOK
    <3> HIDE DEF x
    <3> QED
      BY <3>1, <2>x DEF TypeOK
  <2> DEFINE env(act, skew) ==
               [dev |-> tab[p][t].dev, kid |-> tab[p][t].kid, signer |-> p,
                id |-> tab[p][t].id, ts |-> now + skew,
                ctr |-> tab[p][t].ctr, act |-> act]
  <2>2. PICK act \in Acts, skew \in Skews :
          /\ sent' = sent \cup {env(act, skew)}
          /\ net' = net \cup {env(act, skew)}
    BY <1>3, Zenon DEF SignAndSend
  <2>3. env(act, skew) \in Envelope
    <3>1. now + skew \in Int
      BY DEF TypeOK
    <3> QED
      BY <2>0, <3>1 DEF TabState, Envelope
  <2>4. sent' \subseteq Envelope /\ net' \subseteq sent'
    BY <2>2, <2>3 DEF TypeOK
  <2> QED
    BY <1>3, <2>1, <2>4 DEF SignAndSend, TypeOK, nvsVars, ramVars, worldVars
<1>4. ASSUME NEW t \in Tabs, HandleReply(p, t) PROVE TypeOK'
  <2>1. stored' = stored
    BY <1>4 DEF HandleReply, AcceptFastForward
  <2>2. tab' \in [Phones -> [Tabs -> TabState]]
    BY <1>1, <1>4 DEF HandleReply, TypeOK
  <2>3. replies' \subseteq Reply
    BY <1>4 DEF HandleReply, TypeOK
  <2> QED
    BY <1>4, <2>1, <2>2, <2>3
    DEF HandleReply, TypeOK, nvsVars, ramVars, worldVars
<1>5. ASSUME NEW t \in Tabs, AbandonRun(p, t) PROVE TypeOK'
  <2>1. tab' \in [Phones -> [Tabs -> TabState]]
    BY <1>1, <1>5 DEF AbandonRun, TypeOK
  <2>2. replies' \subseteq Reply
    BY <1>5 DEF AbandonRun, TypeOK
  <2> QED
    BY <1>5, <2>1, <2>2 DEF AbandonRun, TypeOK, nvsVars, ramVars, worldVars
<1>6. ASSUME Restore(p) PROVE TypeOK'
  <2>1. stored' \in [Phones -> [Pairings -> Nat]]
    BY <1>6 DEF Restore, TypeOK
  <2> QED
    BY <1>6, <2>1 DEF Restore, TypeOK, netVars, nvsVars, ramVars, worldVars
<1>7. ASSUME NEW k \in Kids, ChangeKid(p, k) PROVE TypeOK'
  <2>1. pairing' \in [Phones -> Pairings \cup {NoPairing}]
    BY <1>7 DEF ChangeKid, TypeOK, Pairings
  <2> QED
    BY <1>7, <2>1 DEF ChangeKid, TypeOK, netVars, nvsVars, ramVars, worldVars
<1> QED
  BY <1>2, <1>3, <1>4, <1>5, <1>6, <1>7

\* A record the app stores after /pair names an identity and a slot.
LEMMA PairedType ==
  ASSUME TypeOK, NEW p \in Phones, NEW k \in Kids,
         pairing' = pairing \/ Paired(p, k)
  PROVE  pairing' \in [Phones -> Pairings \cup {NoPairing}]
<1>1. devId # NoDev => <<devId, k>> \in Pairings
  BY DEF TypeOK, Pairings
<1>2. pairing \in [Phones -> Pairings \cup {NoPairing}]
  BY DEF TypeOK
<1> QED
  BY <1>1, <1>2 DEF Paired

\* What an erasure, complete or not, leaves of each slot, and what era it is
\* in afterwards.
LEMMA EraseEffect ==
  ASSUME TypeOK, Erase
  PROVE  /\ slots' \in [Kids -> Phones \cup {None}]
         /\ hwm' \in [Kids -> Nat] /\ wiped' \in [Kids -> Nat]
         /\ \A k \in Kids :
              /\ slots'[k] \in {slots[k], None} /\ hwm'[k] \in {hwm[k], 0}
              /\ wiped'[k] \in {wiped[k], wiped[k] + 1}
              /\ nvsId' # NoDev /\ wiped'[k] = wiped[k]
                   => slots'[k] = slots[k] /\ hwm'[k] = hwm[k]
<1>1. PICK keys \in SUBSET Kids, marks \in SUBSET Kids :
        /\ slots' = [k \in Kids |-> IF k \in keys THEN None ELSE slots[k]]
        /\ hwm' = [k \in Kids |-> IF k \in marks THEN 0 ELSE hwm[k]]
  BY Zenon DEF Erase
<1>2. wiped' = [k \in Kids |->
        IF nvsId' # NoDev /\ (slots'[k] # slots[k] \/ hwm'[k] # hwm[k])
        THEN wiped[k] + 1 ELSE wiped[k]]
  BY Zenon DEF Erase
<1>3. \A k \in Kids : hwm[k] \in Nat /\ wiped[k] \in Nat
                      /\ slots[k] \in Phones \cup {None}
  BY DEF TypeOK
<1>4. /\ slots' \in [Kids -> Phones \cup {None}]
      /\ hwm' \in [Kids -> Nat] /\ wiped' \in [Kids -> Nat]
  BY <1>1, <1>2, <1>3
<1> QED
  BY <1>1, <1>2, <1>3, <1>4

\* Every step of the device keeps the types.
LEMMA DeviceType ==
  ASSUME TypeOK, IdentityInv, DeviceStep
  PROVE  TypeOK'
<1>1. ASSUME NEW e \in net, Receive(e) PROVE TypeOK'
  <2>1. e \in Envelope
    BY DEF TypeOK
  <2>2. net' \subseteq sent /\ sent' = sent
    BY <1>1 DEF Receive, TypeOK
  <2>3. AuthVerdict(e) # "pass" => AuthVerdict(e) \in VerifyErrs
    BY DEF AuthVerdict, VerifyErrs, Refusals
  <2>4. CASE AuthVerdict(e) # "pass"
    <3>1. Reject(e, AuthVerdict(e), 0)
      BY <1>1, <2>4 DEF Receive
    <3>2. /\ replies' \subseteq Reply /\ ring' \in RingType
          /\ task' = IdleTask
      BY <2>1, <2>3, <2>4, <3>1, RejectType
    <3> QED
      BY <1>1, <2>2, <3>2
      DEF Receive, TypeOK, phoneVars, nvsVars, worldVars
  <2>5. CASE AuthVerdict(e) = "pass"
    <3>1. /\ task' = [pc |-> "authentic", env |-> e]
          /\ UNCHANGED <<replies, ring>>
      BY <1>1, <2>5 DEF Receive
    <3> QED
      BY <1>1, <2>1, <2>2, <3>1
      DEF Receive, TypeOK, phoneVars, nvsVars, worldVars
  <2> QED
    BY <2>4, <2>5
<1>2. ASSUME CheckAndPersist PROVE TypeOK'
  <2> DEFINE e == task.env
             marked == [hwm EXCEPT ![e.kid] = e.ctr]
  <2>1. e \in Envelope
    BY <1>2 DEF CheckAndPersist, TypeOK, IdleTask
  <2>2. marked \in [Kids -> Nat] /\ hwm \in [Kids -> Nat] /\ hwm[e.kid] \in Nat
    BY <2>1 DEF TypeOK, Envelope
  <2>3. hwm' \in {hwm, marked}
    BY <1>2 DEF CheckAndPersist, PersistFails, Marked
  <2>4. CASE \E err \in VerifyErrs, mark \in Nat : Reject(e, err, mark)
    <3>1. /\ replies' \subseteq Reply /\ ring' \in RingType
          /\ task' = IdleTask
      BY <2>1, <2>4, RejectType
    <3> HIDE DEF e, marked
    <3> QED
      BY <1>2, <2>2, <2>3, <3>1
      DEF CheckAndPersist, TypeOK, phoneVars, worldVars
  <2>5. CASE /\ task' = [pc |-> "accepted", env |-> e]
             /\ UNCHANGED <<replies, ring>>
    <3> HIDE DEF e, marked
    <3> QED
      BY <1>2, <2>1, <2>2, <2>3, <2>5
      DEF CheckAndPersist, TypeOK, phoneVars, worldVars
  <2> QED
    BY <1>2, <2>2, <2>4, <2>5
    DEF CheckAndPersist, PersistFails, VerifyErrs, Refusals
<1>3. ASSUME Dispatch PROVE TypeOK'
  <2>1. task.env \in Envelope
    BY <1>3 DEF Dispatch, TypeOK, IdleTask
  <2> DEFINE x == [env |-> task.env, under |-> devId]
             y == [env |-> task.env, era |-> wiped[task.env.kid]]
  <2>2. ran' \in Seq(RunRecord)
    <3>1. ran' = Append(ran, y) \/ ran' = ran
      BY <1>3, Zenon DEF Dispatch
    <3>2. y \in RunRecord
      BY <2>1 DEF TypeOK, Envelope, RunRecord
    <3>3. ran \in Seq(RunRecord)
      BY DEF TypeOK
    <3> HIDE DEF y
    <3> QED
      BY <3>1, <3>2, <3>3
  <2>3. strays' \in Seq(StrayRecord)
    <3>1. strays' = Append(strays, x) \/ strays' = strays
      BY <1>3, Zenon DEF Dispatch
    <3>2. x \in StrayRecord
      BY <2>1 DEF TypeOK, StrayRecord
    <3>3. strays \in Seq(StrayRecord)
      BY DEF TypeOK
    <3> HIDE DEF x
    <3> QED
      BY <3>1, <3>2, <3>3
  <2>4. replies' \subseteq Reply
    BY <1>3, <2>1 DEF Dispatch, Answer, TypeOK, Reply, Envelope
  <2> QED
    BY <1>3, <2>2, <2>3, <2>4 DEF Dispatch, TypeOK, phoneVars, nvsVars
<1>4. ASSUME LinkLost \/ NewSession \/ ClockSynchronized PROVE TypeOK'
  <2>1. sessionOk' \in BOOLEAN /\ synced' \in BOOLEAN
    BY <1>4, Zenon DEF LinkLost, NewSession, ClockSynchronized, TypeOK
  <2> QED
    BY <1>4, <2>1
    DEF LinkLost, NewSession, ClockSynchronized, TypeOK, phoneVars, netVars,
        nvsVars, worldVars
<1>5. ASSUME NEW p \in Phones, AddKey(p) PROVE TypeOK'
  <2>1. pairing' \in [Phones -> Pairings \cup {NoPairing}]
    <3>1. pairing' = pairing \/ \E k \in Kids : Paired(p, k)
      BY <1>5, Zenon DEF AddKey
    <3>2. CASE pairing' = pairing
      BY <3>2 DEF TypeOK
    <3>3. CASE \E k \in Kids : Paired(p, k)
      BY <3>3, PairedType, Zenon
    <3> QED
      BY <3>1, <3>2, <3>3
  <2>2. /\ slots' \in [Kids -> Phones \cup {None}]
        /\ setupJob' \in (Phones \X Kids) \cup {NoJob}
    <3>1. \/ UNCHANGED <<slots, setupJob>>
          \/ \E k \in Kids : /\ slots' = [slots EXCEPT ![k] = p]
                            /\ setupJob' = <<p, k>>
      BY <1>5, Zenon DEF AddKey, FreeKids
    <3>2. CASE UNCHANGED <<slots, setupJob>>
      BY <3>2 DEF TypeOK
    <3>3. ASSUME NEW k \in Kids,
                 slots' = [slots EXCEPT ![k] = p], setupJob' = <<p, k>>
          PROVE  /\ slots' \in [Kids -> Phones \cup {None}]
                 /\ setupJob' \in (Phones \X Kids) \cup {NoJob}
      <4>1. slots' \in [Kids -> Phones \cup {None}]
        BY <3>3 DEF TypeOK
      <4> QED
        BY <3>3, <4>1
    <3> QED
      BY <3>1, <3>2, <3>3
  <2>3. sessionOk' \in BOOLEAN /\ synced' \in BOOLEAN
    BY <1>5, Zenon DEF AddKey, TypeOK
  <2>4. UNCHANGED <<stored, tab, nextId, restores, sent, net, replies, nvsId,
                    lastDev, hwm, devId, reset, mode, task, ring, now, resets,
                    wiped, ran, strays>>
    BY <1>5, Zenon DEF AddKey, netVars, worldVars
  <2> QED
    BY <2>1, <2>2, <2>3, <2>4 DEF TypeOK
<1>6. ASSUME AddKeyCounter \/ AddKeyFails PROVE TypeOK'
  <2>1. setupJob[1] \in Phones /\ setupJob[2] \in Kids
    BY <1>6 DEF AddKeyCounter, AddKeyFails, TypeOK
  <2>2. pairing' \in [Phones -> Pairings \cup {NoPairing}]
    <3>1. pairing' = pairing \/ Paired(setupJob[1], setupJob[2])
      BY <1>6, Zenon DEF AddKeyCounter, AddKeyFails, phoneVars
    <3> QED
      BY <2>1, <3>1, PairedType
  <2>3. hwm' \in [Kids -> Nat]
    <3>1. hwm' = hwm \/ hwm' = [hwm EXCEPT ![setupJob[2]] = 0]
      BY <1>6, Zenon DEF AddKeyCounter, AddKeyFails, nvsVars
    <3> QED
      BY <2>1, <3>1 DEF TypeOK
  <2>4. sessionOk' \in BOOLEAN /\ synced' \in BOOLEAN
    BY <1>6, Zenon DEF AddKeyCounter, AddKeyFails, TypeOK
  <2>5. UNCHANGED <<stored, tab, nextId, restores, sent, net, replies, nvsId,
                    lastDev, slots, devId, reset, mode, task, ring, now, resets,
                    wiped, ran, strays>>
    BY <1>6, Zenon
    DEF AddKeyCounter, AddKeyFails, phoneVars, netVars, nvsVars, worldVars
  <2>6. setupJob' = NoJob
    BY <1>6, Zenon DEF AddKeyCounter, AddKeyFails
  <2> QED
    BY <2>2, <2>3, <2>4, <2>5, <2>6 DEF TypeOK
<1>7. ASSUME Erase PROVE TypeOK'
  <2>1. /\ slots' \in [Kids -> Phones \cup {None}]
        /\ hwm' \in [Kids -> Nat] /\ wiped' \in [Kids -> Nat]
    BY <1>7, EraseEffect
  <2>2. /\ nvsId' \in DevIds \cup {NoDev} /\ reset' = "erased"
        /\ resets' \in 0 .. MaxResets
    BY <1>7 DEF Erase, TypeOK
  <2>3. sessionOk' \in BOOLEAN /\ synced' \in BOOLEAN
    BY <1>7, Zenon DEF Erase, TypeOK
  <2>4. UNCHANGED <<phoneVars, netVars, lastDev, devId, mode, setupJob, task,
                    ring, now, ran, strays>>
    BY <1>7, Zenon DEF Erase
  <2> QED
    BY <2>1, <2>2, <2>3, <2>4 DEF TypeOK, phoneVars, netVars
<1>8. ASSUME ForgetIdentity PROVE TypeOK'
  <2>1. sessionOk' \in BOOLEAN /\ synced' \in BOOLEAN
    BY <1>8, Zenon DEF ForgetIdentity, TypeOK
  <2> QED
    BY <1>8, <2>1
    DEF ForgetIdentity, TypeOK, phoneVars, netVars, nvsVars, worldVars
<1>9. ASSUME Reboot PROVE TypeOK'
  <2>1. devId' \in DevIds /\ nvsId' \in DevIds /\ lastDev' \in DevIds
    BY <1>9 DEF Reboot, NextIdentity, TypeOK, IdentityInv, DevIds, NoDev
  <2>2. ring' \in RingType
    BY <1>9 DEF Reboot, EmptyRing, RingType, Slots
  <2>3. sessionOk' \in BOOLEAN /\ synced' \in BOOLEAN
    BY <1>9, Zenon DEF Reboot
  <2> QED
    BY <1>9, <2>1, <2>2, <2>3 DEF Reboot, TypeOK, phoneVars, netVars, worldVars
<1> QED
  BY <1>1, <1>2, <1>3, <1>4, <1>5, <1>6, <1>7, <1>8, <1>9 DEF DeviceStep

\* The phone writes nothing of the device's and signs at most one envelope.
LEMMA PhoneFrame ==
  ASSUME PhoneStep
  PROVE  /\ UNCHANGED <<nvsVars, ramVars, worldVars>>
         /\ sent' = sent \/ \E e : sent' = sent \cup {e}
<1>1. ASSUME NEW p \in Phones, NEW t \in Tabs, SignAndSend(p, t)
      PROVE  /\ UNCHANGED <<nvsVars, ramVars, worldVars>>
             /\ \E e : sent' = sent \cup {e}
  BY <1>1, Zenon DEF SignAndSend
<1>2. ASSUME NEW p \in Phones, NEW t \in Tabs,
             NextCounter(p, t) \/ HandleReply(p, t) \/ AbandonRun(p, t)
      PROVE  UNCHANGED <<nvsVars, ramVars, worldVars, sent>>
  BY <1>2, Zenon DEF NextCounter, HandleReply, AbandonRun, netVars
<1>3. ASSUME NEW p \in Phones, Restore(p)
      PROVE  UNCHANGED <<nvsVars, ramVars, worldVars, sent>>
  BY <1>3, Zenon DEF Restore, netVars
<1>4. ASSUME NEW p \in Phones, NEW k \in Kids, ChangeKid(p, k)
      PROVE  UNCHANGED <<nvsVars, ramVars, worldVars, sent>>
  BY <1>4, Zenon DEF ChangeKid, netVars
<1> QED
  BY <1>1, <1>2, <1>3, <1>4 DEF PhoneStep

\* A step that touches nothing the device decides from keeps the invariant.
LEMMA NoDecision ==
  ASSUME IInv, TypeOK', sent \subseteq sent',
         UNCHANGED <<nvsId, lastDev, slots, hwm, devId, reset, mode,
                    setupJob, task, resets, wiped, ran, strays>>
  PROVE  IInv'
<1>1. RunsInOrder' /\ MarkCoversRuns' /\ RunsUnderOwnIdentity'
  BY DEF IInv, RunsInOrder, MarkCoversRuns, Current, RunsUnderOwnIdentity
<1>2. TaskInv' /\ AcceptedInv'
  BY DEF IInv, TaskInv, AcceptedInv
<1>3. SetupInv' /\ IdentityInv' /\ EraInv'
  BY DEF IInv, SetupInv, Current, IdentityInv, EraInv
<1> QED
  BY <1>1, <1>2, <1>3 DEF IInv

\* A rejection ends the command: with the marks where they were, it keeps the
\* invariant.
LEMMA RejectInv ==
  ASSUME IInv, TypeOK', task' = IdleTask, sent' = sent,
         UNCHANGED <<nvsId, lastDev, slots, devId, reset, mode, setupJob,
                     resets, wiped, ran, strays>>,
         MarkCoversRuns'
  PROVE  IInv'
<1>1. RunsInOrder' /\ RunsUnderOwnIdentity'
  BY DEF IInv, RunsInOrder, RunsUnderOwnIdentity
<1>2. TaskInv' /\ AcceptedInv'
  BY DEF IdleTask, TaskInv, AcceptedInv
<1>3. SetupInv' /\ IdentityInv' /\ EraInv'
  BY DEF IInv, SetupInv, Current, IdentityInv, EraInv
<1> QED
  BY <1>1, <1>2, <1>3 DEF IInv

\* What an authenticated envelope has passed.
LEMMA PassMeans ==
  ASSUME NEW e \in Envelope, AuthVerdict(e) = "pass"
  PROVE  e.dev = devId /\ slots[e.kid] = e.signer
BY DEF AuthVerdict, Addressed

\* What the history of runs consists of.
LEMMA RunType ==
  ASSUME TypeOK, NEW i \in DOMAIN ran
  PROVE  /\ ran[i] \in RunRecord /\ ran[i].env \in Envelope
         /\ ran[i].env.kid \in Kids /\ ran[i].env.ctr \in Nat
         /\ ran[i].env.dev \in DevIds /\ ran[i].era \in Nat
<1>1. ran[i] \in RunRecord
  BY DEF TypeOK
<1>2. ran[i].env \in Envelope /\ ran[i].era \in Nat
  BY <1>1 DEF RunRecord
<1> QED
  BY <1>1, <1>2 DEF Envelope

LEMMA ReceiveInv ==
  ASSUME IInv, TypeOK', NEW e \in net, Receive(e)
  PROVE  IInv'
<1>1. e \in Envelope /\ e \in sent
  BY DEF IInv, TypeOK
<1>2. UNCHANGED <<sent, nvsId, lastDev, slots, hwm, devId, reset, mode,
                  setupJob, resets, wiped, ran, strays>>
  BY Zenon DEF Receive, nvsVars, worldVars
<1>3. CASE AuthVerdict(e) # "pass"
  <2>1. task' = IdleTask
    BY <1>3 DEF Receive, Reject
  <2>2. MarkCoversRuns'
    BY <1>2 DEF IInv, MarkCoversRuns, Current
  <2> QED
    BY <1>2, <2>1, <2>2, RejectInv
<1>4. CASE AuthVerdict(e) = "pass"
  <2>1. task' = [pc |-> "authentic", env |-> e] /\ mode = "normal"
    BY <1>4 DEF Receive
  <2>2. e.dev = devId /\ slots[e.kid] = e.signer
    BY <1>1, <1>4, PassMeans
  <2>3. RunsInOrder' /\ MarkCoversRuns' /\ RunsUnderOwnIdentity'
    BY <1>2
    DEF IInv, RunsInOrder, MarkCoversRuns, Current, RunsUnderOwnIdentity
  <2>4. TaskInv' /\ AcceptedInv'
    BY <1>1, <1>2, <2>1, <2>2 DEF TaskInv, AcceptedInv
  <2>5. SetupInv' /\ IdentityInv' /\ EraInv'
    BY <1>2 DEF IInv, SetupInv, Current, IdentityInv, EraInv
  <2> QED
    BY <2>3, <2>4, <2>5 DEF IInv
<1> QED
  BY <1>3, <1>4

\* Raising the mark of the slot a command came from keeps it above the runs.
LEMMA CheckAndPersistInv ==
  ASSUME IInv, TypeOK', CheckAndPersist
  PROVE  IInv'
<1> DEFINE e == task.env
           marked == [hwm EXCEPT ![e.kid] = e.ctr]
<1>1. task.pc = "authentic" /\ e \in Envelope
  BY DEF CheckAndPersist, IInv, TypeOK, IdleTask
<1>2. UNCHANGED <<sent, nvsId, lastDev, slots, devId, reset, mode, setupJob,
                  resets, wiped, ran, strays>>
  BY Zenon DEF CheckAndPersist, worldVars
<1>3. /\ hwm \in [Kids -> Nat] /\ ran \in Seq(RunRecord) /\ e.kid \in Kids
      /\ e.ctr \in Nat
  BY <1>1 DEF IInv, TypeOK, Envelope
<1>4. hwm' = hwm \/ (hwm' = marked /\ e.ctr > hwm[e.kid])
  BY DEF CheckAndPersist, PersistFails, Fresh, Marked
<1>5. ASSUME NEW k \in Kids PROVE hwm'[k] \in Nat /\ hwm[k] <= hwm'[k]
  BY <1>3, <1>4
<1>6. MarkCoversRuns'
  <2> SUFFICES ASSUME NEW i \in DOMAIN ran, Current(ran[i])
               PROVE  /\ slots[ran[i].env.kid] = ran[i].env.signer
                      /\ ran[i].env.ctr <= hwm'[ran[i].env.kid]
    BY <1>2 DEF MarkCoversRuns, Current
  <2>2. ran[i].env.kid \in Kids /\ ran[i].env.ctr \in Nat
    BY <1>3, RunType DEF IInv
  <2>3. /\ slots[ran[i].env.kid] = ran[i].env.signer
        /\ ran[i].env.ctr <= hwm[ran[i].env.kid]
    BY DEF IInv, MarkCoversRuns
  <2>4. hwm[ran[i].env.kid] \in Nat
    BY <1>3, <2>2
  <2> QED
    BY <1>5, <2>2, <2>3, <2>4
<1>7. CASE task' = IdleTask
  BY <1>2, <1>6, <1>7, RejectInv
<1>8. CASE /\ task' = [pc |-> "accepted", env |-> e]
           /\ hwm' = marked /\ e.ctr > hwm[e.kid]
  <2>1. RunsInOrder' /\ RunsUnderOwnIdentity'
    BY <1>2 DEF IInv, RunsInOrder, RunsUnderOwnIdentity
  <2>2. TaskInv'
    BY <1>1, <1>2, <1>8 DEF IInv, TaskInv
  <2>3. AcceptedInv'
    <3> SUFFICES ASSUME reset = "no"
                 PROVE  /\ e.ctr <= hwm'[e.kid]
                        /\ \A i \in DOMAIN ran :
                             Chan(ran[i].env) = Chan(e) /\ ran[i].era = wiped[e.kid]
                               => ran[i].env.ctr < e.ctr
      BY <1>2, <1>8 DEF AcceptedInv
    <3>1. hwm'[e.kid] = e.ctr
      BY <1>3, <1>8
    <3>2. ASSUME NEW i \in DOMAIN ran, Chan(ran[i].env) = Chan(e),
                 ran[i].era = wiped[e.kid]
          PROVE  ran[i].env.ctr < e.ctr
      <4>1. e.dev = nvsId
        BY <1>1 DEF IInv, TaskInv, IdentityInv
      <4>2. Current(ran[i]) /\ ran[i].env.kid = e.kid
        BY <3>2, <4>1 DEF Chan, Current
      <4>3. ran[i].env.ctr <= hwm[e.kid]
        BY <4>2 DEF IInv, MarkCoversRuns
      <4>4. ran[i].env.ctr \in Nat /\ hwm[e.kid] \in Nat
        BY <1>3, RunType DEF IInv
      <4> QED
        BY <1>3, <1>8, <4>3, <4>4
    <3> QED
      BY <1>3, <3>1, <3>2
  <2>4. SetupInv' /\ IdentityInv' /\ EraInv'
    BY <1>2 DEF IInv, SetupInv, Current, IdentityInv, EraInv
  <2> QED
    BY <1>6, <2>1, <2>2, <2>3, <2>4 DEF IInv
<1>9. \/ task' = IdleTask
      \/ /\ task' = [pc |-> "accepted", env |-> e]
         /\ hwm' = marked /\ e.ctr > hwm[e.kid]
  BY Zenon DEF CheckAndPersist, PersistFails, Reject, Fresh, Marked
<1> QED
  BY <1>7, <1>8, <1>9

\* Running the accepted command keeps the order: the mark it was accepted
\* against covered every earlier run of its channel.
LEMMA DispatchInv ==
  ASSUME IInv, TypeOK', Dispatch
  PROVE  IInv'
<1> DEFINE e == task.env
<1>1. task.pc = "accepted" /\ e \in Envelope /\ task' = IdleTask
  BY DEF Dispatch, IInv, TypeOK, IdleTask
<1>2. UNCHANGED <<sent, nvsId, lastDev, slots, hwm, devId, reset, mode,
                  setupJob, resets, wiped>>
  BY Zenon DEF Dispatch, nvsVars
<1>3. mode = "normal" /\ devId \in {e.dev, NoDev}
  BY <1>1 DEF IInv, TaskInv
<1>4. ran \in Seq(RunRecord) /\ setupJob = NoJob
  <2>1. ran \in Seq(RunRecord)
    BY Zenon DEF IInv, TypeOK
  <2>2. setupJob = NoJob
    BY <1>3 DEF IInv, SetupInv
  <2> QED
    BY <2>1, <2>2
<1>5. TaskInv' /\ AcceptedInv'
  BY <1>1 DEF IdleTask, TaskInv, AcceptedInv
<1>6. SetupInv'
  BY <1>2, <1>4 DEF SetupInv
<1> DEFINE y == [env |-> e, era |-> wiped[e.kid]]
<1>y. y \in RunRecord /\ y.env = e /\ y.era = wiped[e.kid] /\ wiped[e.kid] \in Nat
  BY <1>1 DEF IInv, TypeOK, Envelope, RunRecord
<1> HIDE DEF y
<1>7. CASE reset = "no" /\ e.dev = devId /\ ran' = Append(ran, y) /\ strays' = strays
  <2> DEFINE n == Len(ran) + 1
  <2>1. /\ DOMAIN ran' = DOMAIN ran \cup {n} /\ ran'[n] = y
        /\ \A i \in DOMAIN ran : ran'[i] = ran[i] /\ i < n
        /\ n \in Nat /\ DOMAIN ran = 1 .. Len(ran)
    BY <1>4, <1>7, <1>y
  <2> HIDE DEF n
  <2>2. RunsInOrder'
    <3> SUFFICES ASSUME NEW i \in DOMAIN ran', NEW j \in DOMAIN ran',
                        i < j, SameRun(ran'[i], ran'[j])
                 PROVE  ran'[i].env.ctr < ran'[j].env.ctr
      BY DEF RunsInOrder, SameRun, Chan
    <3>1. CASE j = n
      <4>1. i \in DOMAIN ran /\ ran'[i] = ran[i] /\ ran'[j] = y
        BY <2>1, <3>1
      <4>2. Chan(ran[i].env) = Chan(e) /\ ran[i].era = wiped[e.kid]
        BY <1>y, <4>1 DEF SameRun
      <4> QED
        BY <1>1, <1>7, <1>y, <4>1, <4>2 DEF IInv, AcceptedInv
    <3>2. CASE j # n
      BY <2>1, <3>2 DEF IInv, RunsInOrder
    <3> QED
      BY <3>1, <3>2
  <2>3. MarkCoversRuns'
    <3>1. slots[e.kid] = e.signer /\ e.ctr <= hwm[e.kid]
      BY <1>1, <1>7 DEF IInv, TaskInv, AcceptedInv
    <3> QED
      BY <1>2, <1>y, <2>1, <3>1 DEF IInv, MarkCoversRuns, Current
  <2>4. RunsUnderOwnIdentity'
    BY <1>7 DEF IInv, RunsUnderOwnIdentity
  <2>5. IdentityInv'
    <3>1. e.dev <= lastDev
      BY <1>7 DEF IInv, IdentityInv
    <3> QED
      BY <1>2, <1>y, <2>1, <3>1 DEF IInv, IdentityInv
  <2>6. EraInv'
    <3>1. y.era <= wiped[y.env.kid]
      BY <1>y
    <3> QED
      BY <1>2, <2>1, <3>1 DEF IInv, EraInv
  <2> QED
    BY <1>5, <1>6, <2>2, <2>3, <2>4, <2>5, <2>6 DEF IInv
<1>8. CASE /\ ran' = ran
           /\ strays' = Append(strays, [env |-> e, under |-> devId])
  <2>2. RunsInOrder' /\ MarkCoversRuns'
    BY <1>2, <1>8 DEF IInv, RunsInOrder, MarkCoversRuns, Current
  <2>3. RunsUnderOwnIdentity'
    <3> DEFINE x == [env |-> e, under |-> devId]
    <3>1. x.under \in {x.env.dev, NoDev}
      BY <1>3
    <3>2. strays \in Seq(StrayRecord)
      BY DEF IInv, TypeOK
    <3>3. \A i \in DOMAIN strays : strays[i].under \in {strays[i].env.dev, NoDev}
      BY DEF IInv, RunsUnderOwnIdentity
    <3> HIDE DEF x
    <3>4. \A i \in DOMAIN strays' : strays'[i] = x \/ \E j \in DOMAIN strays :
                                                        strays'[i] = strays[j]
      BY <1>8, <3>2 DEF x
    <3> QED
      BY <3>1, <3>3, <3>4 DEF RunsUnderOwnIdentity
  <2>4. IdentityInv' /\ EraInv'
    BY <1>2, <1>8 DEF IInv, IdentityInv, EraInv
  <2> QED
    BY <1>5, <1>6, <2>2, <2>3, <2>4 DEF IInv
<1>9. CASE ran' = ran /\ strays' = strays
  <2>1. MarkCoversRuns'
    BY <1>2, <1>9 DEF IInv, MarkCoversRuns, Current
  <2> QED
    BY <1>1, <1>2, <1>9, <2>1, RejectInv
<1> QED
  BY <1>7, <1>8, <1>9, Zenon DEF Dispatch, y

\* Enrolment writes a slot no command of this identity has run from, and
\* while the relay task has no command in hand.
LEMMA EnrolInv ==
  ASSUME IInv, TypeOK',
         (\E p \in Phones : AddKey(p)) \/ AddKeyCounter \/ AddKeyFails
  PROVE  IInv'
<1>1. UNCHANGED <<sent, nvsId, lastDev, devId, reset, mode, task, resets,
                  wiped, ran, strays>>
  BY Zenon
  DEF AddKey, AddKeyCounter, AddKeyFails, netVars, nvsVars, worldVars
<1>2. mode = "setup"
  BY DEF AddKey, AddKeyCounter, AddKeyFails, IInv, SetupInv
<1>3. task.pc = "idle"
  BY <1>2 DEF IInv, TaskInv
<1>4. TaskInv' /\ AcceptedInv'
  BY <1>1, <1>3 DEF TaskInv, AcceptedInv
<1>5. RunsInOrder' /\ RunsUnderOwnIdentity' /\ IdentityInv' /\ EraInv'
  BY <1>1
  DEF IInv, RunsInOrder, RunsUnderOwnIdentity, IdentityInv, EraInv
<1>6. ASSUME NEW i \in DOMAIN ran, Current(ran[i])
      PROVE  /\ ran[i].env.kid \in Kids /\ ran[i].env.ctr \in Nat
             /\ slots[ran[i].env.kid] = ran[i].env.signer
             /\ slots[ran[i].env.kid] # None
             /\ ran[i].env.ctr <= hwm[ran[i].env.kid]
  <2>1. ran[i].env \in Envelope
    BY RunType DEF IInv
  <2> QED
    BY <1>6, <2>1 DEF IInv, MarkCoversRuns, Envelope
<1>7. ASSUME NEW p \in Phones, AddKey(p) PROVE IInv'
  <2>1. hwm' = hwm
    BY <1>7, Zenon DEF AddKey
  <2>2. CASE slots' = slots /\ setupJob' = NoJob
    BY <1>1, <1>4, <1>5, <2>1, <2>2
    DEF IInv, MarkCoversRuns, Current, SetupInv
  <2>3. CASE \E k \in FreeKids : /\ slots' = [slots EXCEPT ![k] = p]
                                 /\ setupJob' = <<p, k>>
    <3>1. PICK k \in FreeKids : /\ slots' = [slots EXCEPT ![k] = p]
                                /\ setupJob' = <<p, k>>
      BY <2>3
    <3>2. /\ k \in Kids /\ slots[k] = None
          /\ slots \in [Kids -> Phones \cup {None}]
      BY <3>1 DEF FreeKids, IInv, TypeOK
    <3>3. \A i \in DOMAIN ran : Current(ran[i]) => ran[i].env.kid # k
      BY <1>6, <3>2
    <3>4. MarkCoversRuns'
      BY <1>1, <1>6, <2>1, <3>1, <3>2, <3>3 DEF MarkCoversRuns, Current
    <3>5. SetupInv'
      BY <1>1, <1>2, <3>1, <3>3 DEF SetupInv, Current
    <3> QED
      BY <1>4, <1>5, <3>4, <3>5 DEF IInv
  <2> QED
    BY <1>7, <2>2, <2>3, Zenon DEF AddKey
<1>8. ASSUME AddKeyCounter PROVE IInv'
  <2>1. /\ slots' = slots /\ setupJob' = NoJob
        /\ hwm' = [hwm EXCEPT ![setupJob[2]] = 0]
        /\ hwm \in [Kids -> Nat]
    BY <1>8 DEF AddKeyCounter, IInv, TypeOK
  <2>2. \A i \in DOMAIN ran : Current(ran[i]) => ran[i].env.kid # setupJob[2]
    BY <1>8 DEF AddKeyCounter, IInv, SetupInv
  <2>3. MarkCoversRuns'
    BY <1>1, <1>6, <2>1, <2>2 DEF MarkCoversRuns, Current
  <2> QED
    BY <1>4, <1>5, <2>1, <2>3 DEF IInv, SetupInv
<1>9. ASSUME AddKeyFails PROVE IInv'
  <2>1. slots' = slots /\ hwm' = hwm /\ setupJob' = NoJob
    BY <1>9, Zenon DEF AddKeyFails, nvsVars
  <2>2. MarkCoversRuns' /\ SetupInv'
    BY <1>1, <2>1 DEF IInv, MarkCoversRuns, Current, SetupInv
  <2> QED
    BY <1>4, <1>5, <2>2 DEF IInv
<1> QED
  BY <1>7, <1>8, <1>9

\* A command that ran was addressed to an identity generated by then.
LEMMA RunDev ==
  ASSUME IInv, NEW i \in DOMAIN ran
  PROVE  ran[i].env.dev \in DevIds /\ ran[i].env.dev <= lastDev
BY RunType DEF IInv, IdentityInv

\* An erasure takes marks and keys only of slots whose era ends with it, or
\* together with the identity: nothing that is still current was touched.
LEMMA EraseInv ==
  ASSUME IInv, TypeOK', Erase
  PROVE  IInv'
<1>1. /\ reset' = "erased" /\ nvsId' \in {nvsId, NoDev} /\ resets' = resets + 1
      /\ UNCHANGED <<sent, lastDev, devId, mode, setupJob, task, ran, strays>>
  BY DEF Erase, netVars
<1>2. \A k \in Kids :
        /\ wiped[k] \in Nat /\ wiped'[k] \in {wiped[k], wiped[k] + 1}
        /\ nvsId' # NoDev /\ wiped'[k] = wiped[k]
             => slots'[k] = slots[k] /\ hwm'[k] = hwm[k]
  BY EraseEffect DEF IInv, TypeOK
<1>3. ASSUME NEW i \in DOMAIN ran
      PROVE  /\ ran[i].env.kid \in Kids /\ ran[i].env.dev # NoDev
             /\ ran[i].era \in Nat /\ ran[i].era <= wiped[ran[i].env.kid]
  BY RunType DEF IInv, EraInv, DevIds, NoDev
<1>4. ASSUME NEW i \in DOMAIN ran,
             ran[i].env.dev = nvsId', ran[i].era = wiped'[ran[i].env.kid]
      PROVE  /\ Current(ran[i])
             /\ slots'[ran[i].env.kid] = slots[ran[i].env.kid]
             /\ hwm'[ran[i].env.kid] = hwm[ran[i].env.kid]
  BY <1>1, <1>2, <1>3, <1>4 DEF Current
<1>5. RunsInOrder' /\ RunsUnderOwnIdentity'
  BY <1>1 DEF IInv, RunsInOrder, RunsUnderOwnIdentity
<1>6. MarkCoversRuns'
  BY <1>1, <1>4 DEF IInv, MarkCoversRuns, Current
<1>7. TaskInv' /\ AcceptedInv'
  BY <1>1 DEF IInv, TaskInv, AcceptedInv
<1>8. SetupInv'
  BY <1>1, <1>4 DEF IInv, SetupInv, Current
<1>9. IdentityInv'
  BY <1>1 DEF IInv, TypeOK, IdentityInv, DevIds, NoDev
<1>10. EraInv'
  BY <1>1, <1>2, <1>3 DEF EraInv
<1> QED
  BY <1>5, <1>6, <1>7, <1>8, <1>9, <1>10 DEF IInv

\* Clearing the identity in RAM leaves the command in hand without one.
LEMMA ForgetInv ==
  ASSUME IInv, TypeOK', ForgetIdentity
  PROVE  IInv'
<1>1. /\ devId' = NoDev /\ reset' = "forgot"
      /\ UNCHANGED <<sent, nvsId, lastDev, slots, hwm, mode, setupJob, task,
                     resets, wiped, ran, strays>>
  BY DEF ForgetIdentity, netVars, nvsVars, worldVars
<1>2. RunsInOrder' /\ MarkCoversRuns' /\ RunsUnderOwnIdentity'
  BY <1>1 DEF IInv, RunsInOrder, MarkCoversRuns, Current, RunsUnderOwnIdentity
<1>3. TaskInv' /\ AcceptedInv'
  BY <1>1 DEF IInv, TaskInv, AcceptedInv
<1>4. SetupInv' /\ IdentityInv' /\ EraInv'
  BY <1>1 DEF IInv, SetupInv, Current, IdentityInv, EraInv
<1> QED
  BY <1>2, <1>3, <1>4 DEF IInv

\* A restart forgets the command in hand; a new identity is above all runs.
LEMMA RebootInv ==
  ASSUME IInv, TypeOK', Reboot
  PROVE  IInv'
<1>1. /\ task' = IdleTask /\ setupJob' = NoJob
      /\ UNCHANGED <<sent, slots, hwm, resets, wiped, ran, strays>>
  BY DEF Reboot, netVars, worldVars
<1>2. TaskInv' /\ AcceptedInv' /\ SetupInv'
  BY <1>1 DEF IdleTask, TaskInv, AcceptedInv, SetupInv
<1>3. RunsInOrder' /\ RunsUnderOwnIdentity' /\ EraInv'
  BY <1>1 DEF IInv, RunsInOrder, RunsUnderOwnIdentity, EraInv
<1>4. \A i \in DOMAIN ran : ran[i].env.dev \in DevIds /\ ran[i].env.dev <= lastDev
  BY RunDev
<1>5. \/ nvsId' = nvsId /\ lastDev' = lastDev /\ nvsId # NoDev
      \/ nvsId' = lastDev + 1 /\ lastDev' = lastDev + 1 /\ nvsId = NoDev
  BY DEF Reboot, NextIdentity
<1>6. lastDev \in Nat /\ nvsId \in Nat /\ resets \in Nat /\ devId' = nvsId'
  BY DEF IInv, TypeOK, DevIds, NoDev, Reboot
<1>7. MarkCoversRuns'
  BY <1>1, <1>4, <1>5, <1>6 DEF IInv, MarkCoversRuns, Current, DevIds
<1>8. IdentityInv'
  BY <1>1, <1>4, <1>5, <1>6 DEF IInv, IdentityInv, DevIds, NoDev
<1> QED
  BY <1>2, <1>3, <1>7, <1>8 DEF IInv

-----------------------------------------------------------------------------
(* The invariant and what follows from it *)

LEMMA InitInv == Init => IInv
<1> SUFFICES ASSUME Init PROVE IInv
  OBVIOUS
<1>1. TypeOK
  BY InitType
<1>2. ran = <<>> /\ strays = <<>> /\ task.pc = "idle" /\ setupJob = NoJob
  BY DEF Init, IdleTask
<1>3. RunsInOrder /\ MarkCoversRuns /\ RunsUnderOwnIdentity
  BY <1>2 DEF RunsInOrder, MarkCoversRuns, RunsUnderOwnIdentity
<1>4. TaskInv /\ AcceptedInv /\ SetupInv
  BY <1>2 DEF TaskInv, AcceptedInv, SetupInv
<1>5. nvsId = 1 /\ lastDev = 1 /\ devId = 1 /\ resets = 0
  BY DEF Init
<1>6. IdentityInv /\ EraInv
  BY <1>2, <1>5 DEF IdentityInv, EraInv, NoDev
<1> QED
  BY <1>1, <1>3, <1>4, <1>6 DEF IInv

LEMMA StepInv == IInv /\ [Next]_vars => IInv'
<1> SUFFICES ASSUME IInv, [Next]_vars PROVE IInv'
  OBVIOUS
<1> USE DEF IInv
<1>1. CASE PhoneStep
  <2>1. TypeOK'
    BY <1>1, PhoneType
  <2>2. /\ UNCHANGED <<nvsVars, ramVars, worldVars>>
        /\ sent' = sent \/ \E e : sent' = sent \cup {e}
    BY <1>1, PhoneFrame
  <2>3. UNCHANGED <<nvsId, lastDev, slots, hwm, devId, reset, mode,
                    setupJob, task, resets, wiped, ran, strays>>
    BY <2>2, Zenon DEF nvsVars, ramVars, worldVars
  <2>4. sent \subseteq sent'
    BY <2>2
  <2> HIDE DEF IInv
  <2> QED
    BY <2>1, <2>3, <2>4, NoDecision
<1>2. CASE DeviceStep
  <2>1. TypeOK'
    BY <1>2, DeviceType
  <2> HIDE DEF IInv
  <2>2. CASE LinkLost \/ NewSession \/ ClockSynchronized
    <3>1. UNCHANGED <<sent, nvsId, lastDev, slots, hwm, devId, reset, mode,
                    setupJob, task, resets, wiped, ran, strays>>
      BY <2>2, Zenon
      DEF LinkLost, NewSession, ClockSynchronized, netVars, nvsVars, worldVars
    <3> QED
      BY <2>1, <3>1, NoDecision
  <2>3. CASE \E e \in net : Receive(e)
    BY <2>1, <2>3, ReceiveInv
  <2>4. CASE CheckAndPersist
    BY <2>1, <2>4, CheckAndPersistInv
  <2>5. CASE Dispatch
    BY <2>1, <2>5, DispatchInv
  <2>6. CASE (\E p \in Phones : AddKey(p)) \/ AddKeyCounter \/ AddKeyFails
    BY <2>1, <2>6, EnrolInv
  <2>7. CASE Erase
    BY <2>1, <2>7, EraseInv
  <2>8. CASE ForgetIdentity
    BY <2>1, <2>8, ForgetInv
  <2>9. CASE Reboot
    BY <2>1, <2>9, RebootInv
  <2> QED
    BY <1>2, <2>2, <2>3, <2>4, <2>5, <2>6, <2>7, <2>8, <2>9 DEF DeviceStep
<1>3. CASE Tick
  <2>1. sessionOk' \in BOOLEAN /\ synced' \in BOOLEAN
    BY <1>3, Zenon DEF Tick, TypeOK, ramVars
  <2>2. TypeOK'
    BY <1>3, <2>1
    DEF Tick, TypeOK, phoneVars, netVars, nvsVars, ramVars
  <2>3. UNCHANGED <<sent, nvsId, lastDev, slots, hwm, devId, reset, mode,
                    setupJob, task, resets, wiped, ran, strays>>
    BY <1>3, Zenon DEF Tick, netVars, nvsVars, ramVars
  <2> HIDE DEF IInv
  <2> QED
    BY <2>2, <2>3, NoDecision
<1>4. CASE UNCHANGED vars
  <2>1. sessionOk' \in BOOLEAN /\ synced' \in BOOLEAN
    BY <1>4, Zenon DEF vars, TypeOK, ramVars
  <2>2. TypeOK'
    BY <1>4, <2>1
    DEF vars, TypeOK, phoneVars, netVars, nvsVars, ramVars, worldVars
  <2>3. UNCHANGED <<sent, nvsId, lastDev, slots, hwm, devId, reset, mode,
                    setupJob, task, resets, wiped, ran, strays>>
    BY <1>4, Zenon DEF vars, netVars, nvsVars, ramVars, worldVars
  <2> HIDE DEF IInv
  <2> QED
    BY <2>2, <2>3, NoDecision
<1> QED
  BY <1>1, <1>2, <1>3, <1>4, Zenon DEF Next

\* What the device ran, holds and remembers always agree.
THEOREM Consistency == Spec => []IInv
<1>1. Init => IInv
  BY InitInv
<1>2. IInv /\ [Next]_vars => IInv'
  BY StepInv
<1> QED
  BY <1>1, <1>2, PTL DEF Spec

\* Every variable keeps its type.
THEOREM TypeCorrect == Spec => []TypeOK
<1>1. IInv => TypeOK
  BY DEF IInv
<1> QED
  BY <1>1, Consistency, PTL

\* No command runs twice or after a later one of its channel, whatever the
\* relay delivers and whenever power is lost; after a factory reset that was
\* not completed this begins anew for the slots it took something of.
THEOREM NoReplay == Spec => []RunsInOrder
<1>1. IInv => RunsInOrder
  BY DEF IInv
<1> QED
  BY <1>1, Consistency, PTL

\* A mark in flash is never behind a command already run from its slot, unless
\* a factory reset took the mark or the key and left the identity.
THEOREM MarksDurable == Spec => []MarkCoversRuns
<1>1. IInv => MarkCoversRuns
  BY DEF IInv
<1> QED
  BY <1>1, Consistency, PTL

\* A command caught by a factory reset runs under the identity it was signed
\* for or, before the restart, under none; never under a later identity.
THEOREM OwnIdentity == Spec => []RunsUnderOwnIdentity
<1>1. IInv => RunsUnderOwnIdentity
  BY DEF IInv
<1> QED
  BY <1>1, Consistency, PTL

-----------------------------------------------------------------------------
(* The protocol implements the command service *)

\* A dispatched command of the device's identity is a Run of the service: it
\* was issued, and every earlier run of its channel has a smaller counter.
LEMMA DispatchRuns ==
  ASSUME IInv, Dispatch, ran' # ran
  PROVE  Service!Run
<1> DEFINE e == task.env
           y == [env |-> e, era |-> wiped[e.kid]]
<1>1. task.pc = "accepted" /\ reset = "no" /\ ran' = Append(ran, y)
  BY Zenon DEF Dispatch
<1>2. e \in sent
  BY <1>1 DEF IInv, TaskInv
<1>3. \A i \in DOMAIN ran :
        Service!Chan(ran[i].env) = Service!Chan(e) /\ ran[i].era = wiped[e.kid]
          => ran[i].env.ctr < e.ctr
  BY <1>1 DEF IInv, AcceptedInv, Chan, Service!Chan
<1>4. sent' = sent /\ resets' = resets /\ wiped' = wiped
  BY Zenon DEF Dispatch
<1> QED
  BY <1>1, <1>2, <1>3, <1>4 DEF Service!Run

\* An erasure is a FactoryReset of the service: it begins an era of the slots
\* it took a mark or a key of and not the identity, and of no others.
LEMMA EraseResets ==
  ASSUME TypeOK, Erase
  PROVE  Service!FactoryReset
<1> DEFINE torn == {k \in Kids : nvsId' # NoDev /\ (slots'[k] # slots[k]
                                                     \/ hwm'[k] # hwm[k])}
<1>1. wiped' = [k \in Kids |-> IF k \in torn THEN wiped[k] + 1 ELSE wiped[k]]
  BY DEF Erase
<1>2. torn \in SUBSET Kids
  OBVIOUS
<1>3. resets' = resets + 1 /\ sent' = sent /\ ran' = ran
  BY Zenon DEF Erase, netVars
<1> HIDE DEF torn
<1> QED
  BY <1>1, <1>2, <1>3 DEF Service!FactoryReset

\* Signing is Issue, unless the very same envelope was signed before.
LEMMA SignIssues ==
  ASSUME NEW p \in Phones, NEW t \in Tabs, SignAndSend(p, t)
  PROVE  Service!Issue \/ UNCHANGED Service!vars
<1>1. \E e : sent' = sent \cup {e}
  BY Zenon DEF SignAndSend
<1>2. ran' = ran /\ resets' = resets /\ wiped' = wiped
  BY Zenon DEF SignAndSend, worldVars
<1> QED
  BY <1>1, <1>2 DEF Service!Issue, Service!vars

\* Every step of the protocol is a step of the service or leaves it alone.
LEMMA StepRefines == IInv /\ [Next]_vars => [Service!Next]_(Service!vars)
<1> SUFFICES ASSUME IInv, [Next]_vars PROVE [Service!Next]_(Service!vars)
  OBVIOUS
<1>1. CASE \E p \in Phones, t \in Tabs : SignAndSend(p, t)
  BY <1>1, SignIssues, Zenon DEF Service!Next
<1>2. CASE Dispatch
  <2>1. sent' = sent /\ resets' = resets /\ wiped' = wiped
    BY <1>2, Zenon DEF Dispatch
  <2> QED
    BY <1>2, <2>1, DispatchRuns DEF Service!Next, Service!vars
<1>3. CASE Erase
  BY <1>3, EraseResets DEF IInv, Service!Next
<1>4. CASE /\ ~Dispatch /\ ~Erase
           /\ ~\E p \in Phones, t \in Tabs : SignAndSend(p, t)
  <2>1. sent' = sent /\ ran' = ran /\ resets' = resets /\ wiped' = wiped
    BY <1>4, Zenon
    DEF Next, PhoneStep, DeviceStep, Tick, NextCounter, HandleReply,
        AbandonRun, Restore, ChangeKid, Receive, CheckAndPersist, LinkLost,
        NewSession, ClockSynchronized, AddKey, AddKeyCounter, AddKeyFails,
        ForgetIdentity, Reboot, vars, netVars, worldVars
  <2> QED
    BY <2>1 DEF Service!vars
<1> QED
  BY <1>1, <1>2, <1>3, <1>4

\* The command path, with every interleaving, loss, redelivery and restart
\* modelled, is an implementation of the command service.
THEOREM Implementation == Spec => ImplementsService
<1>1. Init => Service!Init
  BY DEF Init, Service!Init
<1>2. IInv /\ [Next]_vars => [Service!Next]_(Service!vars)
  BY StepRefines
<1> QED
  BY <1>1, <1>2, Consistency, PTL DEF Spec, ImplementsService, Service!Spec

-----------------------------------------------------------------------------
(* A key keeps to one slot *)

LEMMA OneSlotStep ==
  ASSUME TypeOK, OneSlotPerKey, [Next]_vars
  PROVE  OneSlotPerKey'
<1>1. ASSUME NEW p \in Phones, AddKey(p) PROVE OneSlotPerKey'
  <2>1. CASE slots' = slots
    BY <2>1 DEF OneSlotPerKey
  <2>2. CASE /\ \A j \in Kids : slots[j] # p
             /\ \E k \in FreeKids : slots' = [slots EXCEPT ![k] = p]
    <3>1. slots \in [Kids -> Phones \cup {None}]
      BY DEF TypeOK
    <3> QED
      BY <2>2, <3>1 DEF OneSlotPerKey, FreeKids
  <2> QED
    BY <1>1, <2>1, <2>2, Zenon DEF AddKey, Unregistered, Unregistered
<1>2. CASE Erase
  BY <1>2, EraseEffect DEF OneSlotPerKey
<1>3. CASE ~Erase /\ ~\E p \in Phones : AddKey(p)
  <2>1. slots' = slots
    <3>1. CASE PhoneStep
      BY <3>1, PhoneFrame, Zenon DEF nvsVars
    <3>2. CASE DeviceStep
      BY <1>3, <3>2, Zenon
      DEF DeviceStep, Receive, CheckAndPersist, Dispatch, LinkLost, NewSession,
          ClockSynchronized, AddKeyCounter, AddKeyFails, ForgetIdentity,
          Reboot, nvsVars
    <3>3. CASE Tick \/ UNCHANGED vars
      BY <3>3, Zenon DEF Tick, vars, nvsVars
    <3> QED
      BY <3>1, <3>2, <3>3 DEF Next
  <2> QED
    BY <2>1 DEF OneSlotPerKey
<1> QED
  BY <1>1, <1>2, <1>3

\* A signature is good for one slot, so for one high-water mark.
THEOREM KeyHasOneSlot == Spec => []OneSlotPerKey
<1>1. Init => OneSlotPerKey
  BY DEF Init, OneSlotPerKey
<1>2. TypeOK /\ OneSlotPerKey /\ [Next]_vars => OneSlotPerKey'
  BY OneSlotStep
<1> QED
  BY <1>1, <1>2, TypeCorrect, PTL DEF Spec

-----------------------------------------------------------------------------
(* A phone never reuses a counter *)

LEMMA CounterStep ==
  ASSUME TypeOK, TypeOK', CounterInv, NoCounterReuse, [Next]_vars
  PROVE  CounterInv' /\ NoCounterReuse'
<1> DEFINE ck(x) == <<x.dev, x.kid>>
<1>0. \A e \in sent : e.signer \in Phones /\ ck(e) \in Pairings /\ e.ctr \in Nat
  BY DEF TypeOK, Envelope, Pairings
<1>t. \A p \in Phones, t \in Tabs :
        tab[p][t] \in TabState /\ ck(tab[p][t]) \in Pairings /\ tab[p][t].ctr \in Nat
  <2> SUFFICES ASSUME NEW p \in Phones, NEW t \in Tabs
               PROVE  /\ tab[p][t] \in TabState /\ ck(tab[p][t]) \in Pairings
                      /\ tab[p][t].ctr \in Nat
    OBVIOUS
  <2>1. tab[p][t] \in TabState
    BY DEF TypeOK
  <2> QED
    BY <2>1 DEF TabState, Pairings
<1>1. CASE UNCHANGED <<stored, tab, restores, sent>>
  BY <1>1 DEF CounterInv, NoCounterReuse, SameCounter
<1>2. ASSUME NEW p \in Phones, NEW t \in Tabs, NextCounter(p, t)
      PROVE  CounterInv' /\ NoCounterReuse'
  <2> DEFINE b == pairing[p]
             c == stored[p][b] + 1
             x == [pc |-> "counted", dev |-> b[1], kid |-> b[2],
                   ctr |-> c, id |-> nextId]
  <2>1. /\ stored' = [stored EXCEPT ![p][b] = c]
        /\ tab' = [tab EXCEPT ![p][t] = x]
        /\ sent' = sent /\ restores' = restores
    BY <1>2, Zenon DEF NextCounter, netVars
  <2>2. b \in Pairings /\ b = <<b[1], b[2]>> /\ stored[p][b] \in Nat
    BY <1>2 DEF NextCounter, TypeOK, Pairings
  <2>c. c \in Nat /\ c > stored[p][b]
    BY <2>2
  <2>d. x.pc = "counted" /\ ck(x) = b /\ x.ctr = c
    BY <2>2
  <2> HIDE DEF x, c, b
  <2>s. \A q \in Phones, a \in Pairings :
          stored'[q][a] = IF q = p /\ a = b THEN c ELSE stored[q][a]
    BY <2>1, <2>2 DEF TypeOK
  <2>m. \A q \in Phones, a \in Pairings : stored[q][a] \in Nat
    BY DEF TypeOK
  <2>3. \A q \in Phones, a \in Pairings :
          /\ stored[q][a] \in Nat /\ stored'[q][a] \in Nat
          /\ stored[q][a] <= stored'[q][a]
    BY <2>c, <2>m, <2>s
  <2>4. /\ tab'[p][t] = x
        /\ \A q \in Phones, u \in Tabs :
             q # p \/ u # t => tab'[q][u] = tab[q][u]
    BY <2>1 DEF TypeOK
  <2> SUFFICES ASSUME restores = 0 PROVE CounterInv' /\ NoCounterReuse'
    BY <2>1 DEF CounterInv, NoCounterReuse
  <2>5. NoCounterReuse'
    BY <2>1 DEF NoCounterReuse
  <2>6. ASSUME NEW e \in sent PROVE e.ctr <= stored'[e.signer][ck(e)]
    <3>1. e.ctr <= stored[e.signer][ck(e)]
      BY DEF CounterInv
    <3> QED
      BY <1>0, <2>3, <3>1
  <2>7. ASSUME NEW e \in sent, e.signer = p PROVE ~SameCounter(x, e)
    <3>1. e.ctr <= stored[p][ck(e)]
      BY <2>7 DEF CounterInv
    <3>2. ck(e) = b => e.ctr < c
      BY <1>0, <2>2, <2>c, <3>1
    <3> QED
      BY <1>0, <2>c, <2>d, <3>2 DEF SameCounter
  <2>8. ASSUME NEW u \in Tabs, tab[p][u].pc = "counted"
        PROVE  ~SameCounter(x, tab[p][u]) /\ ~SameCounter(tab[p][u], x)
    <3>1. tab[p][u].ctr <= stored[p][ck(tab[p][u])]
      BY <2>8 DEF CounterInv
    <3>2. ck(tab[p][u]) = b => tab[p][u].ctr < c
      BY <1>t, <2>2, <2>c, <3>1
    <3> QED
      BY <1>t, <2>c, <2>d, <3>2 DEF SameCounter
  <2>9. \A q \in Phones, u \in Tabs : tab'[q][u].pc = "counted" =>
          tab'[q][u].ctr <= stored'[q][ck(tab'[q][u])]
    <3> SUFFICES ASSUME NEW q \in Phones, NEW u \in Tabs,
                        tab'[q][u].pc = "counted"
                 PROVE  tab'[q][u].ctr <= stored'[q][ck(tab'[q][u])]
      OBVIOUS
    <3>1. CASE q = p /\ u = t
      BY <2>2, <2>c, <2>d, <2>s, <2>4, <3>1
    <3>2. CASE q # p \/ u # t
      <4>1. /\ tab'[q][u] = tab[q][u]
            /\ tab[q][u].ctr <= stored[q][ck(tab[q][u])]
        BY <2>4, <3>2 DEF CounterInv
      <4> QED
        BY <1>t, <2>3, <4>1
    <3> QED
      BY <3>1, <3>2
  <2>10. ASSUME NEW q \in Phones, NEW u \in Tabs, tab'[q][u].pc = "counted"
         PROVE  /\ \A e \in sent : ~(e.signer = q /\ SameCounter(tab'[q][u], e))
                /\ \A v \in Tabs : tab'[q][v].pc = "counted" /\ v # u =>
                                     ~SameCounter(tab'[q][u], tab'[q][v])
    <3>1. CASE q = p /\ u = t
      BY <2>4, <2>7, <2>8, <3>1
    <3>2. CASE q # p \/ u # t
      <4>1. tab'[q][u] = tab[q][u]
        BY <2>4, <3>2
      <4>2. \A e \in sent : ~(e.signer = q /\ SameCounter(tab'[q][u], e))
        BY <2>10, <4>1 DEF CounterInv
      <4>3. ASSUME NEW v \in Tabs, tab'[q][v].pc = "counted", v # u
            PROVE  ~SameCounter(tab'[q][u], tab'[q][v])
        <5>1. CASE q = p /\ v = t
          BY <2>4, <2>8, <2>10, <4>1, <5>1
        <5>2. CASE q # p \/ v # t
          BY <2>4, <2>10, <4>1, <4>3, <5>2 DEF CounterInv
        <5> QED
          BY <5>1, <5>2
      <4> QED
        BY <4>2, <4>3
    <3> QED
      BY <3>1, <3>2
  <2>11. CounterInv'
    BY <2>1, <2>6, <2>9, <2>10 DEF CounterInv, SameCounter
  <2> QED
    BY <2>5, <2>11
<1>3. ASSUME NEW p \in Phones, NEW t \in Tabs, SignAndSend(p, t)
      PROVE  CounterInv' /\ NoCounterReuse'
  <2>0. tab[p][t].pc = "counted" /\ stored' = stored /\ restores' = restores
    BY <1>3 DEF SignAndSend
  <2>1. PICK e : /\ sent' = sent \cup {e} /\ e.signer = p
                 /\ SameCounter(e, tab[p][t])
    <3> DEFINE env(act, skew) ==
                 [dev |-> tab[p][t].dev, kid |-> tab[p][t].kid, signer |-> p,
                  id |-> tab[p][t].id, ts |-> now + skew,
                  ctr |-> tab[p][t].ctr, act |-> act]
    <3>1. PICK act \in Acts, skew \in Skews : sent' = sent \cup {env(act, skew)}
      BY <1>3, Zenon DEF SignAndSend
    <3>2. /\ env(act, skew).signer = p
          /\ SameCounter(env(act, skew), tab[p][t])
      BY DEF SameCounter
    <3> HIDE DEF env
    <3> QED
      BY <3>1, <3>2
  <2>2. /\ tab'[p][t].pc = "waiting"
        /\ \A q \in Phones, u \in Tabs :
             q # p \/ u # t => tab'[q][u] = tab[q][u]
    BY <1>3, <1>t DEF SignAndSend, TypeOK, TabState
  <2> SUFFICES ASSUME restores = 0 PROVE CounterInv' /\ NoCounterReuse'
    BY <2>0 DEF CounterInv, NoCounterReuse
  <2>3. NoCounterReuse'
    <3>1. \A d \in sent : ~(Chan(d) = Chan(e) /\ d.ctr = e.ctr)
      BY <2>0, <2>1 DEF CounterInv, Chan, SameCounter
    <3> QED
      BY <2>1, <3>1 DEF NoCounterReuse
  <2>4. \A d \in sent' : d.ctr <= stored'[d.signer][ck(d)]
    BY <2>0, <2>1 DEF CounterInv, SameCounter
  <2>5. ASSUME NEW q \in Phones, NEW u \in Tabs, tab'[q][u].pc = "counted"
        PROVE  /\ tab'[q][u].ctr <= stored'[q][ck(tab'[q][u])]
               /\ \A d \in sent' : ~(d.signer = q /\ SameCounter(tab'[q][u], d))
               /\ \A v \in Tabs : tab'[q][v].pc = "counted" /\ v # u =>
                                    ~SameCounter(tab'[q][u], tab'[q][v])
    <3>1. tab'[q][u] = tab[q][u] /\ (q # p \/ u # t)
      BY <2>2, <2>5
    <3>2. ~(e.signer = q /\ SameCounter(tab[q][u], e))
      <4>1. q = p => ~SameCounter(tab[p][t], tab[p][u])
        BY <2>0, <2>5, <3>1 DEF CounterInv
      <4> QED
        BY <2>1, <4>1 DEF SameCounter
    <3>3. \A v \in Tabs : tab'[q][v].pc = "counted" => tab'[q][v] = tab[q][v]
      BY <2>2
    <3> QED
      BY <2>0, <2>1, <2>5, <3>1, <3>2, <3>3 DEF CounterInv
  <2>6. CounterInv'
    BY <2>4, <2>5 DEF CounterInv, SameCounter
  <2> QED
    BY <2>3, <2>6
<1>4. ASSUME NEW p \in Phones, NEW t \in Tabs,
             HandleReply(p, t) \/ AbandonRun(p, t)
      PROVE  CounterInv' /\ NoCounterReuse'
  <2>1. stored' = stored /\ sent' = sent /\ restores' = restores
    BY <1>4 DEF HandleReply, AbandonRun, AcceptFastForward
  <2>2. tab' = [tab EXCEPT ![p][t] = NoTab]
    BY <1>4, Zenon DEF HandleReply, AbandonRun
  <2>3. \A q \in Phones, u \in Tabs :
          tab'[q][u].pc = "counted" => tab'[q][u] = tab[q][u]
    BY <2>2 DEF TypeOK, NoTab
  <2>4. NoCounterReuse'
    BY <2>1 DEF NoCounterReuse
  <2>5. CounterInv'
    BY <2>1, <2>3 DEF CounterInv, SameCounter
  <2> QED
    BY <2>4, <2>5
<1>5. ASSUME NEW p \in Phones, Restore(p) PROVE CounterInv' /\ NoCounterReuse'
  BY <1>5 DEF Restore, TypeOK, CounterInv, NoCounterReuse
<1>6. CASE /\ ~\E p \in Phones, t \in Tabs :
                \/ NextCounter(p, t) \/ SignAndSend(p, t)
                \/ HandleReply(p, t) \/ AbandonRun(p, t)
           /\ ~\E p \in Phones : Restore(p)
  <2>1. UNCHANGED <<stored, tab, restores, sent>>
    BY <1>6, Zenon
    DEF Next, PhoneStep, DeviceStep, Tick, ChangeKid, Receive, CheckAndPersist,
        Dispatch, LinkLost, NewSession, ClockSynchronized, AddKey,
        AddKeyCounter, AddKeyFails, Erase, ForgetIdentity, Reboot, vars, phoneVars,
        netVars
  <2> QED
    BY <1>1, <2>1
<1> QED
  BY <1>2, <1>3, <1>4, <1>5, <1>6

\* Unless its storage was restored, a phone never signs two commands with one
\* counter of one device record, whichever of its tabs sign them.
THEOREM CountersUnique == Spec => []NoCounterReuse
<1>1. Init => CounterInv /\ NoCounterReuse
  BY DEF Init, CounterInv, NoCounterReuse, NoTab
<1>2. TypeOK /\ TypeOK' /\ CounterInv /\ NoCounterReuse /\ [Next]_vars
        => CounterInv' /\ NoCounterReuse'
  BY CounterStep
<1> QED
  BY <1>1, <1>2, TypeCorrect, PTL DEF Spec

-----------------------------------------------------------------------------
(* Nothing runs during a lockout *)

LEMMA UnlockedStep ==
  ASSUME TypeOK, UnlockedInv, [Next]_vars
  PROVE  UnlockedInv'
<1>1. ASSUME NEW e \in net, Receive(e) PROVE UnlockedInv'
  <2>1. now' = now
    BY <1>1, Zenon DEF Receive, worldVars
  <2>2. CASE AuthVerdict(e) = "pass"
    <3>1. ~LockedOut(ring, now) /\ ring' = ring
      BY <1>1, <2>2 DEF Receive, AuthVerdict
    <3> QED
      BY <2>1, <3>1 DEF UnlockedInv, LockedOut
  <2>3. CASE AuthVerdict(e) # "pass"
    BY <1>1, <2>3 DEF Receive, Reject, IdleTask, UnlockedInv
  <2> QED
    BY <2>2, <2>3
<1>2. CASE CheckAndPersist
  <2>1. now' = now /\ task.pc # "idle"
    BY <1>2 DEF CheckAndPersist, worldVars
  <2>2. task' = IdleTask \/ ring' = ring
    BY <1>2, Zenon DEF CheckAndPersist, PersistFails, Reject
  <2> QED
    BY <2>1, <2>2 DEF UnlockedInv, LockedOut, IdleTask
<1>3. CASE Dispatch \/ Reboot
  BY <1>3 DEF Dispatch, Reboot, IdleTask, UnlockedInv
<1>4. CASE Tick
  <2>1. task' = task /\ ring' = ring /\ now' = now + 1
    BY <1>4, Zenon DEF Tick, ramVars
  <2>2. ring.until \in Int /\ now \in Int
    BY DEF TypeOK, RingType
  <2> QED
    BY <2>1, <2>2 DEF UnlockedInv, LockedOut
<1>5. CASE /\ ~CheckAndPersist /\ ~Dispatch /\ ~Reboot /\ ~Tick
           /\ ~\E e \in net : Receive(e)
  <2>1. task' = task /\ ring' = ring /\ now' = now
    <3>1. CASE PhoneStep
      BY <3>1, PhoneFrame, Zenon DEF ramVars, worldVars
    <3>2. CASE DeviceStep
      BY <1>5, <3>2, Zenon
      DEF DeviceStep, LinkLost, NewSession, ClockSynchronized, AddKey,
          AddKeyCounter, AddKeyFails, Erase, ForgetIdentity, ramVars, worldVars
    <3>3. CASE UNCHANGED vars
      BY <3>3, Zenon DEF vars, ramVars, worldVars
    <3> QED
      BY <1>5, <3>1, <3>2, <3>3 DEF Next
  <2> QED
    BY <2>1 DEF UnlockedInv, LockedOut
<1> QED
  BY <1>1, <1>2, <1>3, <1>4, <1>5

LEMMA LockedStep ==
  ASSUME TypeOK, UnlockedInv, [Next]_vars, LockedOut(ring, now)
  PROVE  /\ UNCHANGED <<ran, strays>>
         /\ \A k \in Kids : hwm'[k] <= hwm[k]
<1>1. task.pc = "idle" /\ ~CheckAndPersist /\ ~Dispatch
  BY DEF UnlockedInv, CheckAndPersist, Dispatch
<1>2. \A k \in Kids : hwm[k] \in Nat
  BY DEF TypeOK
<1>3. CASE PhoneStep
  <2>1. UNCHANGED <<ran, strays, hwm>>
    BY <1>3, PhoneFrame, Zenon DEF nvsVars, worldVars
  <2> QED
    BY <1>2, <2>1
<1>4. CASE DeviceStep
  <2>1. UNCHANGED <<ran, strays>>
    BY <1>1, <1>4, Zenon
    DEF DeviceStep, Receive, LinkLost, NewSession, ClockSynchronized, AddKey,
        AddKeyCounter, AddKeyFails, Erase, ForgetIdentity, Reboot, worldVars
  <2>2. CASE AddKeyCounter
    <3>1. hwm' = [hwm EXCEPT ![setupJob[2]] = 0] /\ hwm \in [Kids -> Nat]
      BY <2>2 DEF AddKeyCounter, TypeOK
    <3> QED
      BY <1>2, <2>1, <3>1
  <2>3. CASE Erase
    BY <1>2, <2>1, <2>3, EraseEffect
  <2>4. CASE ~AddKeyCounter /\ ~Erase
    <3>1. hwm' = hwm
      BY <1>1, <1>4, <2>4, Zenon
      DEF DeviceStep, Receive, LinkLost, NewSession, ClockSynchronized,
          AddKey, AddKeyFails, ForgetIdentity, Reboot, nvsVars
    <3> QED
      BY <1>2, <2>1, <3>1
  <2> QED
    BY <2>2, <2>3, <2>4
<1>5. CASE Tick \/ UNCHANGED vars
  <2>1. UNCHANGED <<ran, strays, hwm>>
    BY <1>5, Zenon DEF Tick, vars, nvsVars, worldVars
  <2> QED
    BY <1>2, <2>1
<1> QED
  BY <1>3, <1>4, <1>5 DEF Next

\* During a lockout no command runs and no mark rises: the lockout cannot
\* overtake a command that passed verification before it began.
THEOREM LockoutSound == Spec => LockoutHolds
<1>1. Init => UnlockedInv
  BY DEF Init, UnlockedInv, IdleTask
<1>2. TypeOK /\ UnlockedInv /\ [Next]_vars => UnlockedInv'
  BY UnlockedStep
<1>3. TypeOK /\ UnlockedInv /\ [Next]_vars =>
        [LockedOut(ring, now) =>
           /\ UNCHANGED <<ran, strays>>
           /\ \A k \in Kids : hwm'[k] <= hwm[k]]_vars
  BY LockedStep
<1> QED
  BY <1>1, <1>2, <1>3, TypeCorrect, PTL DEF Spec, LockoutHolds

-----------------------------------------------------------------------------
(* What the phone is told is true *)

\* An id names one run and one envelope: phones never share or reuse one.
LEMMA IdStep ==
  ASSUME TypeOK, IdInv, [Next]_vars
  PROVE  IdInv'
<1>0. nextId \in Nat /\ \A e \in sent : e.id \in Nat
  BY DEF TypeOK, Envelope
<1>1. CASE UNCHANGED <<tab, nextId, sent>>
  BY <1>1 DEF IdInv
<1>2. ASSUME NEW p \in Phones, NEW t \in Tabs, NextCounter(p, t)
      PROVE  IdInv'
  <2>1. PICK x : /\ x.id = nextId
                 /\ tab' = [tab EXCEPT ![p][t] = x]
                 /\ nextId' = nextId + 1 /\ sent' = sent
    <3> DEFINE x == [pc |-> "counted", dev |-> pairing[p][1],
                     kid |-> pairing[p][2],
                     ctr |-> stored[p][pairing[p]] + 1, id |-> nextId]
    <3>1. x.id = nextId
      OBVIOUS
    <3>2. /\ tab' = [tab EXCEPT ![p][t] = x]
          /\ nextId' = nextId + 1 /\ sent' = sent
      BY <1>2, Zenon DEF NextCounter, netVars
    <3> HIDE DEF x
    <3> QED
      BY <3>1, <3>2
  <2>2. /\ tab'[p][t] = x
        /\ \A q \in Phones, u \in Tabs :
             q # p \/ u # t => tab'[q][u] = tab[q][u]
    BY <2>1 DEF TypeOK
  <2>3. \A e \in sent' : e.id < nextId'
    BY <1>0, <2>1 DEF IdInv
  <2>4. \A d, e \in sent' : d.id = e.id => d = e
    BY <2>1 DEF IdInv
  <2>5. ASSUME NEW q \in Phones, NEW u \in Tabs, tab'[q][u].pc = "counted"
        PROVE  /\ tab'[q][u].id < nextId'
               /\ \A e \in sent' : e.id # tab'[q][u].id
               /\ tab'[q][u].id = nextId => q = p /\ u = t
    <3>1. CASE q = p /\ u = t
      BY <1>0, <2>1, <2>2, <3>1 DEF IdInv
    <3>2. CASE q # p \/ u # t
      <4>1. tab'[q][u] = tab[q][u] /\ tab[q][u].id \in Nat
        BY <2>2, <3>2 DEF TypeOK, TabState
      <4>2. tab[q][u].id < nextId /\ \A e \in sent : e.id # tab[q][u].id
        BY <2>5, <4>1 DEF IdInv
      <4> QED
        BY <1>0, <2>1, <4>1, <4>2
    <3> QED
      BY <3>1, <3>2
  <2>6. ASSUME NEW q \in Phones, NEW u \in Tabs, tab'[q][u].pc = "counted",
               NEW r \in Phones, NEW v \in Tabs, tab'[r][v].pc = "counted",
               tab'[r][v].id = tab'[q][u].id
        PROVE  r = q /\ v = u
    <3>1. CASE tab'[q][u].id = nextId
      BY <2>5, <2>6, <3>1
    <3>2. CASE tab'[q][u].id # nextId
      <4>1. tab'[q][u] = tab[q][u] /\ tab'[r][v] = tab[r][v]
        BY <2>1, <2>2, <2>6, <3>2
      <4> QED
        BY <2>6, <4>1 DEF IdInv
    <3> QED
      BY <3>1, <3>2
  <2> QED
    BY <2>3, <2>4, <2>5, <2>6 DEF IdInv
<1>3. ASSUME NEW p \in Phones, NEW t \in Tabs, SignAndSend(p, t)
      PROVE  IdInv'
  <2>1. PICK e : /\ sent' = sent \cup {e} /\ e.id = tab[p][t].id
    <3> DEFINE env(act, skew) ==
                 [dev |-> tab[p][t].dev, kid |-> tab[p][t].kid, signer |-> p,
                  id |-> tab[p][t].id, ts |-> now + skew,
                  ctr |-> tab[p][t].ctr, act |-> act]
    <3>1. PICK act \in Acts, skew \in Skews : sent' = sent \cup {env(act, skew)}
      BY <1>3, Zenon DEF SignAndSend
    <3>2. env(act, skew).id = tab[p][t].id
      OBVIOUS
    <3> HIDE DEF env
    <3> QED
      BY <3>1, <3>2
  <2>2. tab[p][t].pc = "counted" /\ nextId' = nextId
    BY <1>3 DEF SignAndSend
  <2>3. /\ tab'[p][t].pc = "waiting"
        /\ \A q \in Phones, u \in Tabs :
             q # p \/ u # t => tab'[q][u] = tab[q][u]
    BY <1>3 DEF SignAndSend, TypeOK, TabState
  <2>4. e.id < nextId /\ \A d \in sent : d.id # e.id
    BY <2>1, <2>2 DEF IdInv
  <2>5. /\ \A d \in sent' : d.id < nextId'
        /\ \A d, f \in sent' : d.id = f.id => d = f
    BY <2>1, <2>2, <2>4 DEF IdInv
  <2>6. ASSUME NEW q \in Phones, NEW u \in Tabs, tab'[q][u].pc = "counted"
        PROVE  /\ tab'[q][u] = tab[q][u]
               /\ tab[q][u].id # e.id
    BY <2>1, <2>2, <2>3, <2>6 DEF IdInv
  <2>7. ASSUME NEW q \in Phones, NEW u \in Tabs, tab'[q][u].pc = "counted"
        PROVE  /\ tab'[q][u].id < nextId'
               /\ \A d \in sent' : d.id # tab'[q][u].id
               /\ \A r \in Phones, v \in Tabs :
                    tab'[r][v].pc = "counted" /\ tab'[r][v].id = tab'[q][u].id
                      => r = q /\ v = u
    BY <2>1, <2>2, <2>6, <2>7 DEF IdInv
  <2> QED
    BY <2>5, <2>7 DEF IdInv
<1>4. ASSUME NEW p \in Phones, NEW t \in Tabs,
             HandleReply(p, t) \/ AbandonRun(p, t)
      PROVE  IdInv'
  <2>1. /\ tab' = [tab EXCEPT ![p][t] = NoTab]
        /\ sent' = sent /\ nextId' = nextId
    BY <1>4, Zenon DEF HandleReply, AbandonRun
  <2>2. \A q \in Phones, u \in Tabs :
          tab'[q][u].pc = "counted" => tab'[q][u] = tab[q][u]
    BY <2>1 DEF TypeOK, NoTab
  <2> QED
    BY <2>1, <2>2 DEF IdInv
<1>5. CASE ~\E p \in Phones, t \in Tabs :
               \/ NextCounter(p, t) \/ SignAndSend(p, t)
               \/ HandleReply(p, t) \/ AbandonRun(p, t)
  <2>1. UNCHANGED <<tab, nextId, sent>>
    BY <1>5, Zenon
    DEF Next, PhoneStep, DeviceStep, Tick, Restore, ChangeKid, Receive,
        CheckAndPersist, Dispatch, LinkLost, NewSession, ClockSynchronized,
        AddKey, AddKeyCounter, AddKeyFails, Erase, ForgetIdentity, Reboot, vars,
        phoneVars, netVars
  <2> QED
    BY <1>1, <2>1
<1> QED
  BY <1>2, <1>3, <1>4, <1>5

\* A step that runs nothing and puts nothing on the wire keeps OnceInv, if the
\* errors it answers are of commands that can no longer run.
LEMMA OnceKept ==
  ASSUME OnceInv, sent' = sent, net' \subseteq net,
         task' \in {task, IdleTask}, UNCHANGED <<ran, strays>>,
         ~Redeliver =>
           \A r \in replies' \ replies : r.err \in Refusals =>
             r.id \in SentIds \ (Executed \cup Live')
  PROVE  OnceInv'
<1> SUFFICES ASSUME ~Redeliver PROVE OnceInv'
  BY DEF OnceInv
<1>1. Executed' = Executed /\ SentIds' = SentIds
  BY DEF Executed, SentIds
<1>2. Live' \subseteq Live
  BY DEF Live, IdleTask
<1>3. task'.pc # "idle" => \A e \in net' : e.id # task'.env.id
  BY DEF OnceInv, IdleTask
<1>4. \A r \in replies' : r.err \in Refusals =>
        r.id \in SentIds \ (Executed \cup Live')
  BY <1>2 DEF OnceInv
<1>5. Executed \subseteq SentIds /\ Executed \cap Live' = {}
  BY <1>2 DEF OnceInv
<1> QED
  BY <1>1, <1>3, <1>4, <1>5 DEF OnceInv

\* Rejecting an envelope adds at most one answer, with its id.
LEMMA RejectAnswers ==
  ASSUME NEW e, NEW err, NEW mark, Reject(e, err, mark)
  PROVE  task' = IdleTask /\ \A r \in replies' \ replies : r.id = e.id
BY DEF Reject, Answer

LEMMA OnceReceive ==
  ASSUME TypeOK, IdInv, OnceInv, NEW e \in net, Receive(e)
  PROVE  OnceInv'
<1> SUFFICES ASSUME ~Redeliver PROVE OnceInv'
  BY DEF OnceInv
<1>1. /\ e \in sent /\ net \subseteq sent /\ net' = net \ {e} /\ task.pc = "idle"
      /\ sent' = sent /\ UNCHANGED <<ran, strays>>
  BY DEF Receive, TypeOK, worldVars
<1>2. \A f \in net' : f.id # e.id
  BY <1>1 DEF IdInv
<1>3. e.id \in SentIds /\ e.id \notin Executed
  BY <1>1 DEF OnceInv, Live, SentIds
<1>4. CASE AuthVerdict(e) = "pass"
  <2>1. task' = [pc |-> "authentic", env |-> e] /\ replies' = replies
    BY <1>4 DEF Receive
  <2>2. Live' \subseteq Live
    BY <1>1, <2>1 DEF Live
  <2>3. Executed' = Executed /\ SentIds' = SentIds
    BY <1>1 DEF Executed, SentIds
  <2> QED
    BY <1>2, <2>1, <2>2, <2>3 DEF OnceInv
<1>5. CASE AuthVerdict(e) # "pass"
  <2>1. Reject(e, AuthVerdict(e), 0)
    BY <1>5 DEF Receive
  <2>2. task' = IdleTask /\ \A r \in replies' \ replies : r.id = e.id
    BY <2>1, RejectAnswers
  <2>3. e.id \notin Live'
    BY <1>2, <2>2 DEF Live, IdleTask
  <2> QED
    BY <1>1, <1>3, <2>2, <2>3, OnceKept
<1> QED
  BY <1>4, <1>5

LEMMA OnceCheck ==
  ASSUME TypeOK, TaskInv, OnceInv, CheckAndPersist
  PROVE  OnceInv'
<1> DEFINE e == task.env
<1>1. /\ task.pc = "authentic" /\ e \in sent /\ sent' = sent /\ net' = net
      /\ UNCHANGED <<ran, strays>>
  BY DEF CheckAndPersist, TaskInv, worldVars
<1>2. CASE \E err, mark : Reject(e, err, mark)
  <2>1. task' = IdleTask /\ \A r \in replies' \ replies : r.id = e.id
    BY <1>2, RejectAnswers
  <2>2. ~Redeliver => e.id \in SentIds \ (Executed \cup Live')
    BY <1>1, <2>1 DEF OnceInv, Live, SentIds, IdleTask
  <2> QED
    BY <1>1, <2>1, <2>2, OnceKept
<1>3. CASE task' = [pc |-> "accepted", env |-> e] /\ replies' = replies
  <2>1. Live' = Live /\ Executed' = Executed /\ SentIds' = SentIds
    BY <1>1, <1>3 DEF Live, Executed, SentIds
  <2> QED
    BY <1>1, <1>3, <2>1 DEF OnceInv
<1>4. \/ \E err, mark : Reject(e, err, mark)
      \/ task' = [pc |-> "accepted", env |-> e] /\ replies' = replies
  BY Zenon DEF CheckAndPersist, PersistFails
<1> QED
  BY <1>2, <1>3, <1>4

LEMMA Appended ==
  ASSUME NEW S, NEW s \in Seq(S), NEW x \in S
  PROVE  /\ DOMAIN Append(s, x) = DOMAIN s \cup {Len(s) + 1}
         /\ Append(s, x)[Len(s) + 1] = x
         /\ \A i \in DOMAIN s : Append(s, x)[i] = s[i]
OBVIOUS

\* A dispatched command joins those that have run.
LEMMA DispatchExecutes ==
  ASSUME TypeOK, Dispatch
  PROVE  \/ /\ Executed' = Executed \cup {task.env.id}
            /\ \A r \in replies' \ replies :
                 r.id = task.env.id /\ r.err \in HandlerResults
         \/ Executed' = Executed /\ replies' = replies
<1> DEFINE x == [env |-> task.env, under |-> devId]
           y == [env |-> task.env, era |-> wiped[task.env.kid]]
<1>1. ran \in Seq(RunRecord) /\ strays \in Seq(StrayRecord)
  BY Zenon DEF TypeOK
<1>2. task.env \in Envelope
  BY DEF Dispatch, TypeOK, IdleTask
<1>3. /\ x \in StrayRecord /\ x.env = task.env
      /\ y \in RunRecord /\ y.env = task.env
  BY <1>2 DEF TypeOK, Envelope, StrayRecord, RunRecord
<1> HIDE DEF x, y
<1>4. ASSUME \E res \in HandlerResults : Answer(task.env, res, 0)
      PROVE  \A r \in replies' \ replies :
               r.id = task.env.id /\ r.err \in HandlerResults
  BY <1>4 DEF Answer
<1>5. ASSUME ran' = Append(ran, y) /\ strays' = strays
      PROVE  Executed' = Executed \cup {task.env.id}
  <2>1. /\ DOMAIN ran' = DOMAIN ran \cup {Len(ran) + 1}
        /\ ran'[Len(ran) + 1] = y
        /\ \A i \in DOMAIN ran : ran'[i] = ran[i]
    BY <1>1, <1>3, <1>5, Appended
  <2> QED
    BY <1>3, <1>5, <2>1 DEF Executed
<1>6. ASSUME strays' = Append(strays, x) /\ ran' = ran
      PROVE  Executed' = Executed \cup {task.env.id}
  <2>1. /\ DOMAIN strays' = DOMAIN strays \cup {Len(strays) + 1}
        /\ strays'[Len(strays) + 1] = x
        /\ \A i \in DOMAIN strays : strays'[i] = strays[i]
    BY <1>1, <1>3, <1>6, Appended
  <2> QED
    BY <1>3, <1>6, <2>1 DEF Executed
<1>7. CASE UNCHANGED <<ran, strays, replies>>
  BY <1>7 DEF Executed
<1>8. \/ /\ \/ ran' = Append(ran, y) /\ strays' = strays
            \/ strays' = Append(strays, x) /\ ran' = ran
         /\ \E res \in HandlerResults : Answer(task.env, res, 0)
      \/ UNCHANGED <<ran, strays, replies>>
  BY Zenon DEF Dispatch, x, y
<1> QED
  <2>1. CASE UNCHANGED <<ran, strays, replies>>
    BY <1>7, <2>1
  <2>2. CASE /\ \/ ran' = Append(ran, y) /\ strays' = strays
                \/ strays' = Append(strays, x) /\ ran' = ran
             /\ \E res \in HandlerResults : Answer(task.env, res, 0)
    <3>1. \A r \in replies' \ replies :
            r.id = task.env.id /\ r.err \in HandlerResults
      BY <1>4, <2>2
    <3> QED
      BY <1>5, <1>6, <2>2, <3>1
  <2> QED
    BY <1>8, <2>1, <2>2

LEMMA OnceDispatch ==
  ASSUME TypeOK, TaskInv, OnceInv, Dispatch
  PROVE  OnceInv'
<1> SUFFICES ASSUME ~Redeliver PROVE OnceInv'
  BY DEF OnceInv
<1> DEFINE i == task.env.id
<1>1. task.pc = "accepted" /\ task.env \in sent /\ task' = IdleTask
      /\ sent' = sent /\ net' = net
  BY DEF Dispatch, TaskInv
<1>2. SentIds' = SentIds /\ i \in SentIds
  BY <1>1 DEF SentIds
<1>3. Live = {e.id : e \in net} \cup {i} /\ Live' = {e.id : e \in net}
  BY <1>1 DEF Live, IdleTask
<1>4. i \notin Live'
  BY <1>1, <1>3 DEF OnceInv
<1>5. Executed' \in {Executed, Executed \cup {i}}
      /\ \A r \in replies' \ replies : r.err \notin Refusals
  <2>1. HandlerResults \cap Refusals = {}
    BY DEF HandlerResults, Refusals
  <2> QED
    BY <2>1, DispatchExecutes
<1>6. \A r \in replies' : r.err \in Refusals =>
        r \in replies /\ r.id \in SentIds \ (Executed' \cup Live')
  BY <1>3, <1>5 DEF OnceInv
<1>7. Executed' \subseteq SentIds /\ Executed' \cap Live' = {}
  BY <1>2, <1>3, <1>4, <1>5 DEF OnceInv
<1> QED
  BY <1>1, <1>2, <1>6, <1>7 DEF OnceInv, IdleTask

\* A new envelope has an id nothing else has had.
LEMMA OnceSend ==
  ASSUME TypeOK, TaskInv, IdInv, OnceInv,
         NEW p \in Phones, NEW t \in Tabs, SignAndSend(p, t)
  PROVE  OnceInv'
<1> SUFFICES ASSUME ~Redeliver PROVE OnceInv'
  BY DEF OnceInv
<1>1. PICK e : /\ sent' = sent \cup {e} /\ net' = net \cup {e}
               /\ e.id = tab[p][t].id
  <2> DEFINE env(act, skew) ==
               [dev |-> tab[p][t].dev, kid |-> tab[p][t].kid, signer |-> p,
                id |-> tab[p][t].id, ts |-> now + skew,
                ctr |-> tab[p][t].ctr, act |-> act]
  <2>1. PICK act \in Acts, skew \in Skews :
          /\ sent' = sent \cup {env(act, skew)}
          /\ net' = net \cup {env(act, skew)}
    BY Zenon DEF SignAndSend
  <2>2. env(act, skew).id = tab[p][t].id
    OBVIOUS
  <2> HIDE DEF env
  <2> QED
    BY <2>1, <2>2
<1>2. tab[p][t].pc = "counted" /\ UNCHANGED <<task, replies, ran, strays>>
  BY Zenon DEF SignAndSend, ramVars, worldVars
<1>3. e.id \notin SentIds
  BY <1>1, <1>2 DEF IdInv, SentIds
<1>4. SentIds' = SentIds \cup {e.id} /\ Executed' = Executed
      /\ Live' = Live \cup {e.id}
  BY <1>1, <1>2 DEF SentIds, Executed, Live
<1>5. task.pc # "idle" => task.env.id \in SentIds
  BY DEF TaskInv, SentIds
<1>6. \A r \in replies' : r.err \in Refusals =>
        r.id \in SentIds' \ (Executed' \cup Live')
  BY <1>2, <1>3, <1>4 DEF OnceInv
<1>7. Executed' \subseteq SentIds' /\ Executed' \cap Live' = {}
  BY <1>3, <1>4 DEF OnceInv
<1>8. task'.pc # "idle" => \A f \in net' : f.id # task'.env.id
  BY <1>1, <1>2, <1>3, <1>5 DEF OnceInv
<1> QED
  BY <1>6, <1>7, <1>8 DEF OnceInv

LEMMA OnceStep ==
  ASSUME TypeOK, TaskInv, IdInv, OnceInv, [Next]_vars
  PROVE  OnceInv'
<1>1. ASSUME NEW p \in Phones, NEW t \in Tabs,
             HandleReply(p, t) \/ AbandonRun(p, t)
      PROVE  OnceInv'
  <2>1. replies' \subseteq replies
    BY <1>1 DEF HandleReply, AbandonRun
  <2>2. UNCHANGED <<sent, net, task, ran, strays>>
    BY <1>1, Zenon DEF HandleReply, AbandonRun, ramVars, worldVars
  <2> QED
    BY <2>1, <2>2, OnceKept
<1>2. CASE Reboot
  <2>1. task' = IdleTask /\ UNCHANGED <<sent, net, replies, ran, strays>>
    BY <1>2, Zenon DEF Reboot, netVars, worldVars
  <2> QED
    BY <2>1, OnceKept
<1>3. CASE /\ ~\E p \in Phones, t \in Tabs :
                 \/ SignAndSend(p, t) \/ HandleReply(p, t) \/ AbandonRun(p, t)
           /\ ~\E e \in net : Receive(e)
           /\ ~CheckAndPersist /\ ~Dispatch /\ ~Reboot
  <2>1. UNCHANGED <<sent, net, replies, task, ran, strays>>
    BY <1>3, Zenon
    DEF Next, PhoneStep, DeviceStep, Tick, NextCounter, Restore, ChangeKid,
        LinkLost, NewSession, ClockSynchronized, AddKey, AddKeyCounter,
        AddKeyFails, Erase, ForgetIdentity, vars, netVars, ramVars, worldVars
  <2> QED
    BY <2>1, OnceKept
<1> QED
  BY <1>1, <1>2, <1>3, OnceSend, OnceReceive, OnceCheck, OnceDispatch

\* `ok` is said by Dispatch alone, of the command it has just run.
LEMMA OkStep ==
  ASSUME TypeOK, [Next]_vars, \A r \in replies : r.err = "ok" => r.id \in Executed
  PROVE  \A r \in replies' : r.err = "ok" => r.id \in Executed'
<1> DEFINE Ok == \A r \in replies' : r.err = "ok" => r.id \in Executed'
<1>1. CASE Dispatch
  BY <1>1, DispatchExecutes
<1>2. CASE ~Dispatch
  <2>1. UNCHANGED <<ran, strays>>
    <3>1. CASE PhoneStep
      BY <3>1, PhoneFrame, Zenon DEF worldVars
    <3>2. CASE DeviceStep
      BY <1>2, <3>2, Zenon
      DEF DeviceStep, Receive, CheckAndPersist, LinkLost, NewSession,
          ClockSynchronized, AddKey, AddKeyCounter, AddKeyFails, Erase,
          ForgetIdentity, Reboot, worldVars
    <3>3. CASE Tick \/ UNCHANGED vars
      BY <3>3, Zenon DEF Tick, vars, worldVars
    <3> QED
      BY <3>1, <3>2, <3>3 DEF Next
  <2>2. Executed' = Executed
    BY <2>1 DEF Executed
  <2>3. \A r \in replies' \ replies : r.err # "ok"
    <3>1. ASSUME NEW e \in net, Receive(e)
          PROVE  \A r \in replies' \ replies : r.err # "ok"
      BY <3>1 DEF Receive, Reject, Answer, AuthVerdict
    <3>2. CASE CheckAndPersist
      BY <3>2 DEF CheckAndPersist, PersistFails, Reject, Answer
    <3>3. ASSUME NEW p \in Phones, NEW t \in Tabs,
                 HandleReply(p, t) \/ AbandonRun(p, t)
          PROVE  replies' \subseteq replies
      BY <3>3 DEF HandleReply, AbandonRun
    <3>4. CASE /\ ~\E e \in net : Receive(e)
               /\ ~CheckAndPersist
               /\ ~\E p \in Phones, t \in Tabs :
                     HandleReply(p, t) \/ AbandonRun(p, t)
      <4>1. replies' = replies
        BY <1>2, <3>4, Zenon
        DEF Next, PhoneStep, DeviceStep, Tick, NextCounter, SignAndSend,
            Restore, ChangeKid, LinkLost, NewSession, ClockSynchronized,
            AddKey, AddKeyCounter, AddKeyFails, Erase, ForgetIdentity, Reboot, vars,
            netVars
      <4> QED
        BY <4>1
    <3> QED
      BY <3>1, <3>2, <3>3, <3>4
  <2> QED
    BY <2>2, <2>3
<1> QED
  BY <1>1, <1>2

\* The id of a command is its own: no two envelopes, of one phone or of two,
\* share one, so an answer can be meant for one run only.
THEOREM IdsUnique == Spec => []IdInv
<1>1. Init => IdInv
  BY DEF Init, IdInv, NoTab
<1>2. TypeOK /\ IdInv /\ [Next]_vars => IdInv'
  BY IdStep
<1> QED
  BY <1>1, <1>2, TypeCorrect, PTL DEF Spec

\* `ok` reaches a phone only for a command that ran; a refusal, if the relay
\* delivers nothing twice, only for one that never has and never will.
THEOREM AnswersTrue == Spec => []AnswerIsTrue
<1>1. Init => AnswerInv
  BY DEF Init, AnswerInv, IdInv, OnceInv, NoTab, Executed, Live, SentIds, IdleTask
<1>2. IInv /\ AnswerInv /\ [Next]_vars => AnswerInv'
  BY IdStep, OnceStep, OkStep DEF AnswerInv, IInv
<1>3. AnswerInv => AnswerIsTrue
  BY DEF AnswerInv, OnceInv, AnswerIsTrue
<1> QED
  BY <1>1, <1>2, <1>3, Consistency, PTL DEF Spec
=============================================================================
