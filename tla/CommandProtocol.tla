-------------------------- MODULE CommandProtocol --------------------------
(***************************************************************************)
(* The signed-command path end to end: the phone's persisted counter and   *)
(* its concurrent runs (app/src/commands.js, store.js), an unreliable      *)
(* relay, the device's verification with its NVS high-water marks          *)
(* (firmware auth.c, relay_client.c, config.c), enrolment of phones in     *)
(* setup mode, factory reset, and power loss between any two steps.        *)
(*                                                                         *)
(* One action per step that another task, a tab or a power loss can get    *)
(* between.  The device's relay task takes three steps per command:        *)
(* Receive (identity, key, signature, time), CheckAndPersist (the counter) *)
(* and Dispatch.  NVS writes are durable when the setter returns.  The     *)
(* factory reset erases the namespace entry by entry: it may fail or be    *)
(* cut off with some of the entries gone, and the restart follows anyway.  *)
(***************************************************************************)
EXTENDS AuthLockout, Sequences

CONSTANTS
  Phones,       \* phones; a phone stands for its signing key too
  None,         \* no phone: an empty key slot, no enrolment in progress
  Tabs,         \* concurrent runs of one phone: open tabs, unguarded handlers
  NumKids,      \* RW_MAX_KEY_SLOTS
  Acts,         \* the actions the app offers
  EnabledActs,  \* those this firmware build accepts (s_acts)
  TsWindow,     \* CONFIG_RW_TS_WINDOW_SEC
  Skews,        \* how far a phone's clock may be off
  Redeliver,    \* whether the relay may deliver one envelope several times
  MaxResets,    \* bound: factory resets the user asks for
  MaxCmds,      \* bound: commands signed
  MaxRestores,  \* bound: restores of a phone's storage from a backup
  MaxTime       \* bound: the clock

ASSUME ProtocolAssumption ==
  /\ None \notin Phones
  /\ NumKids \in Nat \ {0}
  /\ EnabledActs \subseteq Acts
  /\ TsWindow \in Nat
  /\ Skews \subseteq Int
  /\ Redeliver \in BOOLEAN
  /\ MaxResets \in Nat
  /\ MaxCmds \in Nat /\ MaxRestores \in Nat /\ MaxTime \in Nat

Kids   == 1 .. NumKids
DevIds == 1 .. MaxResets + 1   \* a reset costs at most one identity
NoDev  == 0                    \* no identity, in flash or in RAM
NoPairing == <<NoDev, 0>>
NoJob     == <<None, 0>>

VARIABLES
  \* --- phones
  pairing,    \* [Phones -> <<dev, kid>>]: the stored device record
  stored,     \* [Phones -> [DevIds \X Kids -> Nat]]: IndexedDB counters
  tab,        \* [Phones -> [Tabs -> TabState]]: runs in progress
  nextId,     \* the next command id, a uuid in the code
  restores,   \* restores from a backup so far
  \* --- relay and network
  sent,       \* every envelope signed (history)
  net,        \* envelopes the relay can still deliver
  replies,    \* device answers on their way to the phone
  \* --- device, durable (NVS)
  nvsId,      \* dev_id in flash, NoDev once erased
  lastDev,    \* identities generated so far
  slots,      \* [Kids -> Phones \cup {None}]: k1..k4
  hwm,        \* [Kids -> Nat]: c1..c4, the replay high-water marks
  \* --- device, volatile
  devId,      \* s_device_id: the identity in use
  reset,      \* the button task: "no" | "erased" | "forgot"
  mode,       \* "setup" | "normal"
  setupJob,   \* phone whose new slot still lacks its counter, and the slot
  task,       \* the relay task: [pc, env]
  sessionOk,  \* session_valid() for the session being served
  synced,     \* SNTP has set the clock since boot
  ring,       \* the lockout ring
  \* --- world
  now,        \* true time
  resets,     \* factory resets so far
  wiped,      \* history, [Kids -> Nat]: the era of a slot, i.e. how often a
              \* reset took its key or its mark and not the identity
  ran,        \* history: the commands dispatched, with the slot's era
  strays      \* history: those dispatched during a reset, and under whom

phoneVars  == <<pairing, stored, tab, nextId, restores>>
netVars    == <<sent, net, replies>>
nvsVars    == <<nvsId, lastDev, slots, hwm>>
ramVars    == <<devId, reset, mode, setupJob, task, sessionOk, synced, ring>>
worldVars  == <<now, resets, wiped, ran, strays>>
vars == <<phoneVars, netVars, nvsVars, ramVars, worldVars>>

-----------------------------------------------------------------------------
(* Data *)

Pairings == DevIds \X Kids

Envelope == [dev : DevIds, kid : Kids, signer : Phones, id : Nat,
             ts : Int, ctr : Nat, act : Acts]

TabState == [pc : {"idle", "counted", "waiting"}, dev : DevIds, kid : Kids,
             ctr : Nat, id : Nat]
NoTab == [pc |-> "idle", dev |-> 1, kid |-> 1, ctr |-> 0, id |-> 0]
NoEnv == [dev |-> 0]
IdleTask == [pc |-> "idle", env |-> NoEnv]

\* What verification refuses a command with...
Refusals == {"locked", "dev_mismatch", "unknown_key", "sig", "stale",
             "replay", "unknown_act"}
\* ...and `internal`, when the mark cannot be read or written...
VerifyErrs == Refusals \cup {"internal"}
\* ...and what a handler answers: success, an error that says why (`busy`
\* stands for usb_down and bad_args too), or `internal` for any other error of
\* the keyboard or the relays, after it has acted in part or not at all.
HandlerResults == {"ok", "busy", "internal"}

\* A reply carries no counter: respond_err() never adds `res`.  `mark` is
\* history: the high-water mark a replay answer was decided against.
Reply == [id : Nat, err : VerifyErrs \cup HandlerResults, mark : Nat]

Chan(e) == <<e.dev, e.kid, e.signer>>

RunRecord   == [env : Envelope, era : Nat]
StrayRecord == [env : Envelope, under : DevIds \cup {NoDev}]

\* acceptFastForward(): COUNTER_MAX_JUMP and the ceiling never bind here.
NoCtr == -1
AcceptFastForward(cur, value) == value # NoCtr /\ value > cur

-----------------------------------------------------------------------------
(* Phones *)

\* run() up to nextCounter(): one IndexedDB transaction reads, increments
\* and persists.  run() works on the device record its caller holds.
NextCounter(p, t) ==
  /\ tab[p][t].pc = "idle"
  /\ pairing[p] # NoPairing
  /\ nextId <= MaxCmds
  /\ LET c == stored[p][pairing[p]] + 1 IN
       /\ stored' = [stored EXCEPT ![p][pairing[p]] = c]
       /\ tab' = [tab EXCEPT ![p][t] =
            [pc |-> "counted", dev |-> pairing[p][1], kid |-> pairing[p][2],
             ctr |-> c, id |-> nextId]]
  /\ nextId' = nextId + 1
  /\ UNCHANGED <<pairing, restores, netVars, nvsVars, ramVars, worldVars>>

\* Build the envelope, sign it and POST it to the relay.
SignAndSend(p, t) ==
  /\ tab[p][t].pc = "counted"
  /\ \E act \in Acts, skew \in Skews :
       LET e == [dev |-> tab[p][t].dev, kid |-> tab[p][t].kid, signer |-> p,
                 id |-> tab[p][t].id, ts |-> now + skew,
                 ctr |-> tab[p][t].ctr, act |-> act]
       IN  sent' = sent \cup {e} /\ net' = net \cup {e}
  /\ tab' = [tab EXCEPT ![p][t].pc = "waiting"]
  /\ UNCHANGED <<pairing, stored, nextId, restores, replies, nvsVars, ramVars,
                 worldVars>>

\* The answer arrives.  On `replay` the app asks to be moved up to
\* response.res?.lastCtr, which this firmware's answers do not have.
HandleReply(p, t) ==
  /\ tab[p][t].pc = "waiting"
  /\ \E r \in replies :
       /\ r.id = tab[p][t].id
       /\ replies' = replies \ {r}
       /\ LET ck      == <<tab[p][t].dev, tab[p][t].kid>>
              lastCtr == NoCtr
          IN  stored' = IF /\ r.err = "replay"
                           /\ AcceptFastForward(stored[p][ck], lastCtr)
                        THEN [stored EXCEPT ![p][ck] = lastCtr]
                        ELSE stored
  /\ tab' = [tab EXCEPT ![p][t] = NoTab]
  /\ UNCHANGED <<pairing, nextId, restores, sent, net, nvsVars, ramVars,
                 worldVars>>

\* Mutant: a run that gave up hands its counter back.
AbandonRunRollsBack(p, t) ==
  /\ tab[p][t].pc # "idle"
  /\ stored' = [stored EXCEPT
                  ![p][<<tab[p][t].dev, tab[p][t].kid>>] = tab[p][t].ctr - 1]
  /\ tab' = [tab EXCEPT ![p][t] = NoTab]
  /\ replies' = {r \in replies : r.id # tab[p][t].id}
  /\ UNCHANGED <<pairing, nextId, restores, sent, net, nvsVars, ramVars,
                 worldVars>>

\* sendCommand() throws (offline, device_timeout, rate limit, aborted fetch),
\* or the page is closed or killed: the counter taken stays taken.
AbandonRun(p, t) ==
  /\ tab[p][t].pc # "idle"
  /\ tab' = [tab EXCEPT ![p][t] = NoTab]
  /\ replies' = {r \in replies : r.id # tab[p][t].id}
  /\ UNCHANGED <<pairing, stored, nextId, restores, sent, net, nvsVars, ramVars,
                 worldVars>>

\* The phone's storage comes back from a backup with an older counter.
Restore(p) ==
  /\ restores < MaxRestores
  /\ \A t \in Tabs : tab[p][t].pc = "idle"
  /\ \E ck \in Pairings : \E c \in 0 .. stored[p][ck] - 1 :
       stored' = [stored EXCEPT ![p][ck] = c]
  /\ restores' = restores + 1
  /\ UNCHANGED <<pairing, tab, nextId, netVars, nvsVars, ramVars, worldVars>>

\* onChangeKid(): the user corrects the operator slot in Settings.
ChangeKid(p, k) ==
  /\ pairing[p] # NoPairing
  /\ pairing[p][2] # k
  /\ pairing' = [pairing EXCEPT ![p] = <<pairing[p][1], k>>]
  /\ UNCHANGED <<stored, tab, nextId, restores, netVars, nvsVars, ramVars,
                 worldVars>>

-----------------------------------------------------------------------------
(* Device: one command at a time, on the relay task *)

\* Failures that count towards the lockout (handle_envelope).
Counted == {"sig", "unknown_key", "replay", "dev_mismatch"}

Abs(n) == IF n < 0 THEN -n ELSE n

\* Mutant: the envelope's device id is not compared with the device's own.
AddressedToAny(e) == TRUE

Addressed(e) == e.dev = devId

\* Mutant: the lockout is not consulted.
AuthVerdictNoLockout(e) ==
  IF ~Addressed(e) THEN "dev_mismatch"
  ELSE IF slots[e.kid] = None THEN "unknown_key"
  ELSE IF slots[e.kid] # e.signer THEN "sig"
  ELSE IF synced /\ Abs(now - e.ts) > TsWindow THEN "stale"
  ELSE "pass"

\* handle_envelope() and rw_auth_verify() up to the time window; the order
\* of the early returns is the source's.
AuthVerdict(e) ==
  IF LockedOut(ring, now) THEN "locked"
  ELSE IF ~Addressed(e) THEN "dev_mismatch"
  ELSE IF slots[e.kid] = None THEN "unknown_key"
  ELSE IF slots[e.kid] # e.signer THEN "sig"
  ELSE IF synced /\ Abs(now - e.ts) > TsWindow THEN "stale"
  ELSE "pass"

\* ws_send_text() sends only on a valid session, and the relay passes on the
\* first answer to an id that a request still waits for.
Awaited(id) ==
  /\ \E p \in Phones, t \in Tabs : tab[p][t].pc = "waiting" /\ tab[p][t].id = id
  /\ \A r \in replies : r.id # id

Answer(e, err, mark) ==
  replies' = IF sessionOk /\ Awaited(e.id)
             THEN replies \cup {[id |-> e.id, err |-> err, mark |-> mark]}
             ELSE replies

\* Mutant: handle_envelope() answers the refusal and does not return.
RejectNoReturn(e, err, mark) ==
  /\ Answer(e, err, mark)
  /\ ring' = IF err \in Counted THEN NoteAuthFailure(ring, now) ELSE ring
  /\ task' = IF task.pc = "authentic" THEN [task EXCEPT !.pc = "accepted"]
             ELSE IdleTask

Reject(e, err, mark) ==
  /\ Answer(e, err, mark)
  /\ ring' = IF err \in Counted THEN NoteAuthFailure(ring, now) ELSE ring
  /\ task' = IdleTask

\* The relay task takes an envelope of its session and authenticates it.
Receive(e) ==
  /\ mode = "normal" /\ sessionOk
  /\ task.pc = "idle"
  /\ e \in net
  /\ net' = IF Redeliver THEN net ELSE net \ {e}
  /\ \/ /\ AuthVerdict(e) = "pass"
        /\ task' = [pc |-> "authentic", env |-> e]
        /\ UNCHANGED <<replies, ring>>
     \/ /\ AuthVerdict(e) # "pass"
        /\ Reject(e, AuthVerdict(e), 0)
  /\ UNCHANGED <<phoneVars, sent, nvsVars, devId, reset, mode, setupJob,
                 sessionOk, synced, worldVars>>

\* Mutant: a counter equal to the mark passes.
FreshOrEqual(e) == e.ctr >= hwm[e.kid]

Fresh(e) == e.ctr > hwm[e.kid]

\* Mutant: the counter is accepted without reaching flash.
MarkedInRam(e) == hwm

Marked(e) == [hwm EXCEPT ![e.kid] = e.ctr]

\* rw_config_set_ctr() fails; flash may or may not have taken the write.
PersistFails(e) ==
  /\ hwm' \in {hwm, Marked(e)}
  /\ Reject(e, "internal", 0)

\* Steps 5 and 6 of rw_auth_verify(): the counter must exceed the high-water
\* mark and be durable before anything runs; an action the build lacks is
\* refused only then.
CheckAndPersist ==
  /\ task.pc = "authentic"
  /\ LET e == task.env IN
       \/ Reject(e, "internal", 0) /\ UNCHANGED hwm    \* rw_config_get_ctr
       \/ ~Fresh(e) /\ Reject(e, "replay", hwm[e.kid]) /\ UNCHANGED hwm
       \/ Fresh(e) /\ PersistFails(e)
       \/ /\ Fresh(e)
          /\ hwm' = Marked(e)
          /\ \/ e.act \notin EnabledActs /\ Reject(e, "unknown_act", 0)
             \/ /\ e.act \in EnabledActs
                /\ task' = [pc |-> "accepted", env |-> e]
                /\ UNCHANGED <<replies, ring>>
  /\ UNCHANGED <<phoneVars, sent, net, nvsId, lastDev, slots, devId, reset,
                 mode, setupJob, sessionOk, synced, worldVars>>

\* The session is checked again: a loss during verification drops the
\* command without an answer.
Dispatch ==
  /\ task.pc = "accepted"
  /\ \/ /\ sessionOk
        /\ IF reset = "no" /\ task.env.dev = devId
           THEN /\ ran' = Append(ran, [env |-> task.env,
                                       era |-> wiped[task.env.kid]])
                /\ UNCHANGED strays
           ELSE /\ strays' = Append(strays, [env |-> task.env, under |-> devId])
                /\ UNCHANGED ran
        /\ \E res \in HandlerResults : Answer(task.env, res, 0)
     \/ /\ ~sessionOk
        /\ UNCHANGED <<ran, strays, replies>>
  /\ task' = IdleTask
  /\ UNCHANGED <<phoneVars, sent, net, nvsVars, devId, reset, mode, setupJob,
                 sessionOk, synced, ring, now, resets, wiped>>

-----------------------------------------------------------------------------
(* Device: link, clock, setup mode, restarts *)

\* Wi-Fi or the socket goes away at any moment (module RelayLink).
LinkLost ==
  /\ sessionOk
  /\ sessionOk' = FALSE
  /\ UNCHANGED <<phoneVars, netVars, nvsVars, devId, reset, mode, setupJob,
                 task, synced, ring, worldVars>>

\* Only the relay task opens a session, so never in the middle of a command.
NewSession ==
  /\ mode = "normal" /\ ~sessionOk /\ task.pc = "idle"
  /\ sessionOk' = TRUE
  /\ UNCHANGED <<phoneVars, netVars, nvsVars, devId, reset, mode, setupJob,
                 task, synced, ring, worldVars>>

ClockSynchronized ==
  /\ mode = "normal" /\ ~synced
  /\ synced' = TRUE
  /\ UNCHANGED <<phoneVars, netVars, nvsVars, devId, reset, mode, setupJob,
                 task, sessionOk, ring, worldVars>>

FreeKids == {k \in Kids : slots[k] = None}

\* Mutant: enrolment does not look for the key in the other slots.
UnregisteredAssumed(p) == TRUE

Unregistered(p) == \A k \in Kids : slots[k] # p

\* The blob /pair returns is of use to the app only with a device id in it.
Paired(p, k) ==
  pairing' = IF devId # NoDev THEN [pairing EXCEPT ![p] = <<devId, k>>]
             ELSE pairing

\* rw_config_add_key() up to its first write.  A key that has a slot keeps
\* it; otherwise the first free slot is written.
AddKey(p) ==
  /\ mode = "setup" /\ setupJob = NoJob
  /\ \/ \E k \in Kids :
          /\ slots[k] = p
          /\ Paired(p, k)
          /\ UNCHANGED <<slots, setupJob>>
     \/ \E k \in FreeKids :
          /\ Unregistered(p)
          /\ \A j \in FreeKids : k <= j
          /\ slots' = [slots EXCEPT ![k] = p]
          /\ setupJob' = <<p, k>>
          /\ UNCHANGED pairing
  /\ UNCHANGED <<stored, tab, nextId, restores, netVars, nvsId, lastDev, hwm,
                 devId, reset, mode, task, sessionOk, synced, ring, worldVars>>

\* Its second write starts the slot's counter at 0; /pair then answers.
AddKeyCounter ==
  /\ setupJob # NoJob
  /\ hwm' = [hwm EXCEPT ![setupJob[2]] = 0]
  /\ Paired(setupJob[1], setupJob[2])
  /\ setupJob' = NoJob
  /\ UNCHANGED <<stored, tab, nextId, restores, netVars, nvsId, lastDev, slots,
                 devId, reset, mode, task, sessionOk, synced, ring, worldVars>>

\* The second write fails: /pair answers 500 and the slot stays written.
AddKeyFails ==
  /\ setupJob # NoJob
  /\ setupJob' = NoJob
  /\ UNCHANGED <<phoneVars, netVars, nvsVars, devId, reset, mode, task,
                 sessionOk, synced, ring, worldVars>>

\* nvs_erase_all(), from the button task: the relay task and the setup server
\* go on meanwhile.  It erases entry by entry and may fail, or lose power
\* (Reboot), after any of them; rw_config_factory_reset() goes on regardless.
\* A namespace that cannot be opened is the Reboot alone that follows.
Erase ==
  /\ reset = "no" /\ resets < MaxResets
  /\ nvsId' \in {nvsId, NoDev}
  /\ \E keys, marks \in SUBSET Kids :
       /\ slots' = [k \in Kids |-> IF k \in keys THEN None ELSE slots[k]]
       /\ hwm' = [k \in Kids |-> IF k \in marks THEN 0 ELSE hwm[k]]
  /\ wiped' = [k \in Kids |->
       IF nvsId' # NoDev /\ (slots'[k] # slots[k] \/ hwm'[k] # hwm[k])
       THEN wiped[k] + 1 ELSE wiped[k]]
  /\ reset' = "erased"
  /\ resets' = resets + 1
  /\ UNCHANGED <<phoneVars, netVars, lastDev, devId, mode, setupJob, task,
                 sessionOk, synced, ring, now, ran, strays>>

\* The rest of it clears the identity in RAM; the restart, which does not look
\* at the result, follows half a second later.
ForgetIdentity ==
  /\ reset = "erased"
  /\ devId' = NoDev
  /\ reset' = "forgot"
  /\ UNCHANGED <<phoneVars, netVars, nvsVars, mode, setupJob, task, sessionOk,
                 synced, ring, worldVars>>

\* Mutant: the restart after an erasure starts as the device it was.
NextIdentityAgain == IF nvsId = NoDev THEN lastDev ELSE nvsId

\* ensure_identity(): the identity in flash, or a fresh one if it is gone.
NextIdentity == IF nvsId = NoDev THEN lastDev + 1 ELSE nvsId

\* A restart or a power loss, in any state.  Normal mode needs an enrolled key
\* (and settings this module does not have: module DeviceStore).
Reboot ==
  /\ \/ mode' = "setup"
     \/ /\ mode' = "normal"
        /\ \E k \in Kids : slots[k] # None
  /\ devId' = NextIdentity
  /\ nvsId' = NextIdentity
  /\ lastDev' = IF nvsId = NoDev THEN NextIdentity ELSE lastDev
  /\ reset' = "no"
  /\ setupJob' = NoJob
  /\ task' = IdleTask
  /\ sessionOk' = FALSE
  /\ synced' = FALSE
  /\ ring' = EmptyRing
  /\ UNCHANGED <<phoneVars, netVars, slots, hwm, worldVars>>

Tick ==
  /\ now < MaxTime
  /\ now' = now + 1
  /\ UNCHANGED <<phoneVars, netVars, nvsVars, ramVars, resets, wiped, ran,
                 strays>>

-----------------------------------------------------------------------------
(* The specification *)

Init ==
  /\ pairing = [p \in Phones |-> NoPairing]
  /\ stored = [p \in Phones |-> [ck \in Pairings |-> 0]]
  /\ tab = [p \in Phones |-> [t \in Tabs |-> NoTab]]
  /\ nextId = 1 /\ restores = 0
  /\ sent = {} /\ net = {} /\ replies = {}
  /\ nvsId = 1 /\ lastDev = 1 /\ devId = 1 /\ reset = "no"
  /\ slots = [k \in Kids |-> None]
  /\ hwm = [k \in Kids |-> 0]
  /\ mode = "setup" /\ setupJob = NoJob
  /\ task = IdleTask
  /\ sessionOk = FALSE /\ synced = FALSE
  /\ ring = EmptyRing
  /\ now = 1 /\ resets = 0 /\ wiped = [k \in Kids |-> 0]
  /\ ran = <<>> /\ strays = <<>>

PhoneStep ==
  \E p \in Phones :
    \/ \E t \in Tabs : \/ NextCounter(p, t) \/ SignAndSend(p, t)
                       \/ HandleReply(p, t) \/ AbandonRun(p, t)
    \/ Restore(p)
    \/ \E k \in Kids : ChangeKid(p, k)

DeviceStep ==
  \/ \E e \in net : Receive(e)
  \/ CheckAndPersist \/ Dispatch
  \/ LinkLost \/ NewSession \/ ClockSynchronized
  \/ \E p \in Phones : AddKey(p)
  \/ AddKeyCounter \/ AddKeyFails
  \/ Erase \/ ForgetIdentity \/ Reboot

Next == PhoneStep \/ DeviceStep \/ Tick

Spec == Init /\ [][Next]_vars

-----------------------------------------------------------------------------
(* Properties *)

\* Every variable keeps its type: counters stay naturals within their slots,
\* the relay task holds an envelope exactly while it works on one.
TypeOK ==
  /\ pairing \in [Phones -> Pairings \cup {NoPairing}]
  /\ stored \in [Phones -> [Pairings -> Nat]]
  /\ tab \in [Phones -> [Tabs -> TabState]]
  /\ nextId \in Nat /\ restores \in Nat
  /\ sent \subseteq Envelope /\ net \subseteq sent /\ replies \subseteq Reply
  /\ nvsId \in DevIds \cup {NoDev} /\ lastDev \in DevIds
  /\ slots \in [Kids -> Phones \cup {None}]
  /\ hwm \in [Kids -> Nat]
  /\ devId \in DevIds \cup {NoDev}
  /\ reset \in {"no", "erased", "forgot"}
  /\ mode \in {"setup", "normal"}
  /\ setupJob \in (Phones \X Kids) \cup {NoJob}
  /\ \/ task = IdleTask
     \/ task \in [pc : {"authentic", "accepted"}, env : Envelope]
  /\ sessionOk \in BOOLEAN /\ synced \in BOOLEAN
  /\ ring \in RingType
  /\ now \in Nat /\ resets \in 0 .. MaxResets
  /\ wiped \in [Kids -> Nat]
  /\ ran \in Seq(RunRecord)
  /\ strays \in Seq(StrayRecord)

\* Of one channel, with the key and the mark of its slot as they were.
SameRun(r, q) == Chan(r.env) = Chan(q.env) /\ r.era = q.era

\* The commands of a channel run in increasing counter order, so none runs
\* twice, whatever is delivered again, in whatever order, across power losses
\* (auth.c: persist BEFORE executing).  Only a factory reset that erased the
\* slot's mark or key and then left the identity begins anew (an era).
RunsInOrder ==
  \A i, j \in DOMAIN ran :
    i < j /\ SameRun(ran[i], ran[j]) => ran[i].env.ctr < ran[j].env.ctr

\* The identity in flash and the slot are still those the command ran under.
Current(r) == r.env.dev = nvsId /\ r.era = wiped[r.env.kid]

\* The high-water mark in flash is never behind a command that has run for
\* the key now in the slot: a power loss can skip counters, never reuse one,
\* unless it cuts a factory reset off.
MarkCoversRuns ==
  \A i \in DOMAIN ran : Current(ran[i]) =>
    /\ slots[ran[i].env.kid] = ran[i].env.signer
    /\ ran[i].env.ctr <= hwm[ran[i].env.kid]

\* Two runs or envelopes that took one counter of one device record.
SameCounter(d, e) == d.dev = e.dev /\ d.kid = e.kid /\ d.ctr = e.ctr

\* Two runs of a phone never sign with one counter, however its tabs
\* interleave or die, unless its storage was restored (store.js:14-16).
NoCounterReuse ==
  restores = 0 =>
    \A d, e \in sent : Chan(d) = Chan(e) /\ d.ctr = e.ctr => d = e

\* A key occupies one slot: the envelope's kid is not signed, so a second
\* slot would give the same signature a second high-water mark.
OneSlotPerKey ==
  \A j, k \in Kids : slots[j] = slots[k] /\ slots[j] # None => j = k

\* The ids of the commands that have run.
Executed == {ran[i].env.id : i \in DOMAIN ran}
            \cup {strays[i].env.id : i \in DOMAIN strays}

\* What the phone is told is true: `ok` only of a command that ran, and a
\* refusal, if nothing is delivered twice, only of one that did not and never
\* will.  `internal` tells it neither: a handler may have acted before it.
AnswerIsTrue ==
  \A r \in replies :
    /\ r.err = "ok" => r.id \in Executed
    /\ r.err \in Refusals /\ ~Redeliver => r.id \notin Executed

\* During a lockout nothing runs and no mark moves up, the command in hand when
\* it began included (relay_client.c: "dropping command during lockout").
LockoutHolds ==
  [][LockedOut(ring, now) =>
       /\ UNCHANGED <<ran, strays>>
       /\ \A k \in Kids : hwm'[k] <= hwm[k]]_vars

\* Once the device has a new identity, nothing addressed to the old one runs:
\* a command caught by a reset runs under its own identity or under none.
RunsUnderOwnIdentity ==
  \A i \in DOMAIN strays : strays[i].under \in {strays[i].env.dev, NoDev}

\* The command path implements the abstract command service.
Service == INSTANCE CommandService
             WITH issued <- sent, done <- ran, era <- wiped
ImplementsService == Service!Spec

(* The inductive strengthening of RunsInOrder *)

\* The command in hand was signed by a phone and authenticated in normal mode,
\* against the identity and the key slot the device has until a reset begins.
TaskInv ==
  task.pc # "idle" =>
    /\ mode = "normal"
    /\ task.env \in sent
    /\ devId \in {task.env.dev, NoDev}
    /\ reset = "no" => slots[task.env.kid] = task.env.signer

\* An accepted command is covered by the mark in flash and above every
\* command of its channel that has run.
AcceptedInv ==
  task.pc = "accepted" /\ reset = "no" =>
    /\ task.env.ctr <= hwm[task.env.kid]
    /\ \A i \in DOMAIN ran :
         Chan(ran[i].env) = Chan(task.env) /\ ran[i].era = wiped[task.env.kid]
           => ran[i].env.ctr < task.env.ctr

\* A slot being written is one no command has run from, and only setup mode
\* writes slots.
SetupInv ==
  setupJob # NoJob =>
    /\ mode = "setup"
    /\ \A i \in DOMAIN ran : Current(ran[i]) => ran[i].env.kid # setupJob[2]

\* Identities are numbered in the order they were generated, each but the
\* first after a reset; RAM and flash agree on the one in use until a reset.
IdentityInv ==
  /\ nvsId <= lastDev
  /\ lastDev <= resets + 1
  /\ nvsId = NoDev => lastDev <= resets
  /\ reset = "no" => devId = nvsId /\ nvsId # NoDev
  /\ \A i \in DOMAIN ran : ran[i].env.dev <= lastDev

\* The era of a slot never goes back.
EraInv == \A i \in DOMAIN ran : ran[i].era <= wiped[ran[i].env.kid]

\* Together they are inductive: what the device has run, what it is about to
\* run, what flash remembers and which identity it has never disagree.
IInv ==
  /\ TypeOK
  /\ RunsInOrder /\ MarkCoversRuns /\ RunsUnderOwnIdentity
  /\ TaskInv /\ AcceptedInv /\ SetupInv /\ IdentityInv /\ EraInv

(* The inductive strengthening of LockoutHolds *)

\* Only the relay task itself starts a lockout, and it then has no command.
UnlockedInv == task.pc # "idle" => ~LockedOut(ring, now)

(* The inductive strengthening of NoCounterReuse *)

\* The counter two envelopes or runs of one phone share is the one stored for
\* their device record, and every counter given out is covered by it.
CounterInv ==
  restores = 0 =>
    /\ \A e \in sent : e.ctr <= stored[e.signer][<<e.dev, e.kid>>]
    /\ \A p \in Phones, t \in Tabs : tab[p][t].pc = "counted" =>
         /\ tab[p][t].ctr <= stored[p][<<tab[p][t].dev, tab[p][t].kid>>]
         /\ \A e \in sent : ~(e.signer = p /\ SameCounter(tab[p][t], e))
         /\ \A u \in Tabs : tab[p][u].pc = "counted" /\ u # t =>
                              ~SameCounter(tab[p][t], tab[p][u])

(* The inductive strengthening of AnswerIsTrue *)

\* An id names one run of one phone and at most one envelope.
IdInv ==
  /\ \A e \in sent : e.id < nextId
  /\ \A d, e \in sent : d.id = e.id => d = e
  /\ \A p \in Phones, t \in Tabs : tab[p][t].pc = "counted" =>
       /\ tab[p][t].id < nextId
       /\ \A e \in sent : e.id # tab[p][t].id
       /\ \A q \in Phones, u \in Tabs :
            tab[q][u].pc = "counted" /\ tab[q][u].id = tab[p][t].id
              => q = p /\ u = t

SentIds == {e.id : e \in sent}

\* The ids of the commands that may still run.
Live == {e.id : e \in net}
        \cup (IF task.pc = "idle" THEN {} ELSE {task.env.id})

\* If nothing is delivered twice, a command that has run or was refused is
\* neither on its way nor in the device's hand.
OnceInv ==
  ~Redeliver =>
    /\ Executed \subseteq SentIds /\ Executed \cap Live = {}
    /\ task.pc # "idle" => \A e \in net : e.id # task.env.id
    /\ \A r \in replies :
         r.err \in Refusals => r.id \in SentIds \ (Executed \cup Live)

AnswerInv ==
  /\ IdInv /\ OnceInv
  /\ \A r \in replies : r.err = "ok" => r.id \in Executed
=============================================================================
