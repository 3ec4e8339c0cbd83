---------------------------- MODULE DeviceObject ----------------------------
(***************************************************************************)
(* The relay's Durable Object for one device (relay/src/device.ts).  It is *)
(* single-threaded, and no event is delivered while it waits for its       *)
(* storage, so an action is a handler up to an await of something else:    *)
(* the device's answer, the release catalog.  Between two actions sockets  *)
(* close, timer and the alarm fire, and the object can be reset.          *)
(*                                                                         *)
(* Every request here carries the token that claimed the device; one that  *)
(* does not is refused before any of this state is read.  Times are kept   *)
(* relative to now, so that Tick makes them smaller; older than the longest*)
(* interval compared is all the same.  Hibernation keeps all of the state: *)
(* it needs no pending request, timer or fetch, and the rest is in storage *)
(* or attached to the sockets.                                             *)
(***************************************************************************)
EXTENDS TokenBucket, FiniteSets

CONSTANTS
  Reqs,           \* POST /v1/send requests that can be under way at a time
  NoReq,
  Ids,            \* command ids
  NoId,
  Regs,           \* update registrations with a newer release in the catalog
  NoReg,
  PendingCap,     \* PENDING_CAP
  UpdateRetry,    \* UPDATE_RETRY_MS
  UpdateRefresh,  \* UPDATE_REFRESH_MS
  MaxGen          \* bound: device sockets accepted

ASSUME ObjectAssumption ==
  /\ NoReq \notin Reqs /\ NoId \notin Ids /\ NoReg \notin Regs
  /\ PendingCap \in Nat /\ MaxGen \in Nat
  /\ UpdateRetry \in Nat /\ UpdateRefresh \in Nat /\ UpdateRetry <= UpdateRefresh

VARIABLES
  \* --- in storage
  gen,       \* generation of the newest socket, 0 before the first
  since,     \* the transition that DeviceObject.since dates
  alarm,     \* the keepalive alarm is set
  bucket,
  \* --- sockets and what is attached to them
  sock,      \* readyState by generation; "gone": not in getWebSockets()
  att,       \* UpdateAttachment: registration and checked_at
  \* --- memory
  pending,   \* command id -> the request that waits for it
  timer,     \* the id each request's response timer will delete, if it runs
  checkingUpdate,
  fetch,     \* the catalog fetch under way: socket and registration it is for
  \* --- callers and history
  req,       \* each request: socket it was sent on and answered by
  advice,    \* flips with each update_available, which goes to fetch's socket
  lost       \* the active socket went with a reset, without an event

checkVars  == <<att, checkingUpdate, fetch, advice>>
socketVars == <<gen, since, alarm, sock, lost>>
callVars   == <<bucket, pending, timer, req>>
vars == <<socketVars, checkVars, callVars>>

Gens == 1 .. MaxGen
States == {"none", "open", "closing", "gone"}

NoAtt   == [reg |-> NoReg, checkedAt |-> 0]
NoFetch == [ws |-> 0, reg |-> NoReg]

\* No request, or one that got an error; one that waits; one that was answered.
NoCall    == [out |-> "none", via |-> 0, by |-> 0]
SentOn(g) == [out |-> "waiting", via |-> g, by |-> 0]
AnsweredBy(q, g) == [out |-> "answered", via |-> q.via, by |-> g]

Init ==
  /\ gen = 0 /\ since = "never" /\ alarm = FALSE /\ lost = FALSE
  /\ bucket = NewBucket(0)
  /\ sock = [g \in Gens |-> "none"] /\ att = [g \in Gens |-> NoAtt]
  /\ pending = [id \in Ids |-> NoReq] /\ timer = [r \in Reqs |-> NoId]
  /\ req = [r \in Reqs |-> NoCall]
  /\ checkingUpdate = FALSE /\ fetch = NoFetch /\ advice = 0

-----------------------------------------------------------------------------
(* Sockets and presence *)

\* activeSocket(): the open socket of the newest generation, or 0.
ActiveAmong(s) == IF gen \in Gens /\ s[gen] = "open" THEN gen ELSE 0
Active == ActiveAmong(sock)

\* Mutant: any close event counts as the device going offline.
MarkPresenceAlways(s) == since' = "offline" /\ alarm' = FALSE

\* markPresence(), with s the sockets it finds.
MarkPresence(s) ==
  IF ActiveAmong(s) = 0 THEN since' = "offline" /\ alarm' = FALSE
  ELSE UNCHANGED <<since, alarm>>

\* Mutant: a socket found dead is closed without a look at presence.
SocketGoneSilent(g) ==
  /\ sock' = [sock EXCEPT ![g] = "closing"]
  /\ UNCHANGED <<gen, lost, since, alarm>>

\* onSocketGone(): close a socket that a send found dead.
SocketGone(g) ==
  /\ sock' = [sock EXCEPT ![g] = "closing"]
  /\ MarkPresence(sock')
  /\ UNCHANGED <<gen, lost>>

\* handleUpgrade(): the newcomer wins.  A socket that is told to close lingers
\* until its peer has answered.
Upgrade ==
  /\ gen < MaxGen
  /\ gen' = gen + 1
  /\ sock' = [g \in Gens |-> IF g = gen + 1 THEN "open"
                             ELSE IF sock[g] = "open" THEN "closing" ELSE sock[g]]
  /\ since' = "online" /\ alarm' = TRUE /\ lost' = FALSE
  /\ UNCHANGED <<checkVars, callVars>>

\* webSocketClose(), webSocketError(): perhaps long after the socket was
\* superseded.
SocketClosed(g) ==
  /\ sock[g] \in {"open", "closing"}
  /\ sock' = [sock EXCEPT ![g] = "gone"]
  /\ MarkPresence(sock')
  /\ UNCHANGED <<gen, lost, checkVars, callVars>>

-----------------------------------------------------------------------------
(* Requests *)

Waiting(r) == req[r].out = "waiting"
InFlight   == {id \in Ids : pending[id] # NoReq}

\* Mutant: a second command under an id that is waiting takes its place.
RefusedNotDuplicate(id) ==
  \/ ~Allowed(bucket, 0) \/ Active = 0 \/ Cardinality(InFlight) >= PendingCap

\* Why handleSend() turns a command away, in the order it looks.
Refused(id) ==
  \/ ~Allowed(bucket, 0)                   \* rate_limited
  \/ Active = 0                            \* device_offline
  \/ Cardinality(InFlight) >= PendingCap   \* too_many_pending
  \/ pending[id] # NoReq                   \* duplicate_id

\* handleSend() of a well-formed body, up to the wait for the answer; a request
\* that has ended can be followed by another.
HandleSend(r, id) ==
  /\ ~Waiting(r) /\ timer[r] = NoId
  /\ bucket' = Consume(bucket, 0)
  /\ UNCHANGED checkVars
  /\ \/ /\ Refused(id)
        /\ req' = [req EXCEPT ![r] = NoCall]
        /\ UNCHANGED <<pending, timer, socketVars>>
     \/ /\ ~Refused(id)
        /\ req' = [req EXCEPT ![r] = SentOn(Active)]
        /\ pending' = [pending EXCEPT ![id] = r]
        /\ timer' = [timer EXCEPT ![r] = id]
        /\ UNCHANGED socketVars
     \/ /\ ~Refused(id)  \* ws.send() throws
        /\ req' = [req EXCEPT ![r] = NoCall]
        /\ SocketGone(Active)
        /\ UNCHANGED <<pending, timer>>

\* Mutant: frames of a socket that lingers count as the device's.
SpeaksAny(g) == sock[g] \in {"open", "closing"}

\* webSocketMessage(): only the active socket speaks for the device.
Speaks(g) == g = Active

\* Mutant: the answer ends the wait, not the timer.
AnswerKeepsTimer(g, id) ==
  /\ sock[g] \in {"open", "closing"} /\ Speaks(g)
  /\ pending[id] # NoReq
  /\ req' = [req EXCEPT ![pending[id]] = AnsweredBy(@, g)]
  /\ pending' = [pending EXCEPT ![id] = NoReq]
  /\ UNCHANGED <<bucket, timer, socketVars, checkVars>>

\* The device answers a command that is waited for; any other id is dropped.
\* The waiting handleSend() goes on before the next event and stops its timer.
Answer(g, id) ==
  /\ sock[g] \in {"open", "closing"} /\ Speaks(g)
  /\ pending[id] # NoReq
  /\ req' = [req EXCEPT ![pending[id]] = AnsweredBy(@, g)]
  /\ timer' = [timer EXCEPT ![pending[id]] = NoId]
  /\ pending' = [pending EXCEPT ![id] = NoReq]
  /\ UNCHANGED <<bucket, socketVars, checkVars>>

\* The timer deletes whatever waits under its id, then settles its own caller.
ResponseTimeout(r) ==
  /\ timer[r] # NoId
  /\ timer' = [timer EXCEPT ![r] = NoId]
  /\ pending' = [pending EXCEPT ![timer[r]] = NoReq]
  /\ req' = IF pending[timer[r]] # NoReq /\ Waiting(r)
            THEN [req EXCEPT ![r] = NoCall] ELSE req
  /\ UNCHANGED <<bucket, socketVars, checkVars>>

-----------------------------------------------------------------------------
(* Update checks and the alarm *)

\* checkUpdate() with the attachments a, up to the fetch.
CheckUpdate(g, a, interval) ==
  IF a[g].reg # NoReg /\ ~checkingUpdate /\ 0 - a[g].checkedAt >= interval
  THEN /\ att' = [a EXCEPT ![g].checkedAt = 0]
       /\ checkingUpdate' = TRUE /\ fetch' = [ws |-> g, reg |-> a[g].reg]
  ELSE att' = a /\ UNCHANGED <<checkingUpdate, fetch>>

\* A hello that registers the device for updates; checked_at is kept from an
\* earlier one of this socket.
Hello(g, reg) ==
  /\ sock[g] \in {"open", "closing"} /\ Speaks(g)
  /\ LET old == att[g]
         new == [reg |-> reg, checkedAt |-> IF old.reg = NoReg
                                            THEN -UpdateRefresh ELSE old.checkedAt]
     IN  CheckUpdate(g, [att EXCEPT ![g] = new], UpdateRetry)
  /\ UNCHANGED <<advice, socketVars, callVars>>

\* Mutant: the flag is left set when the socket was superseded meanwhile.
FetchEndsIfCurrent ==
  checkingUpdate' = (fetch.ws # Active) /\ fetch' = NoFetch

\* The finally of checkUpdate().
FetchEnds == checkingUpdate' = FALSE /\ fetch' = NoFetch

\* The socket and its registration are still those the check was for.
StillWanted == fetch.ws = Active /\ att[fetch.ws].reg = fetch.reg

\* The catalog has a newer release and the advisory is sent.  The attachment is
\* written back as the check found it: nothing else writes checked_at.
CatalogServes ==
  /\ fetch # NoFetch /\ StillWanted
  /\ FetchEnds
  /\ advice' = 1 - advice
  /\ UNCHANGED <<att, socketVars, callVars>>

\* It has none, fails, is cut off after 5 s, the advisory cannot be sent, or it
\* is not wanted any more.
CatalogEnds ==
  /\ fetch # NoFetch
  /\ FetchEnds
  /\ UNCHANGED <<att, advice, socketVars, callVars>>

\* alarm(): the keepalive frame, the next alarm, the periodic update check.
Keepalive ==
  /\ alarm /\ Active # 0
  /\ alarm' = TRUE
  /\ CheckUpdate(Active, att, UpdateRefresh)
  /\ UNCHANGED <<gen, since, sock, lost, advice, callVars>>

KeepaliveFails ==
  /\ alarm /\ Active # 0
  /\ SocketGone(Active)
  /\ UNCHANGED <<checkVars, callVars>>

\* Nobody is there: the alarm is not set again.
AlarmIdle ==
  /\ alarm /\ Active = 0
  /\ alarm' = FALSE
  /\ UNCHANGED <<gen, since, sock, lost, checkVars, callVars>>

-----------------------------------------------------------------------------
(* Resets and time *)

\* A new version, a failure of the machine or an exception in a handler: the
\* memory and the sockets are gone, without close events.
Reset ==
  /\ sock' = [g \in Gens |-> IF sock[g] = "none" THEN "none" ELSE "gone"]
  /\ lost' = (lost \/ Active # 0)
  /\ att' = [g \in Gens |-> NoAtt]
  /\ pending' = [id \in Ids |-> NoReq] /\ timer' = [r \in Reqs |-> NoId]
  /\ FetchEnds
  /\ req' = [r \in Reqs |-> IF Waiting(r) THEN NoCall ELSE req[r]]
  /\ UNCHANGED <<gen, since, alarm, bucket, advice>>

Older(t, most) == IF t > -most THEN t - 1 ELSE t

Tick ==
  /\ bucket' = [bucket EXCEPT !.updated = Older(@, Full)]
  /\ att' = [g \in Gens |-> IF att[g].reg = NoReg THEN att[g] ELSE
                [att[g] EXCEPT !.checkedAt = Older(@, UpdateRefresh)]]
  /\ UNCHANGED <<checkingUpdate, fetch, advice, pending, timer, req, socketVars>>

Next ==
  \/ Upgrade
  \/ \E g \in Gens : SocketClosed(g)
  \/ \E r \in Reqs, id \in Ids : HandleSend(r, id)
  \/ \E g \in Gens, id \in Ids : Answer(g, id)
  \/ \E r \in Reqs : ResponseTimeout(r)
  \/ \E g \in Gens, reg \in Regs : Hello(g, reg)
  \/ CatalogServes \/ CatalogEnds
  \/ Keepalive \/ KeepaliveFails \/ AlarmIdle
  \/ Reset \/ Tick

Spec == Init /\ [][Next]_vars

\* Time passes; timer and alarms fire; a fetch ends within 5 s (FETCH_TIMEOUT_MS)
\* and, tried again and again, finds the release.
FairSpec ==
  /\ Spec
  /\ WF_vars(Tick) /\ WF_vars(Keepalive) /\ WF_vars(CatalogEnds)
  /\ SF_vars(CatalogServes)
  /\ \A r \in Reqs : WF_vars(ResponseTimeout(r))

-----------------------------------------------------------------------------
(* Properties *)

AttType   == [reg : Regs \cup {NoReg}, checkedAt : -UpdateRefresh .. 0]
FetchType == [ws : 0 .. MaxGen, reg : Regs \cup {NoReg}]
CallType  == [out : {"none", "waiting", "answered"}, via : 0 .. MaxGen, by : 0 .. MaxGen]

SocketTypes ==
  /\ gen \in 0 .. MaxGen /\ since \in {"never", "online", "offline"}
  /\ alarm \in BOOLEAN /\ lost \in BOOLEAN /\ sock \in [Gens -> States]

CallTypes ==
  /\ bucket \in BucketType /\ req \in [Reqs -> CallType]
  /\ pending \in [Ids -> Reqs \cup {NoReq}] /\ timer \in [Reqs -> Ids \cup {NoId}]

CheckTypes ==
  /\ att \in [Gens -> AttType] /\ fetch \in FetchType
  /\ checkingUpdate \in BOOLEAN /\ advice \in {0, 1}

TypeOK == SocketTypes /\ CallTypes /\ CheckTypes

\* One socket speaks for the device: superseded ones are never open, and none
\* is newer than the generation in storage (device.ts:96-100).
OneSocket ==
  \A g \in Gens : /\ sock[g] = "open" => g = gen
                  /\ sock[g] = "none" <=> g > gen

\* A device that is connected is being kept alive, through close events of old
\* sockets, failed sends, resets and alarms that came too late (alarm()).
AlarmArmed == Active # 0 => alarm

\* What presence reports as the time of the last transition is that of the last
\* one to the present state, unless a reset took the socket (markPresence()).
PresenceDated == (since = "online") <=> (Active # 0 \/ lost)

\* Every caller that waits is the one its id leads to and has its own timer
\* running, and no id or timer outlives its caller: no answer, timeout or
\* refusal of one request takes another's (handleSend()).
WaitersTimed ==
  /\ \A r \in Reqs : Waiting(r) <=> timer[r] # NoId
  /\ \A r \in Reqs, id \in Ids : pending[id] = r <=> timer[r] = id

\* An answer never comes from a socket older than the one its command was sent
\* on: a device that was superseded cannot answer for its successor.
AnsweredByOwner ==
  \A r \in Reqs : req[r].out = "answered" => req[r].via # 0 /\ req[r].by >= req[r].via

\* checkingUpdate is set exactly while a fetch is under way.
OneFetch == checkingUpdate <=> fetch # NoFetch

\* The inductive invariant, by what its parts are about.
SocketInv == /\ OneSocket /\ AlarmArmed /\ PresenceDated
             /\ lost => \A g \in Gens : sock[g] \in {"none", "gone"}

CallInv == /\ WaitersTimed /\ AnsweredByOwner
           /\ \A r \in Reqs : Waiting(r) => req[r].via \in 1 .. gen

CheckInv == /\ OneFetch
            /\ \A g \in Gens : att[g].reg # NoReg => g <= gen
            /\ fetch # NoFetch => fetch.reg \in Regs /\ fetch.ws \in 1 .. gen

IInv == TypeOK /\ SocketInv /\ CallInv /\ CheckInv

\* The object implements the abstract service of its callers: no superseded
\* socket, late timer, id used again, failed send or reset lets one request end
\* another's wait, or a socket answer what was sent to its successor.
Calls == INSTANCE CallService WITH conn <- gen, up <- Active # 0, wait <- timer, call <- req
ImplementsCalls == Calls!Spec

\* Every caller gets an answer or an error in the end.
RequestsSettle == \A r \in Reqs : Waiting(r) ~> ~Waiting(r)

\* A device that stays connected and registered is told of a newer release, and
\* told again and again (device.ts:276: "Repeat on each bounded refresh").
AdviceRepeats ==
  \A g \in Gens, reg \in Regs :
    <>[](Active = g /\ att[g].reg = reg) => []<><<advice' # advice>>_advice
=============================================================================
