----------------------------- MODULE RelayLink -----------------------------
(***************************************************************************)
(* The device's link to the relay: which of the firmware's tasks may act   *)
(* on which network.  Four of them share s_link under one spinlock:        *)
(*   - the Wi-Fi event task (wifi_station.c, wifi_event_handler),          *)
(*   - the station task, which samples driver and address (station_task),  *)
(*   - the WebSocket client's event task (ws_event_handler),               *)
(*   - the relay task, which owns the client and runs the commands.        *)
(* Each action is one critical section or one stretch of a task between    *)
(* two of them.  Time is abstract: a timeout fires when what it waits for  *)
(* cannot come any more.                                                   *)
(***************************************************************************)
EXTENDS Integers, Sequences

CONSTANTS
  Addrs,       \* addresses the access point may lease
  NoAddr,      \* not associated, or no lease
  QueueDepth,  \* RX_QUEUE_DEPTH
  BackoffCap,  \* doublings from BACKOFF_MIN_MS to BACKOFF_MAX_MS
  MaxSession,  \* largest session number: UINT32_MAX in the code
  MaxFlaps,    \* bound: changes of the address
  MaxFaults,   \* bound: failures of the relay or of a connection
  MaxCmds      \* bound: commands the relay sends

ASSUME LinkAssumption ==
  /\ NoAddr \notin Addrs
  /\ QueueDepth \in Nat /\ BackoffCap \in Nat /\ MaxSession \in Nat \ {0}
  /\ MaxFlaps \in Nat /\ MaxFaults \in Nat /\ MaxCmds \in Nat

VARIABLES
  \* --- the world
  addr,      \* the usable station address
  events,    \* disconnect and lost-IP events not yet delivered
  flaps, faults, cmds,  \* bounds spent
  \* --- Wi-Fi event task and station task
  evPc,      \* "idle" | "fenced": between its two publications
  outage,    \* s_outage_generation
  st,        \* station_task()'s locals
  \* --- shared state
  link,      \* s_link
  queue,     \* s_rx_queue
  \* --- the client and its event task
  client,    \* the WebSocket client and the session its handler is bound to
  cb,        \* a data callback between its critical section and the queue
  \* --- relay task
  rt,        \* [pc, session, msg, backoff]
  lastSession, \* s_next_session
  ran,       \* commands dispatched
  fences     \* history: publications of a lost network

wifiVars == <<addr, events, flaps>>
evVars   == <<evPc, outage>>
vars == <<wifiVars, faults, cmds, evVars, st, link, queue, client, cb, rt,
          lastSession, ran, fences>>

NoMsg    == [session |-> 0, epoch |-> 0]
NoClient == [session |-> 0, sock |-> "none", addr |-> NoAddr]
NoCb     == [pc |-> "idle", msg |-> NoMsg]

-----------------------------------------------------------------------------
(* The shared link state *)

SessionValid(s) ==
  /\ s # 0 /\ link.session = s
  /\ link.netUp /\ link.sessionGen = link.gen
  /\ link.connected /\ ~link.failed

Failed(l) == [l EXCEPT !.connected = FALSE, !.ready = FALSE, !.failed = TRUE]

\* rw_relay_notify_network()
NotifyNetwork(up) ==
  /\ LET l == [link EXCEPT !.gen = IF link.netUp # up THEN @ + 1 ELSE @,
                           !.netUp = up]
     IN  link' = IF up THEN l ELSE Failed(l)
  /\ fences' = IF up THEN fences ELSE fences + 1

-----------------------------------------------------------------------------
(* Wi-Fi: the driver, its events, the station task *)

\* The association or the lease goes; the event may come late or never.
WifiDrop ==
  /\ addr # NoAddr /\ flaps < MaxFlaps
  /\ addr' = NoAddr /\ flaps' = flaps + 1
  /\ events' \in {events, events + 1}
  /\ UNCHANGED <<faults, cmds, evVars, st, link, queue, client, cb, rt,
                 lastSession, ran, fences>>

\* The access point leases an address, perhaps another one at once.
WifiLease(a) ==
  /\ addr # a /\ flaps < MaxFlaps
  /\ addr' = a /\ flaps' = flaps + 1
  /\ UNCHANGED <<events, faults, cmds, evVars, st, link, queue, client, cb, rt,
                 lastSession, ran, fences>>

\* wifi_event_handler(): fence first, then publish the outage.
EventFence ==
  /\ evPc = "idle" /\ events > 0
  /\ NotifyNetwork(FALSE)
  /\ evPc' = "fenced" /\ events' = events - 1
  /\ UNCHANGED <<addr, flaps, faults, cmds, outage, st, queue, client, cb, rt,
                 lastSession, ran>>

EventPublish ==
  /\ evPc = "fenced"
  /\ outage' = outage + 1
  /\ evPc' = "idle"
  /\ UNCHANGED <<wifiVars, faults, cmds, st, link, queue, client, cb, rt,
                 lastSession, ran, fences>>

\* station_task(): the generation is read before the driver is sampled.
StationRead ==
  /\ st.pc = "read"
  /\ st' = [st EXCEPT !.pc = "sample", !.outage = outage]
  /\ UNCHANGED <<wifiVars, faults, cmds, evVars, link, queue, client, cb, rt,
                 lastSession, ran, fences>>

\* Mutant: an outage the events published is not looked at.
StationSampleNoOutage ==
  /\ st.pc = "sample"
  /\ LET up    == addr # NoAddr
         moved == up /\ st.netUp /\ addr # st.lastAddr
     IN  st' = [st EXCEPT
           !.pc = IF moved THEN "fence"
                  ELSE IF up # st.netUp THEN "publish" ELSE "read",
           !.up = up, !.lastOutage = st.outage, !.lastAddr = addr,
           !.netUp = IF moved THEN FALSE ELSE up]
  /\ UNCHANGED <<wifiVars, faults, cmds, evVars, link, queue, client, cb, rt,
                 lastSession, ran, fences>>

\* Sample, and decide: an outage since the last pass means the false was
\* published, an address change means the session must go.
StationSample ==
  /\ st.pc = "sample"
  /\ LET up    == addr # NoAddr
         netUp == st.netUp /\ ~(up /\ st.outage # st.lastOutage)
         moved == up /\ netUp /\ addr # st.lastAddr
     IN  st' = [st EXCEPT
           !.pc = IF moved THEN "fence"
                  ELSE IF up # netUp THEN "publish" ELSE "read",
           !.up = up, !.lastOutage = st.outage, !.lastAddr = addr,
           !.netUp = IF moved THEN FALSE ELSE up]
  /\ UNCHANGED <<wifiVars, faults, cmds, evVars, link, queue, client, cb, rt,
                 lastSession, ran, fences>>

StationFence ==
  /\ st.pc = "fence"
  /\ NotifyNetwork(FALSE)
  /\ st' = [st EXCEPT !.pc = "publish", !.netUp = TRUE]
  /\ UNCHANGED <<wifiVars, faults, cmds, evVars, queue, client, cb, rt,
                 lastSession, ran>>

StationPublish ==
  /\ st.pc = "publish"
  /\ NotifyNetwork(st.up)
  /\ st' = [st EXCEPT !.pc = "read"]
  /\ UNCHANGED <<wifiVars, faults, cmds, evVars, queue, client, cb, rt,
                 lastSession, ran>>

-----------------------------------------------------------------------------
(* The WebSocket client *)

\* A callback acts on the link only for the session it was registered with.
Current ==
  /\ client.session # 0 /\ link.session = client.session
  /\ link.netUp /\ link.sessionGen = link.gen /\ ~link.failed

\* The relay is reached over the address the client was started with.
Reachable == client.addr = addr /\ addr # NoAddr

WsConnected ==
  /\ client.sock = "connecting" /\ Reachable
  /\ client' = [client EXCEPT !.sock = "open"]
  /\ link' = IF Current THEN [link EXCEPT !.connected = TRUE, !.superseded = FALSE]
             ELSE link
  /\ UNCHANGED <<wifiVars, faults, cmds, evVars, st, queue, cb, rt,
                 lastSession, ran, fences>>

\* A command frame: the critical section, which also says when it came.
WsData ==
  /\ client.sock = "open" /\ cb.pc = "idle" /\ cmds < MaxCmds
  /\ cmds' = cmds + 1
  /\ cb' = IF Current
           THEN [pc |-> "queue",
                 msg |-> [session |-> client.session, epoch |-> fences]]
           ELSE cb
  /\ UNCHANGED <<wifiVars, faults, evVars, st, link, queue, client, rt,
                 lastSession, ran, fences>>

\* ...and the rest of the callback: a valid session queues, a full queue drops.
WsQueue ==
  /\ cb.pc = "queue"
  /\ queue' = IF SessionValid(cb.msg.session) /\ Len(queue) < QueueDepth
              THEN Append(queue, cb.msg) ELSE queue
  /\ cb' = NoCb
  /\ UNCHANGED <<wifiVars, faults, cmds, evVars, st, link, client, rt,
                 lastSession, ran, fences>>

\* The relay closes: DISCONNECTED, ERROR, CLOSED or a close frame, which has
\* code 4001 when another socket took the device over.
WsClosed ==
  /\ client.sock \in {"connecting", "open"} /\ cb.pc = "idle"
  /\ faults < MaxFaults
  /\ faults' = faults + 1
  /\ client' = [client EXCEPT !.sock = "dead"]
  /\ \/ link' = IF Current THEN Failed(link) ELSE link
     \/ /\ client.sock = "open"
        /\ link' = IF Current /\ link.connected
                   THEN [Failed(link) EXCEPT !.superseded = TRUE] ELSE link
  /\ UNCHANGED <<wifiVars, cmds, evVars, st, queue, cb, rt, lastSession, ran,
                 fences>>

\* The connection dies without an event: no answer, no data, no close.
WsDies ==
  /\ client.sock \in {"connecting", "open"} /\ faults < MaxFaults
  /\ faults' = faults + 1
  /\ client' = [client EXCEPT !.sock = "dead"]
  /\ UNCHANGED <<wifiVars, cmds, evVars, st, link, queue, cb, rt, lastSession,
                 ran, fences>>

\* Nothing will come over this connection any more.
Silent == client.sock = "dead" \/ ~Reachable

-----------------------------------------------------------------------------
(* The relay task *)

Goto(pc) == rt' = [rt EXCEPT !.pc = pc]

At(pc) == rt.pc = pc

\* The loop's head only looks at net_up; what follows reads the URL.
RelayTop ==
  /\ At("top") /\ link.netUp
  /\ Goto("begin")
  /\ UNCHANGED <<wifiVars, faults, cmds, evVars, st, link, queue, client, cb,
                 lastSession, ran, fences>>

\* The session counter wraps, and no session is 0.
NextSession == IF lastSession = MaxSession THEN 1 ELSE lastSession + 1

\* begin_session() and drain_queue().
RelayBegin ==
  /\ At("begin")
  /\ lastSession' = NextSession
  /\ link' = [link EXCEPT !.session = NextSession, !.sessionGen = link.gen,
                          !.connected = FALSE, !.ready = FALSE,
                          !.failed = ~link.netUp, !.superseded = FALSE]
  /\ queue' = <<>>
  /\ rt' = [rt EXCEPT !.pc = "start", !.session = NextSession]
  /\ UNCHANGED <<wifiVars, faults, cmds, evVars, st, client, cb, ran, fences>>

RelayStart ==
  /\ At("start")
  /\ \/ /\ client' = [session |-> rt.session, sock |-> "connecting", addr |-> addr]
        /\ Goto("wait")
        /\ UNCHANGED faults
     \/ /\ faults < MaxFaults              \* esp_websocket_client_init fails
        /\ faults' = faults + 1
        /\ Goto("backoff")
        /\ UNCHANGED client
     \/ /\ faults < MaxFaults              \* register_events or start fails
        /\ faults' = faults + 1
        /\ Goto("fence")
        /\ UNCHANGED client
  /\ UNCHANGED <<wifiVars, cmds, evVars, st, link, queue, cb, lastSession, ran,
                 fences>>

\* The handshake wait ends: connected, failed, or 15 s gone for nothing.
RelayHandshake ==
  /\ At("wait")
  /\ link.connected \/ link.failed \/ ~link.netUp \/ Silent
  /\ Goto(IF SessionValid(rt.session) THEN "hello" ELSE "fence")
  /\ UNCHANGED <<wifiVars, faults, cmds, evVars, st, link, queue, client, cb,
                 lastSession, ran, fences>>

\* ws_send_text(): refused on an invalid session; a dead connection may take
\* the bytes, be refused, or fail the link with an incomplete send.
RelayHello ==
  /\ At("hello")
  /\ \/ ~SessionValid(rt.session) /\ Goto("fence") /\ UNCHANGED link
     \/ SessionValid(rt.session) /\ Goto("ready") /\ UNCHANGED link
     \/ /\ SessionValid(rt.session) /\ Silent
        /\ Goto("fence") /\ link' \in {link, Failed(link)}
  /\ UNCHANGED <<wifiVars, faults, cmds, evVars, st, queue, client, cb,
                 lastSession, ran, fences>>

\* Mutant: ready without looking at the link again after the hello.
RelayReadyUnchecked ==
  /\ At("ready")
  /\ link' = [link EXCEPT !.ready = TRUE]
  /\ rt' = [rt EXCEPT !.pc = "loop", !.backoff = 0]
  /\ UNCHANGED <<wifiVars, faults, cmds, evVars, st, queue, client, cb,
                 lastSession, ran, fences>>

RelayReady ==
  /\ At("ready")
  /\ link' = [link EXCEPT !.ready = @ \/ (/\ link.session = rt.session
                                          /\ link.netUp /\ ~link.failed)]
  /\ rt' = [rt EXCEPT !.pc = "loop", !.backoff = 0]
  /\ UNCHANGED <<wifiVars, faults, cmds, evVars, st, queue, client, cb,
                 lastSession, ran, fences>>

\* Mutant: the queue is peeked at.
RelayDequeuePeek ==
  /\ At("loop") /\ queue # <<>>
  /\ IF Head(queue).session = rt.session /\ SessionValid(Head(queue).session)
     THEN rt' = [rt EXCEPT !.pc = "verify", !.msg = Head(queue)]
     ELSE UNCHANGED rt
  /\ UNCHANGED <<wifiVars, faults, cmds, evVars, st, link, queue, client, cb,
                 lastSession, ran, fences>>

\* A message queued before an IP loss is dropped here...
RelayDequeue ==
  /\ At("loop") /\ queue # <<>>
  /\ queue' = Tail(queue)
  /\ IF Head(queue).session = rt.session /\ SessionValid(Head(queue).session)
     THEN rt' = [rt EXCEPT !.pc = "verify", !.msg = Head(queue)]
     ELSE UNCHANGED rt
  /\ UNCHANGED <<wifiVars, faults, cmds, evVars, st, link, client, cb,
                 lastSession, ran, fences>>

\* Mutant: a verified command runs whatever became of its session.
RelayDispatchUnchecked ==
  /\ At("verify")
  /\ ran' = ran + 1
  /\ rt' = [rt EXCEPT !.pc = "loop", !.msg = NoMsg]
  /\ UNCHANGED <<wifiVars, faults, cmds, evVars, st, link, queue, client, cb,
                 lastSession, fences>>

\* ...and one whose verification outlasted its session, here.
RelayDispatch ==
  /\ At("verify")
  /\ ran' = IF SessionValid(rt.msg.session) THEN ran + 1 ELSE ran
  /\ rt' = [rt EXCEPT !.pc = "loop", !.msg = NoMsg]
  /\ UNCHANGED <<wifiVars, faults, cmds, evVars, st, link, queue, client, cb,
                 lastSession, fences>>

\* Mutant: no silence limit.
RelayExitNoSilence ==
  /\ At("loop") /\ ~SessionValid(rt.session)
  /\ rt' = [rt EXCEPT !.pc = "fence",
                      !.backoff = IF link.superseded THEN BackoffCap ELSE @]
  /\ UNCHANGED <<wifiVars, faults, cmds, evVars, st, link, queue, client, cb,
                 lastSession, ran, fences>>

\* The serving loop ends: the session is gone, a probe cannot be sent, or
\* nothing was received for RX_SILENCE_MS.
RelayExit ==
  /\ At("loop")
  /\ \/ ~SessionValid(rt.session) /\ UNCHANGED link
     \/ Silent /\ link' \in {link, Failed(link)}
  /\ rt' = [rt EXCEPT !.pc = "fence",
                      !.backoff = IF link'.superseded THEN BackoffCap ELSE @]
  /\ UNCHANGED <<wifiVars, faults, cmds, evVars, st, queue, client, cb,
                 lastSession, ran, fences>>

\* teardown_client(): fence the callbacks...
RelayFence ==
  /\ At("fence")
  /\ link' = [Failed(link) EXCEPT !.session = 0]
  /\ Goto("stop")
  /\ UNCHANGED <<wifiVars, faults, cmds, evVars, st, queue, client, cb,
                 lastSession, ran, fences>>

\* ...stop and destroy the client, which joins its task, then drain.
RelayStop ==
  /\ At("stop") /\ cb.pc = "idle"
  /\ client' = NoClient
  /\ queue' = <<>>
  /\ Goto("backoff")
  /\ UNCHANGED <<wifiVars, faults, cmds, evVars, st, link, cb, lastSession, ran,
                 fences>>

RelayBackoff ==
  /\ At("backoff")
  /\ rt' = [rt EXCEPT !.pc = "top",
                      !.backoff = IF @ < BackoffCap THEN @ + 1 ELSE BackoffCap]
  /\ UNCHANGED <<wifiVars, faults, cmds, evVars, st, link, queue, client, cb,
                 lastSession, ran, fences>>

-----------------------------------------------------------------------------
(* The specification *)

Init ==
  /\ addr = NoAddr /\ events = 0 /\ flaps = 0 /\ faults = 0 /\ cmds = 0
  /\ evPc = "idle" /\ outage = 0
  /\ st = [pc |-> "read", outage |-> 0, lastOutage |-> 0, up |-> FALSE,
           netUp |-> FALSE, lastAddr |-> NoAddr]
  /\ link = [netUp |-> FALSE, gen |-> 0, session |-> 0, sessionGen |-> 0,
             connected |-> FALSE, ready |-> FALSE, failed |-> FALSE,
             superseded |-> FALSE]
  /\ queue = <<>> /\ client = NoClient /\ cb = NoCb
  /\ rt = [pc |-> "top", session |-> 0, msg |-> NoMsg, backoff |-> 0]
  /\ lastSession = 0 /\ ran = 0 /\ fences = 0

Driver  == WifiDrop \/ \E a \in Addrs : WifiLease(a)
EventTask == EventFence \/ EventPublish
StationTask == StationRead \/ StationSample \/ StationFence \/ StationPublish
Relay == WsConnected \/ WsData \/ WsClosed \/ WsDies
RelayTask ==
  \/ RelayTop \/ RelayBegin \/ RelayStart \/ RelayHandshake \/ RelayHello
  \/ RelayReady \/ RelayDequeue \/ RelayDispatch \/ RelayExit \/ RelayFence
  \/ RelayStop \/ RelayBackoff

Next == Driver \/ EventTask \/ StationTask \/ Relay \/ WsQueue \/ RelayTask

\* The scheduler runs every ready task; a reachable relay accepts.
Fairness ==
  /\ WF_vars(EventTask) /\ WF_vars(StationTask) /\ WF_vars(RelayTask)
  /\ WF_vars(WsQueue) /\ WF_vars(WsConnected)

Spec == Init /\ [][Next]_vars

FairSpec == Spec /\ Fairness

-----------------------------------------------------------------------------
(* Properties *)

Msg == [session : 0..MaxSession, epoch : Nat]

Pcs == {"top", "begin", "start", "wait", "hello", "ready", "loop", "verify",
        "fence", "stop", "backoff"}

StationType == [pc : {"read", "sample", "fence", "publish"}, outage : Nat,
                lastOutage : Nat, up : BOOLEAN, netUp : BOOLEAN,
                lastAddr : Addrs \cup {NoAddr}]
LinkType == [netUp : BOOLEAN, gen : Nat, session : 0..MaxSession,
             sessionGen : Nat, connected : BOOLEAN, ready : BOOLEAN,
             failed : BOOLEAN, superseded : BOOLEAN]
ClientType == [session : 0..MaxSession, addr : Addrs \cup {NoAddr},
               sock : {"none", "connecting", "open", "dead"}]
CbType == [pc : {"idle", "queue"}, msg : Msg]
RelayType == [pc : Pcs, session : 0..MaxSession, msg : Msg, backoff : Nat]

\* The type of the state.
TypeOK ==
  /\ addr \in Addrs \cup {NoAddr}
  /\ events \in Nat /\ flaps \in Nat /\ faults \in Nat /\ cmds \in Nat
  /\ evPc \in {"idle", "fenced"} /\ outage \in Nat
  /\ st \in StationType /\ link \in LinkType
  /\ queue \in Seq(Msg) /\ client \in ClientType /\ cb \in CbType
  /\ rt \in RelayType
  /\ lastSession \in 0..MaxSession /\ ran \in Nat /\ fences \in Nat

\* What the rest of the firmware asks (rw_relay_connected, the self-test of
\* an update): a link that says ready has a live session, on the network that
\* session was opened on, whatever flap came between the hello and the flag.
ReadySound == link.ready => SessionValid(link.session)

\* A session that has not failed belongs to the network as it is now: a lost
\* network fails it for good, even if the address is back before it looks.
SessionFenced ==
  link.session # 0 /\ ~link.failed => link.netUp /\ link.sessionGen = link.gen

\* While it serves, the relay task's session is the link's, and it stays
\* connected until it fails.
Serving ==
  rt.pc \in {"hello", "ready", "loop", "verify"} =>
    /\ link.session = rt.session /\ rt.session # 0
    /\ link.failed \/ link.connected

\* Between two clients there is no callback and no command under way.
NoClientLeft ==
  /\ rt.pc \in {"top", "begin", "start", "backoff"} => client = NoClient
  /\ client = NoClient => cb = NoCb
  /\ cb.pc = "queue" => cb.msg.session = client.session
  /\ cb.pc = "idle" => cb.msg = NoMsg
  /\ rt.pc # "verify" => rt.msg = NoMsg

\* A message of the live session came in on the network as it is now.
OfThisNetwork(m) ==
  m.session # 0 /\ m.session = link.session /\ ~link.failed => m.epoch = fences

MessagesFenced ==
  /\ OfThisNetwork(cb.msg) /\ OfThisNetwork(rt.msg)
  /\ \A i \in 1..Len(queue) : OfThisNetwork(queue[i])

\* The flag is set on a connected session and falls with it.
ReadyConnected ==
  link.ready => link.connected /\ ~link.failed /\ link.session # 0

\* The inductive invariant: what makes the two session checks sufficient.
IInv ==
  /\ TypeOK
  /\ SessionFenced /\ ReadyConnected /\ Serving /\ NoClientLeft
  /\ MessagesFenced

\* "A message queued before IP loss cannot run on its return": from the
\* callback that received it to the handler, no loss of the network was
\* published, however quickly it came back, while the message was queued or
\* its signature verified.
NoStaleDispatch == [][ran' # ran => rt.msg.epoch = fences]_vars

\* The link as the rest of the firmware may rely on it.
Live == SessionValid(link.session)
Unread ==
  IF Live THEN Len(queue) + (IF cb.pc = "queue" THEN 1 ELSE 0)
                          + (IF rt.pc = "verify" THEN 1 ELSE 0)
  ELSE 0

\* The four tasks together implement the abstract link: no callback of a client
\* that was torn down, no reused session number and no command left in the queue
\* or under verification gets from one session into another, or runs twice.
Service == INSTANCE LinkService WITH sent <- cmds, live <- Live, unread <- Unread
ImplementsLink == Service!Spec

\* A session that has not failed has all that is under way to itself.
InboxInv ==
  /\ rt.pc \in {"start", "wait", "hello", "ready", "loop", "verify"} =>
       link.session = rt.session
  /\ rt.pc = "verify" => rt.msg.session = rt.session
  /\ rt.pc = "stop" => link.session = 0
  /\ link.session # 0 /\ ~link.failed =>
       /\ client = NoClient \/ client.session = link.session
       /\ client.sock = "open" => link.connected
       /\ \A i \in 1..Len(queue) : queue[i].session = link.session
       /\ ~link.connected => queue = <<>> /\ cb.pc = "idle"

\* The relay client learns what the network has become, however a flap, its
\* late or missing event and the station's sampling interleave.
NetworkConverges ==
  /\ <>[](addr # NoAddr) => <>[]link.netUp
  /\ <>[](addr = NoAddr) => <>[]~link.netUp

\* Once the address and the relay stay, the device ends up connected over that
\* address and stays so: no fence, failed or silent connection strands it.
LinkRecovers ==
  <>[](addr # NoAddr) => <>[](link.ready /\ client.sock = "open" /\ Reachable)
=============================================================================
