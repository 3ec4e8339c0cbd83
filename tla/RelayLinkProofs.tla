-------------------------- MODULE RelayLinkProofs --------------------------
(***************************************************************************)
(* Proofs about RelayLink, for any addresses, queue depth, number of flaps *)
(* and faults, and any width of the session counter: a message is let      *)
(* through to its handler only on the network it came in on, a link that   *)
(* says ready has a live session, and the tasks implement LinkService.     *)
(***************************************************************************)
EXTENDS RelayLink, TLAPS

LEMMA FailedType ==
  ASSUME link \in LinkType
  PROVE  /\ Failed(link) \in LinkType
         /\ [Failed(link) EXCEPT !.superseded = TRUE] \in LinkType
         /\ [Failed(link) EXCEPT !.session = 0] \in LinkType
<1>1. Failed(link) \in LinkType
  BY DEF LinkType, Failed
<1>2. [Failed(link) EXCEPT !.superseded = TRUE] \in LinkType
  BY <1>1 DEF LinkType
<1>3. 0 \in 0..MaxSession
  BY LinkAssumption
<1>4. [Failed(link) EXCEPT !.session = 0] \in LinkType
  BY <1>1, <1>3 DEF LinkType
<1> QED
  BY <1>1, <1>2, <1>4

LEMMA NoMsgType == NoMsg \in Msg /\ NoCb \in CbType
BY LinkAssumption DEF NoMsg, NoCb, Msg, CbType

LEMMA NotifyType ==
  ASSUME link \in LinkType, fences \in Nat, NEW up \in BOOLEAN, NotifyNetwork(up)
  PROVE  link' \in LinkType /\ fences' \in Nat
<1> DEFINE l == [link EXCEPT !.gen = IF link.netUp # up THEN @ + 1 ELSE @,
                             !.netUp = up]
<1>1. l \in LinkType
  <2>1. link.gen + 1 \in Nat
    BY DEF LinkType
  <2>2. (IF link.netUp # up THEN link.gen + 1 ELSE link.gen) \in Nat
    BY <2>1 DEF LinkType
  <2> QED
    BY <2>2 DEF LinkType
<1>2. Failed(l) \in LinkType
  BY <1>1 DEF LinkType, Failed
<1> QED
  BY <1>1, <1>2 DEF NotifyNetwork

LEMMA GotoType ==
  ASSUME rt \in RelayType, NEW pc \in Pcs, Goto(pc)
  PROVE  rt' \in RelayType
BY DEF RelayType, Goto

\* The station task's, the event task's and the driver's steps keep the types.
LEMMA TypedNetwork ==
  ASSUME TypeOK, Driver \/ EventTask \/ StationTask
  PROVE  TypeOK'
<1>1. CASE Driver
  BY <1>1 DEF TypeOK, Driver, WifiDrop, WifiLease, evVars
<1>2. CASE EventFence
  <2>1. events' \in Nat
    BY <1>2 DEF TypeOK, EventFence
  <2>2. link' \in LinkType /\ fences' \in Nat
    BY <1>2, NotifyType DEF TypeOK, EventFence
  <2> QED
    BY <1>2, <2>1, <2>2 DEF TypeOK, EventFence
<1>3. CASE EventPublish
  BY <1>3 DEF TypeOK, EventPublish, wifiVars
<1>4. CASE StationRead
  <2>1. st' \in StationType
    BY <1>4 DEF TypeOK, StationRead, StationType
  <2> QED
    BY <1>4, <2>1 DEF TypeOK, StationRead, wifiVars, evVars
<1>5. CASE StationSample
  <2>1. st' \in StationType
    BY <1>5 DEF TypeOK, StationSample, StationType
  <2> QED
    BY <1>5, <2>1 DEF TypeOK, StationSample, wifiVars, evVars
<1>6. CASE StationFence
  <2>1. st' \in StationType
    BY <1>6 DEF TypeOK, StationFence, StationType
  <2> QED
    BY <1>6, <2>1, NotifyType DEF TypeOK, StationFence, wifiVars, evVars
<1>7. CASE StationPublish
  <2>1. st' \in StationType /\ st.up \in BOOLEAN
    BY <1>7 DEF TypeOK, StationPublish, StationType
  <2> QED
    BY <1>7, <2>1, NotifyType DEF TypeOK, StationPublish, wifiVars, evVars
<1> QED
  BY <1>1, <1>2, <1>3, <1>4, <1>5, <1>6, <1>7 DEF EventTask, StationTask

LEMMA TypedClient ==
  ASSUME TypeOK, Relay \/ WsQueue
  PROVE  TypeOK'
<1>1. CASE WsConnected
  <2>1. client' \in ClientType
    BY <1>1 DEF TypeOK, WsConnected, ClientType
  <2>2. link' \in LinkType
    BY <1>1 DEF TypeOK, WsConnected, LinkType
  <2> QED
    BY <1>1, <2>1, <2>2 DEF TypeOK, WsConnected, wifiVars, evVars
<1>2. CASE WsData
  <2>1. cb' \in CbType
    BY <1>2 DEF TypeOK, WsData, ClientType, CbType, Msg
  <2> QED
    BY <1>2, <2>1 DEF TypeOK, WsData, wifiVars, evVars
<1>3. CASE WsClosed
  <2>1. client' \in ClientType
    BY <1>3 DEF TypeOK, WsClosed, ClientType
  <2>2. link' \in LinkType
    BY <1>3, FailedType DEF TypeOK, WsClosed
  <2> QED
    BY <1>3, <2>1, <2>2 DEF TypeOK, WsClosed, wifiVars, evVars
<1>4. CASE WsDies
  <2>1. client' \in ClientType
    BY <1>4 DEF TypeOK, WsDies, ClientType
  <2> QED
    BY <1>4, <2>1 DEF TypeOK, WsDies, wifiVars, evVars
<1>5. CASE WsQueue
  <2>1. cb' \in CbType
    BY <1>5, NoMsgType DEF WsQueue
  <2>2. cb.msg \in Msg
    BY DEF TypeOK, CbType
  <2>3. queue' \in Seq(Msg)
    BY <1>5, <2>2 DEF TypeOK, WsQueue
  <2> QED
    BY <1>5, <2>1, <2>3 DEF TypeOK, WsQueue, wifiVars, evVars
<1> QED
  BY <1>1, <1>2, <1>3, <1>4, <1>5 DEF Relay

LEMMA TypedRelayTask ==
  ASSUME TypeOK, RelayTask
  PROVE  TypeOK'
<1> USE LinkAssumption
<1>1. CASE RelayTop
  BY <1>1, GotoType DEF TypeOK, RelayTop, Pcs, wifiVars, evVars
<1>2. CASE RelayBegin
  <2>1. NextSession \in 0..MaxSession
    BY DEF NextSession, TypeOK
  <2>2. rt' \in RelayType
    BY <1>2, <2>1 DEF TypeOK, RelayBegin, RelayType, Pcs
  <2>3. link' \in LinkType
    BY <1>2, <2>1 DEF TypeOK, RelayBegin, LinkType
  <2> QED
    BY <1>2, <2>1, <2>2, <2>3 DEF TypeOK, RelayBegin, wifiVars, evVars
<1>3. CASE RelayStart
  <2>1. rt.session \in 0..MaxSession
    BY DEF TypeOK, RelayType
  <2>2. client' \in ClientType
    BY <1>3, <2>1 DEF TypeOK, RelayStart, ClientType
  <2>3. rt' \in RelayType
    BY <1>3, GotoType DEF TypeOK, RelayStart, Pcs
  <2>4. faults' \in Nat
    BY <1>3 DEF TypeOK, RelayStart
  <2> QED
    BY <1>3, <2>2, <2>3, <2>4 DEF TypeOK, RelayStart, wifiVars, evVars
<1>4. CASE RelayHandshake
  BY <1>4, GotoType DEF TypeOK, RelayHandshake, Pcs, wifiVars, evVars
<1>5. CASE RelayHello
  <2>1. rt' \in RelayType
    BY <1>5, GotoType DEF TypeOK, RelayHello, Pcs
  <2>2. link' \in LinkType
    BY <1>5, FailedType DEF TypeOK, RelayHello
  <2> QED
    BY <1>5, <2>1, <2>2 DEF TypeOK, RelayHello, wifiVars, evVars
<1>6. CASE RelayReady
  <2>1. rt' \in RelayType
    BY <1>6 DEF TypeOK, RelayReady, RelayType, Pcs
  <2>2. link' \in LinkType
    BY <1>6 DEF TypeOK, RelayReady, LinkType
  <2> QED
    BY <1>6, <2>1, <2>2 DEF TypeOK, RelayReady, wifiVars, evVars
<1>7. CASE RelayDequeue
  <2>1. Head(queue) \in Msg /\ Tail(queue) \in Seq(Msg)
    BY <1>7 DEF TypeOK, RelayDequeue
  <2>2. rt' \in RelayType
    BY <1>7, <2>1 DEF TypeOK, RelayDequeue, RelayType, Pcs
  <2> QED
    BY <1>7, <2>1, <2>2 DEF TypeOK, RelayDequeue, wifiVars, evVars
<1>8. CASE RelayDispatch
  <2>1. rt' \in RelayType
    BY <1>8, NoMsgType DEF TypeOK, RelayDispatch, RelayType, Pcs
  <2> QED
    BY <1>8, <2>1 DEF TypeOK, RelayDispatch, wifiVars, evVars
<1>9. CASE RelayExit
  <2>1. rt' \in RelayType
    BY <1>9 DEF TypeOK, RelayExit, RelayType, Pcs
  <2>2. link' \in LinkType
    BY <1>9, FailedType DEF TypeOK, RelayExit
  <2> QED
    BY <1>9, <2>1, <2>2 DEF TypeOK, RelayExit, wifiVars, evVars
<1>10. CASE RelayFence
  BY <1>10, GotoType, FailedType DEF TypeOK, RelayFence, Pcs, wifiVars, evVars
<1>11. CASE RelayStop
  <2>1. client' \in ClientType
    BY <1>11 DEF RelayStop, NoClient, ClientType
  <2> QED
    BY <1>11, <2>1, GotoType DEF TypeOK, RelayStop, Pcs, wifiVars, evVars
<1>12. CASE RelayBackoff
  <2>1. (IF rt.backoff < BackoffCap THEN rt.backoff + 1 ELSE BackoffCap) \in Nat
    BY DEF TypeOK, RelayType
  <2>2. rt' \in RelayType
    BY <1>12, <2>1 DEF TypeOK, RelayBackoff, RelayType, Pcs
  <2> QED
    BY <1>12, <2>2 DEF TypeOK, RelayBackoff, wifiVars, evVars
<1> QED
  BY <1>1, <1>2, <1>3, <1>4, <1>5, <1>6, <1>7, <1>8, <1>9, <1>10, <1>11, <1>12
     DEF RelayTask

\* Publishing the state of the network keeps the invariant, whichever task
\* does it and whatever it publishes.
LEMMA NotifyKeeps ==
  ASSUME IInv, NEW up \in BOOLEAN, NotifyNetwork(up),
         UNCHANGED <<queue, client, cb, rt>>
  PROVE  /\ SessionFenced' /\ ReadyConnected' /\ Serving' /\ NoClientLeft'
         /\ MessagesFenced'
<1> USE DEF IInv
<1>1. CASE up = FALSE
  <2>1. link'.failed /\ ~link'.ready /\ link'.session = link.session
    BY <1>1 DEF NotifyNetwork, Failed, TypeOK
  <2>2. SessionFenced' /\ ReadyConnected'
    BY <2>1 DEF SessionFenced, ReadyConnected
  <2>3. Serving' /\ NoClientLeft'
    BY <2>1 DEF Serving, NoClientLeft
  <2>4. MessagesFenced'
    BY <2>1 DEF MessagesFenced, OfThisNetwork
  <2> QED
    BY <2>2, <2>3, <2>4
<1>2. CASE up = TRUE
  <2>1. /\ link'.failed = link.failed /\ link'.ready = link.ready
        /\ link'.session = link.session /\ link'.connected = link.connected
        /\ link'.sessionGen = link.sessionGen
        /\ link'.netUp
        /\ link.netUp => link'.gen = link.gen
        /\ fences' = fences
    BY <1>2 DEF NotifyNetwork, TypeOK, LinkType
  <2>2. SessionFenced' /\ ReadyConnected'
    BY <2>1 DEF SessionFenced, ReadyConnected
  <2>3. Serving' /\ NoClientLeft'
    BY <2>1 DEF Serving, NoClientLeft
  <2>4. MessagesFenced'
    BY <2>1 DEF MessagesFenced, OfThisNetwork
  <2> QED
    BY <2>2, <2>3, <2>4
<1> QED
  BY <1>1, <1>2

\* So does failing the session, from a callback or from the relay task.
LEMMA FailKeeps ==
  ASSUME TypeOK, UNCHANGED fences,
         link' \in {Failed(link), [Failed(link) EXCEPT !.superseded = TRUE]}
  PROVE  /\ SessionFenced' /\ ReadyConnected' /\ link'.failed
         /\ link'.session = link.session
<1>1. link'.failed /\ ~link'.ready /\ link'.session = link.session
  BY DEF Failed, TypeOK, LinkType
<1> QED
  BY <1>1 DEF SessionFenced, ReadyConnected

\* Steps of the other tasks and of the connection.
LEMMA CoreNetwork ==
  ASSUME IInv, Driver \/ EventTask \/ StationTask \/ Relay \/ WsQueue
  PROVE  /\ SessionFenced' /\ ReadyConnected' /\ Serving' /\ NoClientLeft'
         /\ MessagesFenced'
<1> USE DEF IInv
<1>1. CASE Driver \/ EventPublish \/ StationRead \/ StationSample
  <2>1. UNCHANGED <<link, queue, client, cb, rt, fences>>
    BY <1>1 DEF Driver, WifiDrop, WifiLease, EventPublish, StationRead,
                StationSample
  <2> QED
    BY <2>1 DEF SessionFenced, ReadyConnected, Serving, NoClientLeft,
                MessagesFenced, OfThisNetwork
<1>2. CASE EventFence \/ StationFence \/ StationPublish
  <2>1. st.up \in BOOLEAN
    BY DEF TypeOK, StationType
  <2>2. NotifyNetwork(FALSE) \/ NotifyNetwork(st.up)
    BY <1>2 DEF EventFence, StationFence, StationPublish
  <2>3. UNCHANGED <<queue, client, cb, rt>>
    BY <1>2 DEF EventFence, StationFence, StationPublish
  <2> QED
    BY <2>1, <2>2, <2>3, NotifyKeeps
<1>3. CASE WsConnected
  <2> USE <1>3 DEF WsConnected
  <2>1. /\ link'.failed = link.failed /\ link'.ready = link.ready
        /\ link'.session = link.session
        /\ link'.netUp = link.netUp /\ link'.gen = link.gen
        /\ link'.sessionGen = link.sessionGen
        /\ link.connected => link'.connected
    BY DEF TypeOK, LinkType
  <2>2. SessionFenced' /\ ReadyConnected' /\ Serving'
    BY <2>1 DEF SessionFenced, ReadyConnected, Serving
  <2>3. client # NoClient /\ client' # NoClient /\ client'.session = client.session
    BY DEF NoClient, TypeOK, ClientType
  <2>4. NoClientLeft'
    BY <2>3 DEF NoClientLeft
  <2>5. MessagesFenced'
    BY <2>1 DEF MessagesFenced, OfThisNetwork
  <2> QED
    BY <2>2, <2>4, <2>5
<1>4. CASE WsData
  <2> USE <1>4 DEF WsData
  <2>1. SessionFenced' /\ ReadyConnected' /\ Serving'
    BY DEF SessionFenced, ReadyConnected, Serving
  <2>2. client # NoClient
    BY DEF NoClient
  <2>3. NoClientLeft'
    BY <2>2 DEF NoClientLeft, TypeOK, CbType
  <2>4. cb' = cb \/ cb'.msg.epoch = fences
    OBVIOUS
  <2>5. MessagesFenced'
    BY <2>4 DEF MessagesFenced, OfThisNetwork
  <2> QED
    BY <2>1, <2>3, <2>5
<1>5. CASE WsClosed
  <2> USE <1>5 DEF WsClosed
  <2>1. client # NoClient /\ client' # NoClient /\ client'.session = client.session
    BY DEF NoClient, TypeOK, ClientType
  <2>2. NoClientLeft'
    BY <2>1 DEF NoClientLeft
  <2>3. CASE link' = link
    <3>1. SessionFenced' /\ ReadyConnected' /\ Serving'
      BY <2>3 DEF SessionFenced, ReadyConnected, Serving
    <3>2. MessagesFenced'
      BY <2>3 DEF MessagesFenced, OfThisNetwork
    <3> QED
      BY <2>2, <3>1, <3>2
  <2>4. CASE link' \in {Failed(link), [Failed(link) EXCEPT !.superseded = TRUE]}
    <3>1. /\ SessionFenced' /\ ReadyConnected' /\ link'.failed
          /\ link'.session = link.session
      BY <2>4, FailKeeps
    <3>2. Serving'
      BY <3>1 DEF Serving
    <3>3. MessagesFenced'
      BY <3>1 DEF MessagesFenced, OfThisNetwork
    <3> QED
      BY <2>2, <3>1, <3>2, <3>3
  <2> QED
    BY <2>2, <2>3, <2>4
<1>6. CASE WsDies
  <2> USE <1>6 DEF WsDies
  <2>1. client # NoClient /\ client' # NoClient /\ client'.session = client.session
    BY DEF NoClient, TypeOK, ClientType
  <2>2. NoClientLeft'
    BY <2>1 DEF NoClientLeft
  <2>3. SessionFenced' /\ ReadyConnected' /\ Serving'
    BY DEF SessionFenced, ReadyConnected, Serving
  <2>4. MessagesFenced'
    BY DEF MessagesFenced, OfThisNetwork
  <2> QED
    BY <2>2, <2>3, <2>4
<1>7. CASE WsQueue
  <2> USE <1>7 DEF WsQueue
  <2>1. SessionFenced' /\ ReadyConnected' /\ Serving'
    BY DEF SessionFenced, ReadyConnected, Serving
  <2>2. NoClientLeft'
    BY DEF NoClientLeft, NoCb
  <2>3. queue \in Seq(Msg) /\ cb.msg \in Msg
    BY DEF TypeOK, CbType
  <2>4. \A i \in 1..Len(queue') :
           \/ i \in 1..Len(queue) /\ queue'[i] = queue[i]
           \/ queue'[i] = cb.msg
    BY <2>3
  <2>5. OfThisNetwork(cb.msg)' /\ OfThisNetwork(rt.msg)'
    BY DEF MessagesFenced, OfThisNetwork, NoCb, NoMsg
  <2>6. \A i \in 1..Len(queue') : OfThisNetwork(queue[i])'
    BY <2>4 DEF MessagesFenced, OfThisNetwork
  <2> QED
    BY <2>1, <2>2, <2>5, <2>6 DEF MessagesFenced
<1> QED
  BY <1>1, <1>2, <1>3, <1>4, <1>5, <1>6, <1>7
     DEF EventTask, StationTask, Relay

\* Steps of the relay task.
LEMMA CoreRelayTask ==
  ASSUME IInv, RelayTask
  PROVE  /\ SessionFenced' /\ ReadyConnected' /\ Serving' /\ NoClientLeft'
         /\ MessagesFenced'
<1> USE DEF IInv
<1>a. link \in LinkType /\ rt \in RelayType /\ queue \in Seq(Msg)
  BY DEF TypeOK
<1>1. CASE RelayTop \/ RelayBackoff
  <2>1. /\ UNCHANGED <<link, queue, client, cb, fences>>
        /\ rt'.pc \in {"top", "begin"} /\ rt.pc \in {"top", "backoff"}
        /\ rt'.msg = rt.msg
    BY <1>1, <1>a DEF RelayTop, RelayBackoff, At, Goto, RelayType
  <2> QED
    BY <2>1 DEF SessionFenced, ReadyConnected, Serving, NoClientLeft,
                MessagesFenced, OfThisNetwork
<1>2. CASE RelayBegin
  <2>1. /\ link'.failed = ~link.netUp /\ link'.sessionGen = link'.gen
        /\ link'.netUp = link.netUp /\ ~link'.ready
        /\ rt'.pc = "start" /\ rt'.msg = NoMsg /\ rt.pc = "begin"
        /\ client' = NoClient /\ client = NoClient /\ cb' = NoCb /\ queue' = <<>>
    BY <1>2, <1>a DEF RelayBegin, At, LinkType, RelayType, NoClientLeft
  <2>2. SessionFenced' /\ ReadyConnected' /\ Serving'
    BY <2>1, <1>a DEF SessionFenced, ReadyConnected, Serving, LinkType
  <2>3. NoClientLeft'
    BY <2>1 DEF NoClientLeft, NoCb
  <2>4. MessagesFenced'
    BY <2>1 DEF MessagesFenced, OfThisNetwork, NoCb, NoMsg
  <2> QED
    BY <2>2, <2>3, <2>4
<1>3. CASE RelayStart
  <2>1. /\ UNCHANGED <<link, queue, cb, fences>>
        /\ rt'.pc \in {"wait", "backoff", "fence"} /\ rt.pc = "start"
        /\ rt'.msg = NoMsg /\ rt.msg = NoMsg
        /\ cb = NoCb /\ client = NoClient
        /\ rt'.pc = "backoff" => client' = client
    BY <1>3, <1>a DEF RelayStart, At, Goto, RelayType, NoClientLeft
  <2>2. NoClientLeft'
    BY <2>1 DEF NoClientLeft, NoCb
  <2>3. SessionFenced' /\ ReadyConnected' /\ Serving' /\ MessagesFenced'
    BY <2>1 DEF SessionFenced, ReadyConnected, Serving, MessagesFenced,
                OfThisNetwork
  <2> QED
    BY <2>2, <2>3
<1>4. CASE RelayHandshake
  <2>1. /\ UNCHANGED <<link, queue, client, cb, fences>>
        /\ rt'.pc \in {"hello", "fence"} /\ rt.pc = "wait"
        /\ rt'.msg = rt.msg /\ rt'.session = rt.session
        /\ rt'.pc = "hello" => SessionValid(rt.session)
    BY <1>4, <1>a DEF RelayHandshake, At, Goto, RelayType
  <2>2. Serving'
    BY <2>1 DEF Serving, SessionValid
  <2>3. SessionFenced' /\ ReadyConnected' /\ NoClientLeft' /\ MessagesFenced'
    BY <2>1 DEF SessionFenced, ReadyConnected, NoClientLeft, MessagesFenced,
                OfThisNetwork
  <2> QED
    BY <2>2, <2>3
<1>5. CASE RelayHello
  <2>1. /\ UNCHANGED <<queue, client, cb, fences>>
        /\ rt'.pc \in {"ready", "fence"} /\ rt.pc = "hello"
        /\ rt'.msg = rt.msg /\ rt'.session = rt.session
        /\ link' = link \/ link' = Failed(link)
    BY <1>5, <1>a DEF RelayHello, At, Goto, RelayType
  <2>2. NoClientLeft'
    BY <2>1 DEF NoClientLeft
  <2>3. CASE link' = link
    BY <2>1, <2>2, <2>3 DEF SessionFenced, ReadyConnected, Serving,
                            MessagesFenced, OfThisNetwork
  <2>4. CASE link' = Failed(link)
    <3>1. /\ SessionFenced' /\ ReadyConnected' /\ link'.failed
          /\ link'.session = link.session
      BY <2>1, <2>4, FailKeeps
    <3> QED
      BY <2>1, <2>2, <3>1 DEF Serving, MessagesFenced, OfThisNetwork
  <2> QED
    BY <2>1, <2>3, <2>4
<1>6. CASE RelayReady
  <2>1. /\ UNCHANGED <<queue, client, cb, fences>>
        /\ rt'.pc = "loop" /\ rt.pc = "ready"
        /\ rt'.msg = rt.msg /\ rt'.session = rt.session
        /\ link'.failed = link.failed /\ link'.session = link.session
        /\ link'.connected = link.connected /\ link'.netUp = link.netUp
        /\ link'.gen = link.gen /\ link'.sessionGen = link.sessionGen
        /\ link'.ready => link.ready \/ ~link.failed
    BY <1>6, <1>a DEF RelayReady, At, LinkType, RelayType
  <2>2. Serving' /\ ReadyConnected'
    BY <2>1 DEF Serving, ReadyConnected
  <2>3. SessionFenced' /\ NoClientLeft' /\ MessagesFenced'
    BY <2>1 DEF SessionFenced, NoClientLeft, MessagesFenced, OfThisNetwork
  <2> QED
    BY <2>2, <2>3
<1>7. CASE RelayDequeue
  <2>1. /\ UNCHANGED <<link, client, cb, fences>> /\ queue # <<>>
        /\ queue' = Tail(queue) /\ rt.pc = "loop"
        /\ rt'.pc \in {"loop", "verify"} /\ rt'.session = rt.session
        /\ \/ rt'.msg = rt.msg /\ rt'.pc = rt.pc
           \/ rt'.msg = Head(queue) /\ rt'.pc = "verify"
    BY <1>7, <1>a DEF RelayDequeue, At, RelayType
  <2>2. SessionFenced' /\ ReadyConnected' /\ Serving' /\ NoClientLeft'
    BY <2>1 DEF SessionFenced, ReadyConnected, Serving, NoClientLeft
  <2>3. \A i \in 1..Len(queue') : i + 1 \in 1..Len(queue)
                                  /\ queue'[i] = queue[i + 1]
    BY <2>1, <1>a
  <2>4. 1 \in 1..Len(queue) /\ Head(queue) = queue[1]
    BY <2>1, <1>a
  <2>5. OfThisNetwork(cb.msg)' /\ OfThisNetwork(rt.msg)'
    BY <2>1, <2>4 DEF MessagesFenced, OfThisNetwork
  <2>6. \A i \in 1..Len(queue') : OfThisNetwork(queue[i])'
    BY <2>1, <2>3 DEF MessagesFenced, OfThisNetwork
  <2> QED
    BY <2>2, <2>5, <2>6 DEF MessagesFenced
<1>8. CASE RelayDispatch
  <2>1. /\ UNCHANGED <<link, queue, client, cb, fences>>
        /\ rt'.pc = "loop" /\ rt.pc = "verify"
        /\ rt'.msg = NoMsg /\ rt'.session = rt.session
    BY <1>8, <1>a DEF RelayDispatch, At, RelayType
  <2>2. SessionFenced' /\ ReadyConnected' /\ Serving' /\ NoClientLeft'
    BY <2>1 DEF SessionFenced, ReadyConnected, Serving, NoClientLeft
  <2>3. MessagesFenced'
    BY <2>1 DEF MessagesFenced, OfThisNetwork, NoMsg
  <2> QED
    BY <2>2, <2>3
<1>9. CASE RelayExit
  <2>1. /\ UNCHANGED <<queue, client, cb, fences>>
        /\ rt'.pc = "fence" /\ rt.pc = "loop" /\ rt'.msg = rt.msg
        /\ link' = link \/ link' = Failed(link)
    BY <1>9, <1>a DEF RelayExit, At, RelayType
  <2>2. NoClientLeft' /\ Serving'
    BY <2>1 DEF NoClientLeft, Serving
  <2>3. CASE link' = link
    BY <2>1, <2>2, <2>3 DEF SessionFenced, ReadyConnected, MessagesFenced,
                            OfThisNetwork
  <2>4. CASE link' = Failed(link)
    <3>1. /\ SessionFenced' /\ ReadyConnected' /\ link'.failed
      BY <2>1, <2>4, FailKeeps
    <3> QED
      BY <2>1, <2>2, <3>1 DEF MessagesFenced, OfThisNetwork
  <2> QED
    BY <2>1, <2>3, <2>4
<1>10. CASE RelayFence
  <2>1. /\ UNCHANGED <<queue, client, cb, fences>>
        /\ rt'.pc = "stop" /\ rt.pc = "fence" /\ rt'.msg = rt.msg
        /\ link'.session = 0 /\ ~link'.ready
    BY <1>10, <1>a DEF RelayFence, At, Goto, RelayType, LinkType, Failed
  <2>2. NoClientLeft' /\ Serving'
    BY <2>1 DEF NoClientLeft, Serving
  <2>3. SessionFenced' /\ ReadyConnected' /\ MessagesFenced'
    BY <2>1 DEF SessionFenced, ReadyConnected, MessagesFenced, OfThisNetwork
  <2> QED
    BY <2>2, <2>3
<1>11. CASE RelayStop
  <2>1. cb = NoCb
    BY <1>11 DEF RelayStop, NoClientLeft, NoCb, TypeOK, CbType
  <2>2. /\ UNCHANGED <<link, cb, fences>> /\ client' = NoClient /\ queue' = <<>>
        /\ rt'.pc = "backoff" /\ rt.pc = "stop" /\ rt'.msg = rt.msg
    BY <1>11, <1>a DEF RelayStop, At, Goto, RelayType
  <2>3. NoClientLeft'
    BY <2>1, <2>2 DEF NoClientLeft, NoCb
  <2>4. SessionFenced' /\ ReadyConnected' /\ Serving'
    BY <2>2 DEF SessionFenced, ReadyConnected, Serving
  <2>5. MessagesFenced'
    BY <2>2 DEF MessagesFenced, OfThisNetwork
  <2> QED
    BY <2>3, <2>4, <2>5
<1> QED
  BY <1>1, <1>2, <1>3, <1>4, <1>5, <1>6, <1>7, <1>8, <1>9, <1>10, <1>11
     DEF RelayTask

\* The fencing invariant holds in every state, under any interleaving.
THEOREM Fencing == Spec => []IInv
<1>1. Init => IInv
  <2> SUFFICES ASSUME Init PROVE IInv
    OBVIOUS
  <2> USE LinkAssumption DEF Init
  <2>1. TypeOK
    <3>1. st \in StationType
      BY DEF StationType
    <3>2. link \in LinkType
      BY DEF LinkType
    <3>3. client \in ClientType
      BY DEF ClientType, NoClient
    <3>4. cb \in CbType
      BY NoMsgType
    <3>5. rt \in RelayType
      BY NoMsgType DEF RelayType, Pcs
    <3> QED
      BY <3>1, <3>2, <3>3, <3>4, <3>5 DEF TypeOK
  <2> QED
    BY <2>1 DEF IInv, SessionFenced, ReadyConnected, Serving, NoClientLeft,
                MessagesFenced, OfThisNetwork, NoCb, NoMsg
<1>2. IInv /\ [Next]_vars => IInv'
  <2> SUFFICES ASSUME IInv, [Next]_vars PROVE IInv'
    OBVIOUS
  <2>1. CASE Driver \/ EventTask \/ StationTask
    BY <2>1, TypedNetwork, CoreNetwork DEF IInv
  <2>2. CASE Relay \/ WsQueue
    BY <2>2, TypedClient, CoreNetwork DEF IInv
  <2>3. CASE RelayTask
    BY <2>3, TypedRelayTask, CoreRelayTask DEF IInv
  <2>4. CASE UNCHANGED vars
    <3>1. TypeOK'
      BY <2>4 DEF IInv, TypeOK, vars, wifiVars, evVars
    <3>2. UNCHANGED <<link, queue, client, cb, rt, fences>>
      BY <2>4 DEF vars
    <3> QED
      BY <3>1, <3>2 DEF IInv, SessionFenced, ReadyConnected, Serving,
                        NoClientLeft, MessagesFenced, OfThisNetwork
  <2> QED
    BY <2>1, <2>2, <2>3, <2>4 DEF Next
<1> QED
  BY <1>1, <1>2, PTL DEF Spec

\* A link that says ready has a live session on the present network.
THEOREM ReadyIsLive == Spec => []ReadySound
<1>1. IInv => ReadySound
  BY DEF IInv, ReadySound, ReadyConnected, SessionFenced, SessionValid
<1> QED
  BY <1>1, Fencing, PTL

\* No command is let through after a loss of the network it came in on.
THEOREM NothingStaleRuns == Spec => NoStaleDispatch
<1>1. IInv /\ [Next]_vars => [ran' # ran => rt.msg.epoch = fences]_vars
  <2> SUFFICES ASSUME IInv, [Next]_vars, ran' # ran
               PROVE  rt.msg.epoch = fences
    OBVIOUS
  <2>1. RelayDispatch
    <3>1. ~(Driver \/ EventTask \/ StationTask)
      BY DEF Driver, WifiDrop, WifiLease, EventTask, EventFence, EventPublish,
             StationTask, StationRead, StationSample, StationFence,
             StationPublish
    <3>2. ~(Relay \/ WsQueue)
      BY DEF Relay, WsConnected, WsData, WsClosed, WsDies, WsQueue
    <3> QED
      BY <3>1, <3>2 DEF Next, vars, RelayTask, RelayTop, RelayBegin, RelayStart,
         RelayHandshake, RelayHello, RelayReady, RelayDequeue, RelayExit,
         RelayFence, RelayStop, RelayBackoff
  <2>2. SessionValid(rt.msg.session)
    BY <2>1 DEF RelayDispatch
  <2> QED
    BY <2>2 DEF IInv, MessagesFenced, OfThisNetwork, SessionValid
<1> QED
  BY <1>1, Fencing, PTL DEF Spec, NoStaleDispatch

-----------------------------------------------------------------------------
(* The link implements the abstract service *)

TaskPcs == {"start", "wait", "hello", "ready", "loop", "verify"}

\* Live, of a state of the invariant, is a session connected and not failed.
LEMMA LiveMeans ==
  ASSUME IInv
  PROVE  Live <=> link.session # 0 /\ link.connected /\ ~link.failed
BY DEF IInv, SessionFenced, Live, SessionValid

LEMMA LiveMeansNext ==
  ASSUME IInv'
  PROVE  Live' <=> link'.session # 0 /\ link'.connected /\ ~link'.failed
BY DEF IInv, SessionFenced, Live, SessionValid

LEMMA UnreadMeans ==
  /\ ~Live => Unread = 0
  /\ Live => Unread = Len(queue) + (IF cb.pc = "queue" THEN 1 ELSE 0)
                                 + (IF rt.pc = "verify" THEN 1 ELSE 0)
BY DEF Unread

LEMMA UnreadNat ==
  ASSUME NEW q \in Seq(Msg), NEW a \in BOOLEAN, NEW b \in BOOLEAN, NEW c \in BOOLEAN
  PROVE  (IF a THEN Len(q) + (IF b THEN 1 ELSE 0) + (IF c THEN 1 ELSE 0) ELSE 0) \in Nat
<1>1. PICK n \in Nat : n = Len(q)
  OBVIOUS
<1>2. PICK x \in Nat : x = IF b THEN 1 ELSE 0
  OBVIOUS
<1>3. PICK y \in Nat : y = IF c THEN 1 ELSE 0
  OBVIOUS
<1>4. n + x + y \in Nat
  OBVIOUS
<1>5. Len(q) + (IF b THEN 1 ELSE 0) + (IF c THEN 1 ELSE 0) \in Nat
  BY ONLY <1>1, <1>2, <1>3, <1>4
<1> QED BY <1>5

\* A session that fails or ends takes everything with it.
LEMMA SessionGoes ==
  ASSUME IInv, IInv', InboxInv, UNCHANGED <<cmds, ran>>,
         link'.failed \/ link'.session = 0,
         rt'.pc = "verify" => rt.pc = "verify" /\ rt'.msg = rt.msg,
         rt'.pc = "stop" => link'.session = 0,
         rt'.pc \in TaskPcs =>
           rt.pc \in TaskPcs /\ rt'.session = rt.session /\ link'.session = link.session
  PROVE  InboxInv' /\ [Service!Next]_(Service!vars)
<1>1. InboxInv'
  BY DEF InboxInv, TaskPcs
<1>2. ~Live' /\ Unread' = 0
  BY LiveMeansNext DEF Unread
<1>3. CASE Live
  BY <1>1, <1>2, <1>3 DEF Service!Next, Service!Lose, Live, SessionValid
<1>4. CASE ~Live
  BY <1>1, <1>2, <1>4, UnreadMeans DEF Service!vars, Live, SessionValid
<1> QED BY <1>3, <1>4

\* What matters of the session stays, and so does what is under way in it.
LEMMA SessionStays ==
  ASSUME IInv, IInv', InboxInv, UNCHANGED <<cmds, ran, queue, cb>>,
         link'.session = link.session, link'.failed = link.failed,
         link'.connected = link.connected,
         \/ client' = client
         \/ client # NoClient /\ client'.session = client.session /\ client'.sock # "open"
         \/ client'.session = link.session /\ client'.sock # "open",
         rt'.pc = "verify" <=> rt.pc = "verify",
         rt'.pc = "verify" => rt'.msg = rt.msg,
         rt'.pc = "stop" => rt.pc = "stop",
         rt'.pc \in TaskPcs => rt.pc \in TaskPcs /\ rt'.session = rt.session
  PROVE  InboxInv' /\ [Service!Next]_(Service!vars)
<1>1. InboxInv'
  BY DEF InboxInv, TaskPcs
<1>2. Live' <=> Live
  BY LiveMeans, LiveMeansNext
<1>3. Unread' = Unread
  BY <1>2 DEF Unread
<1> QED BY <1>1, <1>2, <1>3 DEF Service!vars, Live, SessionValid

LEMMA NotifyService ==
  ASSUME IInv, IInv', InboxInv, NEW up \in BOOLEAN, NotifyNetwork(up),
         UNCHANGED <<cmds, ran, queue, client, cb, rt>>
  PROVE  InboxInv' /\ [Service!Next]_(Service!vars)
<1>1. CASE up
  <2>1. /\ link'.session = link.session /\ link'.failed = link.failed
        /\ link'.connected = link.connected
    BY <1>1 DEF NotifyNetwork, IInv, TypeOK, LinkType
  <2> QED BY <2>1, SessionStays
<1>2. CASE ~up
  <2>1. link'.failed /\ link'.session = link.session
    BY <1>2 DEF NotifyNetwork, Failed, IInv, TypeOK, LinkType
  <2> QED BY <2>1, SessionGoes DEF InboxInv
<1> QED BY <1>1, <1>2

LEMMA NetworkService ==
  ASSUME IInv, IInv', InboxInv, Driver \/ EventTask \/ StationTask
  PROVE  InboxInv' /\ [Service!Next]_(Service!vars)
<1>1. CASE EventFence
  BY <1>1, NotifyService DEF EventFence
<1>2. CASE StationFence
  BY <1>2, NotifyService DEF StationFence
<1>3. CASE StationPublish
  <2>1. st.up \in BOOLEAN
    BY DEF IInv, TypeOK, StationType
  <2> QED BY <1>3, <2>1, NotifyService DEF StationPublish
<1>4. CASE Driver \/ EventPublish \/ StationRead \/ StationSample
  <2>1. UNCHANGED <<cmds, ran, queue, client, cb, rt, link>>
    BY <1>4, Zenon
    DEF Driver, WifiDrop, WifiLease, EventPublish, StationRead, StationSample
  <2> QED BY <2>1, SessionStays
<1> QED BY <1>1, <1>2, <1>3, <1>4 DEF EventTask, StationTask

\* A client that connects finds its session new: nothing is left in it.
LEMMA ConnectedService ==
  ASSUME IInv, IInv', InboxInv, WsConnected
  PROVE  InboxInv' /\ [Service!Next]_(Service!vars)
<1>1. /\ client.sock = "connecting" /\ client' = [client EXCEPT !.sock = "open"]
      /\ link' = IF Current THEN [link EXCEPT !.connected = TRUE, !.superseded = FALSE]
                 ELSE link
      /\ UNCHANGED <<cmds, ran, queue, cb, rt>>
  BY Zenon DEF WsConnected
<1>2. client # NoClient /\ client' # NoClient /\ client'.session = client.session
  BY <1>1 DEF NoClient, IInv, TypeOK, ClientType
<1>3. CASE Current
  <2>1. /\ client.session = link.session /\ link.session # 0 /\ ~link.failed
        /\ link'.connected /\ link'.session = link.session /\ link'.failed = link.failed
    BY <1>1, <1>3 DEF Current, IInv, TypeOK, LinkType
  <2>2. InboxInv'
    BY <1>1, <1>2, <2>1 DEF InboxInv
  <2>3. Live'
    BY <2>1, LiveMeansNext
  <2>4. CASE link.connected
    <3>1. Live
      BY <2>1, <2>4, LiveMeans
    <3>2. Unread' = Unread
      BY <1>1, <2>3, <3>1 DEF Unread
    <3> QED BY <1>1, <2>2, <2>3, <3>1, <3>2 DEF Service!vars, Live, SessionValid
  <2>5. CASE ~link.connected
    <3>1. ~Live /\ Unread = 0
      BY <2>5, LiveMeans, UnreadMeans
    <3>2. queue = <<>> /\ cb.pc = "idle" /\ rt.pc # "verify"
      BY <2>1, <2>5 DEF InboxInv, IInv, Serving
    <3>3. Unread' = 0
      BY <1>1, <2>3, <3>2 DEF Unread
    <3> QED
      BY <1>1, <2>2, <2>3, <3>1, <3>3
      DEF Service!Next, Service!Connect, Live, SessionValid
  <2> QED BY <2>4, <2>5
<1>4. CASE ~Current
  <2>1. link' = link
    BY <1>1, <1>4
  <2>2. link.session = 0 \/ link.failed
    BY <1>2, <1>4 DEF Current, InboxInv, IInv, SessionFenced
  <2> QED BY <1>1, <2>1, <2>2, SessionGoes DEF InboxInv
<1> QED BY <1>3, <1>4

\* A frame is received only on a live session.
LEMMA DataService ==
  ASSUME IInv, IInv', InboxInv, WsData
  PROVE  InboxInv' /\ [Service!Next]_(Service!vars)
<1>1. /\ client.sock = "open" /\ cb.pc = "idle" /\ cmds' = cmds + 1
      /\ cb' = (IF Current THEN [pc |-> "queue",
                                 msg |-> [session |-> client.session, epoch |-> fences]]
                ELSE cb)
      /\ UNCHANGED <<link, queue, client, rt, ran>>
  BY Zenon DEF WsData
<1>2. Live' = Live
  BY <1>1 DEF Live, SessionValid
<1>3. client # NoClient
  BY <1>1 DEF NoClient
<1>4. CASE Current
  <2>1. Live
    BY <1>1, <1>3, <1>4, LiveMeans DEF Current, InboxInv
  <2>2. Unread' = Unread + 1
    <3>1. cb'.pc = "queue" /\ Len(queue) \in Nat
      BY <1>1, <1>4 DEF IInv, TypeOK
    <3> QED BY <1>1, <1>2, <2>1, <3>1 DEF Unread
  <2>3. InboxInv'
    BY <1>1, <2>1, LiveMeans DEF InboxInv
  <2> QED BY <1>1, <1>2, <2>1, <2>2, <2>3 DEF Service!Next, Service!Receive
<1>5. CASE ~Current
  <2>1. cb' = cb
    BY <1>1, <1>5
  <2>2. Unread' = Unread
    BY <1>1, <1>2, <2>1 DEF Unread
  <2>3. InboxInv'
    BY <1>1, <2>1 DEF InboxInv
  <2> QED BY <1>1, <1>2, <2>2, <2>3 DEF Service!Next, Service!Receive
<1> QED BY <1>4, <1>5

\* The rest of the callback moves the frame into the queue, or drops it.
LEMMA QueueService ==
  ASSUME IInv, IInv', InboxInv, WsQueue
  PROVE  InboxInv' /\ [Service!Next]_(Service!vars)
<1>1. /\ cb.pc = "queue" /\ cb' = NoCb
      /\ queue' = (IF SessionValid(cb.msg.session) /\ Len(queue) < QueueDepth
                   THEN Append(queue, cb.msg) ELSE queue)
      /\ UNCHANGED <<cmds, link, client, rt, ran>>
  BY Zenon DEF WsQueue
<1>2. Live' = Live /\ NoCb.pc = "idle" /\ queue \in Seq(Msg) /\ cb.msg \in Msg
  BY <1>1 DEF Live, SessionValid, NoCb, IInv, TypeOK, CbType
<1>3. client # NoClient /\ cb.msg.session = client.session
  BY <1>1, <1>2 DEF IInv, NoClientLeft
<1>4. CASE Live
  <2> DEFINE v == IF rt.pc = "verify" THEN 1 ELSE 0
  <2>0. /\ Len(queue) \in Nat /\ v \in Nat
        /\ Unread = Len(queue) + 1 + v /\ Unread' = Len(queue') + 0 + v
    BY <1>1, <1>2, <1>4 DEF Unread
  <2> HIDE DEF v
  <2>1. /\ link.session # 0 /\ ~link.failed /\ link.connected
        /\ cb.msg.session = link.session
    BY <1>3, <1>4, LiveMeans DEF InboxInv
  <2>2. SessionValid(cb.msg.session)
    BY <1>4, <2>1 DEF Live
  <2>3. CASE Len(queue) < QueueDepth
    <3>1. queue' = Append(queue, cb.msg)
      BY <1>1, <2>2, <2>3
    <3>2. /\ Len(queue') = Len(queue) + 1 /\ queue'[Len(queue) + 1] = cb.msg
          /\ \A i \in 1..Len(queue) : queue'[i] = queue[i]
      BY <1>2, <3>1
    <3>3. \A i \in 1..Len(queue') : queue'[i].session = link.session
      <4>1. \A i \in 1..Len(queue) : queue[i].session = link.session
        BY <2>1 DEF InboxInv
      <4>2. \A i \in 1..Len(queue') : i \in 1..Len(queue) \/ i = Len(queue) + 1
        BY <1>2, <3>2
      <4> QED BY <2>1, <3>2, <4>1, <4>2
    <3>4. InboxInv'
      BY <1>1, <2>1, <3>3 DEF InboxInv
    <3>5. Unread' = Unread
      BY <2>0, <3>2
    <3> QED BY <1>1, <1>2, <3>4, <3>5 DEF Service!vars
  <2>4. CASE ~(Len(queue) < QueueDepth)
    <3>1. queue' = queue
      BY <1>1, <2>4
    <3>2. InboxInv'
      BY <1>1, <2>1, <3>1 DEF InboxInv
    <3>3. Unread > 0 /\ Unread' = Unread - 1
      BY <2>0, <3>1
    <3> QED BY <1>1, <1>2, <1>4, <3>2, <3>3 DEF Service!Next, Service!Discard
  <2> QED BY <2>3, <2>4
<1>5. CASE ~Live
  <2>1. link.session = 0 \/ link.failed
    BY <1>1, <1>5, LiveMeans DEF InboxInv
  <2> QED BY <1>1, <2>1, SessionGoes DEF InboxInv
<1> QED BY <1>4, <1>5

LEMMA ClientService ==
  ASSUME IInv, IInv', InboxInv, Relay
  PROVE  InboxInv' /\ [Service!Next]_(Service!vars)
<1>1. CASE WsClosed
  <2>1. /\ client.sock \in {"connecting", "open"} /\ client' = [client EXCEPT !.sock = "dead"]
        /\ link' \in {link, Failed(link), [Failed(link) EXCEPT !.superseded = TRUE]}
        /\ UNCHANGED <<cmds, ran, queue, cb, rt>>
    BY <1>1 DEF WsClosed
  <2>2. client # NoClient /\ client'.session = client.session /\ client'.sock = "dead"
    BY <2>1 DEF NoClient, IInv, TypeOK, ClientType
  <2>3. CASE link' = link
    BY <2>1, <2>2, <2>3, SessionStays
  <2>4. CASE link' \in {Failed(link), [Failed(link) EXCEPT !.superseded = TRUE]}
    <3>1. link'.failed /\ link'.session = link.session
      BY <2>4 DEF Failed, IInv, TypeOK, LinkType
    <3> QED BY <2>1, <3>1, SessionGoes DEF InboxInv
  <2> QED BY <2>1, <2>3, <2>4
<1>2. CASE WsDies
  <2>1. /\ client.sock \in {"connecting", "open"} /\ client' = [client EXCEPT !.sock = "dead"]
        /\ UNCHANGED <<cmds, ran, queue, cb, rt, link>>
    BY <1>2, Zenon DEF WsDies
  <2>2. client # NoClient /\ client'.session = client.session /\ client'.sock = "dead"
    BY <2>1 DEF NoClient, IInv, TypeOK, ClientType
  <2> QED BY <2>1, <2>2, SessionStays
<1> QED BY <1>1, <1>2, ConnectedService, DataService DEF Relay

\* A new session starts with nothing under way.
LEMMA BeginService ==
  ASSUME IInv, IInv', InboxInv, RelayBegin
  PROVE  InboxInv' /\ [Service!Next]_(Service!vars)
<1>1. /\ rt.pc = "begin" /\ queue' = <<>>
      /\ rt' = [rt EXCEPT !.pc = "start", !.session = NextSession]
      /\ link' = [link EXCEPT !.session = NextSession, !.sessionGen = link.gen,
                              !.connected = FALSE, !.ready = FALSE,
                              !.failed = ~link.netUp, !.superseded = FALSE]
      /\ UNCHANGED <<cmds, ran, client, cb>>
  BY DEF RelayBegin, At
<1>2. /\ link'.session = NextSession /\ ~link'.connected
      /\ rt'.pc = "start" /\ rt'.session = NextSession
  BY <1>1 DEF IInv, TypeOK, LinkType, RelayType
<1>3. client = NoClient /\ cb = NoCb /\ NoCb.pc = "idle" /\ NoClient.sock = "none"
  BY <1>1 DEF IInv, NoClientLeft, NoCb, NoClient
<1>4. InboxInv'
  BY <1>1, <1>2, <1>3 DEF InboxInv
<1>5. ~Live' /\ Unread' = 0
  BY <1>2, LiveMeansNext DEF Unread
<1>6. CASE Live
  BY <1>1, <1>4, <1>5, <1>6 DEF Service!Next, Service!Lose, Live, SessionValid
<1>7. CASE ~Live
  BY <1>1, <1>4, <1>5, <1>7, UnreadMeans DEF Service!vars, Live, SessionValid
<1> QED BY <1>6, <1>7

\* What is taken from the queue of a live session is its own.
LEMMA DequeueService ==
  ASSUME IInv, IInv', InboxInv, RelayDequeue
  PROVE  InboxInv' /\ [Service!Next]_(Service!vars)
<1> DEFINE m == Head(queue)
           good == m.session = rt.session /\ SessionValid(m.session)
<1>1. /\ rt.pc = "loop" /\ queue # <<>> /\ queue' = Tail(queue)
      /\ rt' = (IF good THEN [rt EXCEPT !.pc = "verify", !.msg = m] ELSE rt)
      /\ UNCHANGED <<cmds, link, client, cb, ran>>
  BY Zenon DEF RelayDequeue, At
<1>2. /\ queue \in Seq(Msg) /\ rt \in RelayType /\ Live' = Live
      /\ link.session = rt.session
  BY <1>1 DEF IInv, TypeOK, InboxInv, Live, SessionValid
<1>3. /\ Len(queue) \in Nat \ {0} /\ m = queue[1] /\ Len(queue') = Len(queue) - 1
      /\ \A i \in 1..Len(queue') : queue'[i] = queue[i + 1] /\ i + 1 \in 1..Len(queue)
      /\ 1 \in 1..Len(queue)
  BY <1>1, <1>2
<1>4. /\ rt'.session = rt.session /\ rt'.pc = (IF good THEN "verify" ELSE "loop")
      /\ good => rt'.msg = m
  BY <1>1, <1>2 DEF RelayType
<1>5. CASE Live
  <2>1. /\ link.session # 0 /\ ~link.failed /\ link.connected
        /\ \A i \in 1..Len(queue) : queue[i].session = link.session
    BY <1>5, LiveMeans DEF InboxInv
  <2>2. good
    BY <1>2, <1>3, <1>5, <2>1 DEF Live
  <2>3. \A i \in 1..Len(queue') : queue'[i].session = link.session
    BY <1>3, <2>1
  <2> HIDE DEF m, good
  <2>4. InboxInv'
    BY <1>1, <1>2, <1>4, <2>1, <2>2, <2>3 DEF InboxInv, good
  <2>5. Unread' = Unread
    BY <1>1, <1>2, <1>3, <1>4, <1>5, <2>2 DEF Unread
  <2> QED BY <1>1, <1>2, <2>4, <2>5 DEF Service!vars
<1>6. CASE ~Live
  <2>1. ~good
    BY <1>6 DEF Live, SessionValid
  <2>2. rt' = rt
    BY <1>1, <2>1
  <2>3. InboxInv'
    <3>1. link.session # 0 /\ ~link.failed => FALSE
      BY <1>1, <1>6, LiveMeans DEF InboxInv
    <3> QED BY <1>1, <2>2, <3>1 DEF InboxInv
  <2>4. Unread = 0 /\ Unread' = 0
    BY <1>2, <1>6 DEF Unread
  <2> QED BY <1>1, <1>2, <2>3, <2>4 DEF Service!vars
<1> QED BY <1>5, <1>6

\* A verified command runs if its session is the live one.
LEMMA DispatchService ==
  ASSUME IInv, IInv', InboxInv, RelayDispatch
  PROVE  InboxInv' /\ [Service!Next]_(Service!vars)
<1>1. /\ rt.pc = "verify" /\ rt' = [rt EXCEPT !.pc = "loop", !.msg = NoMsg]
      /\ ran' = (IF SessionValid(rt.msg.session) THEN ran + 1 ELSE ran)
      /\ UNCHANGED <<cmds, link, queue, client, cb>>
  BY Zenon DEF RelayDispatch, At
<1>2. /\ rt.msg.session = link.session /\ link.session = rt.session
      /\ Live' = Live /\ queue \in Seq(Msg)
  BY <1>1 DEF InboxInv, Live, SessionValid, IInv, TypeOK
<1>3. rt'.pc = "loop" /\ rt'.session = rt.session
  BY <1>1 DEF IInv, TypeOK, RelayType
<1>4. InboxInv'
  BY <1>1, <1>2, <1>3 DEF InboxInv
<1>5. CASE Live
  <2>1. Unread > 0 /\ Unread' = Unread - 1
    BY <1>1, <1>2, <1>3, <1>5 DEF Unread
  <2>2. ran' = ran + 1
    BY <1>1, <1>2, <1>5 DEF Live
  <2> QED BY <1>1, <1>2, <1>4, <1>5, <2>1, <2>2 DEF Service!Next, Service!Run
<1>6. CASE ~Live
  <2>1. ran' = ran
    BY <1>1, <1>2, <1>6 DEF Live
  <2>2. Unread = 0 /\ Unread' = 0
    BY <1>2, <1>6 DEF Unread
  <2> QED BY <1>1, <1>2, <1>4, <2>1, <2>2 DEF Service!vars
<1> QED BY <1>5, <1>6

\* The other steps of the relay's task keep the session, or end it.
LEMMA RelayTaskService ==
  ASSUME IInv, IInv', InboxInv, RelayTask
  PROVE  InboxInv' /\ [Service!Next]_(Service!vars)
<1> USE DEF At, Goto, TaskPcs
<1>0. rt \in RelayType /\ link \in LinkType
  BY DEF IInv, TypeOK
<1>1. CASE RelayTop \/ RelayHandshake \/ RelayBackoff
  <2>1. UNCHANGED <<cmds, ran, queue, cb, client, link>>
    BY <1>1, Zenon DEF RelayTop, RelayHandshake, RelayBackoff
  <2>2. /\ rt.pc # "verify" /\ rt'.pc \notin {"verify", "stop"}
        /\ rt'.pc \in TaskPcs => rt.pc \in TaskPcs /\ rt'.session = rt.session
    BY <1>0, <1>1 DEF RelayTop, RelayHandshake, RelayBackoff, RelayType
  <2> QED BY <2>1, <2>2, SessionStays
<1>2. CASE RelayStart
  <2>1. /\ UNCHANGED <<cmds, ran, queue, cb, link>> /\ rt.pc = "start"
        /\ \/ client' = client
           \/ client' = [session |-> rt.session, sock |-> "connecting", addr |-> addr]
        /\ rt'.pc \in {"wait", "backoff", "fence"} /\ rt'.session = rt.session
    BY <1>0, <1>2 DEF RelayStart, RelayType
  <2>2. client' = client \/ (client'.session = link.session /\ client'.sock # "open")
    BY <2>1 DEF InboxInv
  <2> QED BY <2>1, <2>2, SessionStays
<1>3. CASE RelayHello
  <2>1. /\ UNCHANGED <<cmds, ran, queue, cb, client>> /\ rt.pc = "hello"
        /\ link' \in {link, Failed(link)}
        /\ rt'.pc \in {"ready", "fence"} /\ rt'.session = rt.session
    BY <1>0, <1>3 DEF RelayHello, RelayType
  <2>2. CASE link' = link
    BY <2>1, <2>2, SessionStays
  <2>3. CASE link' = Failed(link)
    <3>1. link'.failed /\ link'.session = link.session
      BY <1>0, <2>3 DEF Failed, LinkType
    <3> QED BY <2>1, <3>1, SessionGoes
  <2> QED BY <2>1, <2>2, <2>3
<1>4. CASE RelayReady
  <2>1. /\ UNCHANGED <<cmds, ran, queue, cb, client>> /\ rt.pc = "ready"
        /\ link'.session = link.session /\ link'.failed = link.failed
        /\ link'.connected = link.connected
        /\ rt'.pc = "loop" /\ rt'.session = rt.session
    BY <1>0, <1>4 DEF RelayReady, RelayType, LinkType
  <2> QED BY <2>1, SessionStays
<1>5. CASE RelayExit
  <2>1. /\ UNCHANGED <<cmds, ran, queue, cb, client>> /\ rt.pc = "loop"
        /\ link' \in {link, Failed(link)} /\ rt'.pc = "fence"
    BY <1>0, <1>5 DEF RelayExit, RelayType
  <2>2. CASE link' = link
    BY <2>1, <2>2, SessionStays
  <2>3. CASE link' = Failed(link)
    <3>1. link'.failed /\ link'.session = link.session
      BY <1>0, <2>3 DEF Failed, LinkType
    <3> QED BY <2>1, <3>1, SessionGoes
  <2> QED BY <2>1, <2>2, <2>3
<1>6. CASE RelayFence
  <2>1. UNCHANGED <<cmds, ran>> /\ link'.session = 0 /\ rt'.pc = "stop"
    BY <1>0, <1>6 DEF RelayFence, RelayType, Failed, LinkType
  <2> QED BY <2>1, SessionGoes
<1>7. CASE RelayStop
  <2>1. UNCHANGED <<cmds, ran, link>> /\ rt.pc = "stop" /\ rt'.pc = "backoff"
    BY <1>0, <1>7 DEF RelayStop, RelayType
  <2>2. link'.session = 0
    BY <2>1 DEF InboxInv
  <2> QED BY <2>1, <2>2, SessionGoes
<1> QED
  BY <1>1, <1>2, <1>3, <1>4, <1>5, <1>6, <1>7, BeginService, DequeueService,
     DispatchService DEF RelayTask

\* The four tasks, whatever they overtake, implement the abstract link: a command
\* runs in the session it was received in or not at all, and once.
THEOREM Implementation == Spec => ImplementsLink
<1>1. Init => InboxInv /\ Service!Init
  BY DEF Init, InboxInv, Service!Init, Live, Unread, SessionValid, NoClient, NoCb
<1>2. IInv /\ IInv' /\ InboxInv /\ [Next]_vars => InboxInv' /\ [Service!Next]_(Service!vars)
  <2> SUFFICES ASSUME IInv, IInv', InboxInv, [Next]_vars
               PROVE  InboxInv' /\ [Service!Next]_(Service!vars)
    OBVIOUS
  <2>1. CASE UNCHANGED vars
    <3>1. UNCHANGED <<cmds, ran, queue, cb, client, link, rt>>
      BY <2>1 DEF vars
    <3> QED BY <3>1, SessionStays
  <2> QED
    BY <2>1, NetworkService, ClientService, QueueService, RelayTaskService DEF Next
<1> QED
  BY <1>1, <1>2, Fencing, PTL DEF Spec, ImplementsLink, Service!Spec

\* What the service promises, of the link: no command frame is run twice.
THEOREM NoFrameTwice == Spec => []Service!OncePerFrame
<1>1. Service!Init => Service!OncePerFrame
  BY DEF Service!Init, Service!OncePerFrame
<1>2. IInv => cmds \in Nat /\ ran \in Nat /\ Unread \in Nat
  BY UnreadNat DEF IInv, TypeOK, Unread, Live, SessionValid
<1>3. IInv /\ IInv' /\ Service!OncePerFrame /\ [Service!Next]_(Service!vars)
        => Service!OncePerFrame'
  <2>1. IInv' => cmds' \in Nat /\ ran' \in Nat /\ Unread' \in Nat
    BY UnreadNat DEF IInv, TypeOK, Unread, Live, SessionValid
  <2> QED
    BY <1>2, <2>1 DEF Service!OncePerFrame, Service!Next, Service!Connect,
       Service!Receive, Service!Run, Service!Discard, Service!Lose, Service!vars
<1> QED
  BY <1>1, <1>3, Fencing, Implementation, PTL DEF ImplementsLink, Service!Spec
=============================================================================
