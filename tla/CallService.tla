---------------------------- MODULE CallService ----------------------------
(***************************************************************************)
(* What the relay's device object promises those who send commands,        *)
(* without saying how: a request that is taken was sent over the device's  *)
(* connection and alone waits under its id; it ends once, with an answer   *)
(* the device gave over its present connection or with an error, and ends  *)
(* no other.  Only a reset of the object ends several, all with an error.  *)
(***************************************************************************)
EXTENDS Naturals

CONSTANTS Reqs, Ids, NoId

VARIABLES
  conn,  \* connections the device has made
  up,    \* the last of them stands
  wait,  \* the id each request waits under
  call   \* what became of each request: the connections it went out and came by

vars == <<conn, up, wait, call>>

Failed == [out |-> "none", via |-> 0, by |-> 0]

Init ==
  /\ conn = 0 /\ up = FALSE
  /\ wait = [r \in Reqs |-> NoId] /\ call = [r \in Reqs |-> Failed]

Connect == conn' = conn + 1 /\ up' = TRUE /\ UNCHANGED <<wait, call>>

Drop == up' = FALSE /\ UNCHANGED <<conn, wait, call>>

Take(r, id) ==
  /\ up /\ wait[r] = NoId /\ \A q \in Reqs : wait[q] # id
  /\ wait' = [wait EXCEPT ![r] = id]
  /\ call' = [call EXCEPT ![r] = [out |-> "waiting", via |-> conn, by |-> 0]]
  /\ UNCHANGED <<conn, up>>

\* The attempt to send may be what shows that the connection is gone.
TurnAway(r) ==
  /\ wait[r] = NoId
  /\ call' = [call EXCEPT ![r] = Failed]
  /\ up' \in {up, FALSE}
  /\ UNCHANGED <<conn, wait>>

Answer(r) ==
  /\ up /\ wait[r] # NoId
  /\ wait' = [wait EXCEPT ![r] = NoId]
  /\ call' = [call EXCEPT ![r] = [out |-> "answered", via |-> @.via, by |-> conn]]
  /\ UNCHANGED <<conn, up>>

GiveUp(r) ==
  /\ wait[r] # NoId
  /\ wait' = [wait EXCEPT ![r] = NoId] /\ call' = [call EXCEPT ![r] = Failed]
  /\ UNCHANGED <<conn, up>>

Reset ==
  /\ up' = FALSE
  /\ wait' = [r \in Reqs |-> NoId]
  /\ call' = [r \in Reqs |-> IF wait[r] # NoId THEN Failed ELSE call[r]]
  /\ UNCHANGED conn

Next ==
  \/ Connect \/ Drop \/ Reset
  \/ \E r \in Reqs : TurnAway(r) \/ Answer(r) \/ GiveUp(r) \/ \E id \in Ids : Take(r, id)

Spec == Init /\ [][Next]_vars

-----------------------------------------------------------------------------
(* What follows from the promise *)

\* A command under way went out by a connection that was made.
Underway ==
  /\ up => conn > 0
  /\ \A r \in Reqs : wait[r] # NoId => 0 < call[r].via /\ call[r].via <= conn

\* No two requests wait under one id, so an answer is nobody else's.
OneWaiter ==
  \A q, r \in Reqs : wait[q] # NoId /\ wait[q] = wait[r] => q = r

\* An answer comes over the connection its command went out by, or a later one.
InOrder ==
  \A r \in Reqs : call[r].out = "answered" => 0 < call[r].via /\ call[r].via <= call[r].by
=============================================================================
