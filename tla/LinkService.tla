----------------------------- MODULE LinkService -----------------------------
(***************************************************************************)
(* What the device's end of the relay link promises, without saying how: a *)
(* command is handed to its handler only in the session it was received    *)
(* in, while nothing of that session was lost since, and as often as it    *)
(* was received.  What was received and not run goes with the session.     *)
(***************************************************************************)
EXTENDS Naturals

VARIABLES
  sent,    \* command frames the relay has sent
  live,    \* a session is connected, on the network as it is
  unread,  \* commands received in it and not yet run
  ran      \* commands run

vars == <<sent, live, unread, ran>>

Init == sent = 0 /\ live = FALSE /\ unread = 0 /\ ran = 0

Connect == ~live /\ live' = TRUE /\ UNCHANGED <<sent, unread, ran>>

\* A frame is received in the live session, or lost.
Receive == /\ sent' = sent + 1
           /\ \/ live /\ unread' = unread + 1
              \/ UNCHANGED unread
           /\ UNCHANGED <<live, ran>>

Run == /\ live /\ unread > 0
       /\ unread' = unread - 1 /\ ran' = ran + 1
       /\ UNCHANGED <<sent, live>>

\* There is no room for it.
Discard == live /\ unread > 0 /\ unread' = unread - 1 /\ UNCHANGED <<sent, live, ran>>

Lose == live /\ live' = FALSE /\ unread' = 0 /\ UNCHANGED <<sent, ran>>

Next == Connect \/ Receive \/ Run \/ Discard \/ Lose

Spec == Init /\ [][Next]_vars

-----------------------------------------------------------------------------
(* What follows from the promise *)

\* No frame is run twice.
OncePerFrame == ran + unread <= sent
=============================================================================
