--------------------------- MODULE CommandService ---------------------------
(***************************************************************************)
(* What the remote-wake command path promises, without saying how: a       *)
(* command is run only after its phone issued it, and the commands of one  *)
(* channel (a device identity, a key slot, the phone enrolled there) run   *)
(* in strictly increasing counter order.  So no command runs twice,        *)
(* whatever the relay, the network and power losses do.                    *)
(*                                                                         *)
(* Only a factory reset by the user can take that back, and only if it is  *)
(* not completed: it may then begin a new era of a slot, under the same    *)
(* identity.  Without one, the eras stay where they are.                   *)
(***************************************************************************)
EXTENDS Integers, Sequences

CONSTANTS Kids

VARIABLES
  issued,   \* the commands phones have signed
  done,     \* the commands the device has run, in order: [env, era]
  resets,   \* the factory resets so far
  era       \* [Kids -> Nat]

vars == <<issued, done, resets, era>>

\* The device keeps one high-water mark per channel.
Chan(e) == <<e.dev, e.kid, e.signer>>

Init == /\ issued = {} /\ done = <<>>
        /\ resets = 0 /\ era = [k \in Kids |-> 0]

Issue ==
  /\ \E e \in issued' \ issued : issued' = issued \cup {e}
  /\ UNCHANGED <<done, resets, era>>

Run ==
  /\ \E e \in issued :
       /\ \A i \in DOMAIN done :
            Chan(done[i].env) = Chan(e) /\ done[i].era = era[e.kid]
              => done[i].env.ctr < e.ctr
       /\ done' = Append(done, [env |-> e, era |-> era[e.kid]])
  /\ UNCHANGED <<issued, resets, era>>

FactoryReset ==
  /\ resets' = resets + 1
  /\ \E torn \in SUBSET Kids :
       era' = [k \in Kids |-> IF k \in torn THEN era[k] + 1 ELSE era[k]]
  /\ UNCHANGED <<issued, done>>

Next == Issue \/ Run \/ FactoryReset

Spec == Init /\ [][Next]_vars
=============================================================================
