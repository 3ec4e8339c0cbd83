---------------------------- MODULE Reservations ----------------------------
(***************************************************************************)
(* Who may drive the computer, and who may restart the device: the power   *)
(* button (power_btn.c), the keyboard (Keyboard), the restart of the       *)
(* updater (ota.c, restart_candidate) and the entry to the boot loader     *)
(* (maintenance.c).  A restart first reserves the power button, then the   *)
(* keyboard; a refusal on the way gives back what was reserved.  Actions   *)
(* and pulses come from one task, the relay's.                             *)
(***************************************************************************)
EXTENDS Keyboard

VARIABLES
  pin,          \* the power button is pressed
  pwrQuiesced   \* power_btn.c, s_quiesced

vars == <<keyboardVars, pin, pwrQuiesced>>

\* Where a task that restarts the device has the reservations
Committed == {"reserved", "restarting", "detached", "unwind"}
Callers   == {"relay"} \cup Reservers
Places    == {"idle", "want", "busy", "pulse", "power", "hid", "again", "refused",
              "unwindPower"} \cup Committed

Init ==
  /\ bus = "down" /\ wire = TRUE /\ xfer = "idle" /\ buf = Up /\ host = Up
  /\ waiting = FALSE /\ complete = FALSE /\ neutral = FALSE
  /\ expected = Up /\ fresh = {} /\ reenum = FALSE
  /\ hold = Free /\ debt = TRUE /\ wasActive = FALSE /\ quiesced = FALSE
  /\ text = <<>> /\ pressed = 0
  /\ pc = [p \in Callers |-> "idle"]
  /\ downs = <<>> /\ faults = 0
  /\ pin = FALSE /\ pwrQuiesced = FALSE

-----------------------------------------------------------------------------
(* The power button *)

usbVars == <<stackVars, muxVars, hold, debt, wasActive, argVars, downs>>

Go(p, place) == pc' = [pc EXCEPT ![p] = place]

\* Mutant: the pulse does not look at the reservation.
PulseUnreserved == /\ pc["relay"] = "idle" /\ pin' = TRUE /\ Go("relay", "pulse")
                   /\ UNCHANGED <<usbVars, quiesced, pwrQuiesced, faults>>

\* pulse() takes its lock, for the length of the pulse
Pulse == /\ pc["relay"] = "idle" /\ ~pwrQuiesced
         /\ pin' = TRUE /\ Go("relay", "pulse")
         /\ UNCHANGED <<usbVars, quiesced, pwrQuiesced, faults>>

PulseEnds == /\ pc["relay"] = "pulse"
             /\ pin' = FALSE /\ Go("relay", "idle")
             /\ UNCHANGED <<usbVars, quiesced, pwrQuiesced, faults>>

-----------------------------------------------------------------------------
(* Reserving, shared by the updater and the maintenance entry *)

\* The worker at its restart, another task asking for the boot loader
Request(q) == /\ pc[q] = "idle" /\ Fault /\ Go(q, "power")
              /\ UNCHANGED <<usbVars, quiesced, pin, pwrQuiesced>>

\* Mutant: the reservation does not try the pulse's lock.
QuiescePowerUnlocked(q) ==
  /\ pc[q] = "power" /\ ~pwrQuiesced
  /\ pwrQuiesced' = TRUE /\ Go(q, "hid")
  /\ UNCHANGED <<usbVars, quiesced, pin, faults>>

\* rw_power_btn_quiesce()
QuiescePower(q) == /\ pc[q] = "power" /\ pc["relay"] # "pulse" /\ ~pwrQuiesced
                   /\ pwrQuiesced' = TRUE /\ Go(q, "hid")
                   /\ UNCHANGED <<usbVars, quiesced, pin, faults>>

\* Refused: the updater asks again until its minute is over, maintenance
\* tells its caller.
PowerBusy(q) == /\ pc[q] = "power"
                /\ q = "worker" \/ pc["relay"] = "pulse" \/ pwrQuiesced
                /\ Go(q, "idle")
                /\ UNCHANGED <<usbVars, quiesced, pin, pwrQuiesced, faults>>

\* rw_hid_quiesce() failed: the power button is free again.
KeyboardRefuses(q) ==
  /\ pc[q] \in {"again", "refused"}
  /\ pwrQuiesced' = FALSE
  /\ Go(q, IF q = "worker" /\ pc[q] = "again" THEN "power" ELSE "idle")
  /\ UNCHANGED <<usbVars, quiesced, pin, faults>>

\* The journal and the boot partition are set, or the restart task runs.
Commit(q) == /\ pc[q] = "reserved" /\ Go(q, "restarting")
             /\ UNCHANGED <<usbVars, quiesced, pin, pwrQuiesced, faults>>

\* They could not be: cancel_reservations(), in two stores
Unwind(q) == /\ pc[q] = "reserved" /\ Go(q, "unwind")
             /\ UNCHANGED <<usbVars, quiesced, pin, pwrQuiesced, faults>>

UnwindKeyboard(q) == /\ pc[q] = "unwind"
                     /\ quiesced' = FALSE /\ Go(q, "unwindPower")
                     /\ UNCHANGED <<usbVars, pin, pwrQuiesced, faults>>

\* prepare_restart() may have asked the updater to try again.
UnwindPower(q) == /\ pc[q] = "unwindPower"
                  /\ pwrQuiesced' = FALSE
                  /\ \/ Go(q, "idle")
                     \/ q = "worker" /\ Go(q, "power")
                  /\ UNCHANGED <<usbVars, quiesced, pin, faults>>

\* handoff_usb(): the keyboard leaves the bus for the ROM's serial port.
HandoffUsb == /\ pc["app"] = "restarting"
              /\ wire' = FALSE /\ Go("app", "detached")
              /\ UNCHANGED <<bus, xfer, buf, host, muxVars, hold, debt, wasActive,
                             quiesced, argVars, downs, pin, pwrQuiesced, faults>>

-----------------------------------------------------------------------------
(* Restarts *)

\* The shutdown handler, or the pull-down of the pin, ends a pulse.  The
\* host may not notice a restart that is short.
Boot ==
  /\ bus' = "down" /\ wire' = TRUE /\ xfer' = "idle" /\ buf' = Up
  /\ host' \in {host, Up}
  /\ ClearReport
  /\ expected' = Up /\ fresh' = {} /\ reenum' = FALSE
  /\ hold' = Free /\ debt' = TRUE /\ wasActive' = FALSE /\ quiesced' = FALSE
  /\ text' = <<>> /\ pressed' = 0
  /\ pc' = [p \in Callers |-> "idle"]
  /\ downs' = <<>>
  /\ pin' = FALSE /\ pwrQuiesced' = FALSE

Restart == /\ pc["worker"] = "restarting" \/ pc["app"] = "detached"
           /\ Boot /\ UNCHANGED faults

\* A power loss, a watchdog, or a restart by the button or the rollback
Crash == Fault /\ Boot

-----------------------------------------------------------------------------

Reserve(q) ==
  \/ QuiescePower(q) \/ PowerBusy(q) \/ KeyboardRefuses(q) \/ Commit(q)
  \/ Unwind(q) \/ UnwindKeyboard(q) \/ UnwindPower(q)
  \/ (QuiesceTake(q) \/ QuiesceBusy(q)) /\ UNCHANGED <<pin, pwrQuiesced>>

Usb == Bus \/ SendReport \/ Action \/ Recovery \/ Quiesce

Next == \/ Usb /\ UNCHANGED <<pin, pwrQuiesced>>
        \/ Pulse \/ PulseEnds
        \/ \E q \in Reservers : Request(q) \/ Reserve(q)
        \/ HandoffUsb \/ Restart \/ Crash

\* Every wait of the holder has a deadline; the worker wakes every 20 ms and
\* finds the lock free between two attempts of anyone else; the stack's task
\* calls back.  The host's part is not fair: it need not poll or resume.
Fairness ==
  /\ WF_vars((SendReport \/ EnsureAwake \/ WakeEnds \/ BeginAction \/ FinishAction
              \/ Quiesce \/ RecoveryLook \/ RecoveryDecide \/ RecoveryObserve)
             /\ UNCHANGED <<pin, pwrQuiesced>>)
  /\ SF_vars(RecoveryTake /\ UNCHANGED <<pin, pwrQuiesced>>)
  /\ WF_vars(ReportComplete /\ UNCHANGED <<pin, pwrQuiesced>>)
  /\ \A q \in Reservers : WF_vars(Reserve(q))
  /\ WF_vars(HandoffUsb) /\ WF_vars(Restart)

Spec == Init /\ [][Next]_vars /\ Fairness

-----------------------------------------------------------------------------
(* What makes the drivers correct *)

Ats  == {"-", "wait", "arm", "submit", "await", "failed", "detach", "attach",
         "awake", "waking", "snapshot", "finish", "look", "active", "inactive",
         "observe", "quiet"}
Ctxs == {"-", "begin", "baseline", "press", "release", "ok", "err", "cleanup",
         "recover", "quiesce"}
Holds == [who : Callers \cup {"none", "recovery"}, at : Ats, ctx : Ctxs]

\* The types of the drivers' state.
TypeOK ==
  /\ bus \in {"down", "up", "suspended"} /\ wire \in BOOLEAN
  /\ xfer \in {"idle", "queued", "taken"}
  /\ buf \in Reports /\ host \in Reports /\ expected \in Reports
  /\ waiting \in BOOLEAN /\ complete \in BOOLEAN /\ neutral \in BOOLEAN
  /\ fresh \subseteq {"action", "recovery", "observed"} /\ reenum \in BOOLEAN
  /\ hold \in Holds
  /\ debt \in BOOLEAN /\ wasActive \in BOOLEAN /\ quiesced \in BOOLEAN
  /\ text \in Seq(Chords) /\ pressed \in Nat
  /\ pc \in [Callers -> Places]
  /\ downs \in Seq(Chords) /\ faults \in Nat
  /\ pin \in BOOLEAN /\ pwrQuiesced \in BOOLEAN

\* Where the holder can be, for whom, and with what report.
Sending == {"wait", "arm", "submit", "await"}
Place(at, ctx) ==
  \/ at \in Sending /\ ctx \in {"baseline", "press", "release", "cleanup",
                                "recover", "quiesce"}
  \/ at \in {"failed", "detach", "attach"} /\ ctx \in {"cleanup", "recover"}
  \/ at \in {"awake", "waking", "snapshot"} /\ ctx = "begin"
  \/ at = "finish" /\ ctx \in {"ok", "err"}
  \/ at \in {"look", "active", "inactive", "observe"} /\ ctx \in {"-", "recover"}
  \/ at = "quiet" /\ ctx = "-"

HolderInv ==
  \/ hold = Free
  \/ /\ hold.who # "none" /\ Place(hold.at, hold.ctx)
     /\ hold.who = "recovery" <=> \/ hold.ctx = "recover"
                                  \/ hold.ctx = "-" /\ hold.at # "quiet"
     /\ hold.who \in Reservers <=> hold.ctx = "quiesce" \/ hold.at = "quiet"
     /\ hold.who \in Reservers => pc[hold.who] = "hid"
     /\ hold.ctx \in {"begin", "baseline"} => pressed = 0
     /\ hold.ctx = "press" => pressed < Len(text)
     /\ ~quiesced

\* The relay's task holds the lock exactly while it is in an action.
RelayInv == /\ pc["relay"] = "busy" <=> hold.who = "relay"
            /\ pc["relay"] \in {"idle", "want", "busy", "pulse"}
            /\ pc["relay"] = "want" => pressed = 0
            /\ pin <=> pc["relay"] = "pulse"

\* The power button goes to one reserver at a time, and the keyboard after it.
HasPower == Committed \cup {"hid", "again", "refused", "unwindPower"}
ReservationInv ==
  /\ \A q \in Reservers :
       /\ pc[q] \in HasPower => pwrQuiesced
       /\ pc[q] \in Committed => quiesced
       /\ pc[q] \notin {"want", "busy", "pulse"}
       /\ \A r \in Reservers \ {q} : pc[q] \in HasPower => pc[r] \notin HasPower
  /\ pwrQuiesced => pc["relay"] # "pulse"
  /\ quiesced => \E q \in Reservers : pc[q] \in Committed

\* What the flags of a report say of the report, the buffer and the host.
ReportInv ==
  /\ hold.at \in {"arm", "submit"} => xfer = "idle"
  /\ hold.at \in {"submit", "await"} => expected = Report
  /\ hold.at = "submit" => ~complete /\ ~neutral
  /\ waiting /\ xfer # "idle" => buf = expected
  /\ waiting => ~complete
  /\ xfer = "taken" => host \in {buf, Up}
  /\ complete => xfer = "idle" /\ (expected = Up => host = Up)
  /\ neutral => complete /\ expected = Up
  /\ hold.ctx = "press" /\ hold.at \in {"wait", "arm", "submit"} => ~debt

\* A key the host believes pressed, and a press it may still fetch, is in the
\* books as a debt: no path of errors, timeouts, resets and claims of late
\* completions drops it (usb_hid.c:136-139, s_need_release).
NoStuckKey ==
  ~debt => /\ host = Up
           /\ xfer = "idle" \/ buf = Up

\* The inductive invariant: types, holder, reservations, reports and debt.
IInv == TypeOK /\ HolderInv /\ RelayInv /\ ReservationInv /\ ReportInv /\ NoStuckKey

\* What the host has seen while the action is at a chord: those done, the one
\* in transfer only once taken, the one being released; and a success leaves
\* nothing to take.  Inductive beside IInv, for TypedAsAsked.
Shown(n) == SubSeq(text, 1, n)
TypedInv ==
  /\ hold.ctx = "press" =>
       IF hold.at # "await" THEN downs = Shown(pressed)
       ELSE /\ xfer = "queued" => downs = Shown(pressed) /\ buf = text[pressed + 1]
            /\ xfer = "taken" \/ complete => downs = Shown(pressed + 1)
            /\ downs \in {Shown(pressed), Shown(pressed + 1)}
  /\ hold.ctx = "release" =>
       /\ pressed < Len(text) /\ downs = Shown(pressed + 1)
       /\ xfer = "queued" => buf = Up
  /\ hold.ctx = "ok" => pressed = Len(text) /\ downs = text /\ ~debt

\* Whoever has reserved restarts alone: no pulse and no report is under way,
\* and no one's failure gave the reservations away (maintenance.c:107-133,
\* ota.c:321-352, power_btn.c:104-113).
RestartIsAlone ==
  \A q \in Reservers : pc[q] \in Committed =>
    /\ pwrQuiesced /\ quiesced /\ ~pin
    /\ hold = Free /\ pc["relay"] \notin {"busy", "pulse"}
    /\ \A r \in Reservers \ {q} : pc[r] \notin HasPower

\* What the host has seen of an action is a beginning of what was asked, with
\* nothing twice and nothing after a gap, and an action that succeeded was
\* seen whole.  A late transfer of an earlier action does not come into it.
TypedAsAsked ==
  /\ hold.ctx \in {"press", "release", "ok"} =>
       \E n \in {pressed, pressed + 1} :
         n <= Len(text) /\ downs = SubSeq(text, 1, n)
  /\ hold.ctx = "ok" => downs = text

\* A key goes down only on a host that has no key down, and never once a
\* restart has been granted.
PressOnFreeHost ==
  [][xfer' = "queued" /\ xfer # "queued" /\ buf' # Up =>
       /\ host = Up
       /\ \A q \in Reservers : pc[q] \notin Committed]_vars

\* A restart is granted on a working bus only when every key is up
\* (usb_hid.c:534-538); a bus asleep or gone is left to the restart.
GrantedReleased ==
  [][\A q \in Reservers :
       pc[q] # "reserved" /\ pc'[q] = "reserved" =>
         ~debt' \/ bus # "up" \/ reenum]_vars

\* A key does not stay down on an attached host that is awake: it is released,
\* or the keyboard is taken off the bus, although the host polls as it likes
\* and whatever the relay's task, the updater and maintenance do.  Left out
\* is a detach the driver refuses (usb_hid.c:443-446), which blocks input.
KeyIsLetGo ==
  host # Up ~> \/ host = Up \/ bus # "up"
               \/ reenum /\ wire /\ hold.at \notin {"detach", "attach"}
=============================================================================
