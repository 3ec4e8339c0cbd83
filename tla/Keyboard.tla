------------------------------ MODULE Keyboard ------------------------------
(***************************************************************************)
(* The USB keyboard of usb_hid.c.  A report pressing a chord and the       *)
(* neutral report releasing it are two transfers the host fetches when it  *)
(* likes; between them the bus can suspend, reset or go away, and a        *)
(* transfer that timed out still owns the stack's buffer.  Whoever holds   *)
(* s_lock (an action of the relay task, the release worker, or a caller of *)
(* rw_hid_quiesce) may submit; `debt' (s_need_release) is what the holders *)
(* hand on to one another.                                                 *)
(*                                                                         *)
(* Time is abstract: a wait that has a deadline may end at any moment.     *)
(* Snapshots of s_bus_epoch are the set `fresh' of those that still equal  *)
(* it, which is exact as long as 2^32 events do not fall between two looks.*)
(***************************************************************************)
EXTENDS Naturals, Sequences

CONSTANTS
  Chords,     \* reports with a key or a modifier down
  Up,         \* the neutral report
  Unknown,    \* a character or key name without a key code
  Texts,      \* arguments of wake, type and keys: sequences of chords
  MaxFaults   \* bound: bus events, transfers that fail, requests to restart

ASSUME KeyboardAssumption ==
  /\ Up \notin Chords /\ Unknown \notin Chords \cup {Up}
  /\ Texts \subseteq Seq(Chords \cup {Unknown})
  /\ MaxFaults \in Nat

Reports   == Chords \cup {Up}
Reservers == {"worker", "app"}  \* ota.c's worker, a task asking for maintenance

VARIABLES
  \* --- TinyUSB and the host (external)
  bus,       \* "down" | "up" | "suspended", as tud_mounted/tud_suspended tell
  wire,      \* the pull-up is on: the host sees a device
  xfer,      \* the IN endpoint: "idle" | "queued" | "taken", callback to come
  buf,       \* the stack's report buffer
  host,      \* the report the host believes in
  \* --- under s_report_mux
  waiting, complete, neutral,  \* s_waiting_report, s_report_complete, s_neutral_completed
  expected,  \* s_expected_report
  fresh,     \* the snapshots that equal s_bus_epoch
  reenum,    \* s_reenumerating
  \* --- under s_lock
  hold,      \* the holder, its place, and what its report is for
  debt,      \* s_need_release
  wasActive, \* recovery_once()'s static
  quiesced,  \* s_quiesced
  text, pressed,  \* the action's chords; how many were pressed and released
  \* --- callers
  pc,        \* the relay task and the reservers
  downs,     \* history: chords the host took since the action's baseline
  faults     \* bound spent

stackVars == <<bus, wire, xfer, buf, host>>
flags     == <<waiting, complete, neutral>>
muxVars   == <<flags, expected, fresh, reenum>>
argVars   == <<text, pressed>>
keyboardVars == <<stackVars, muxVars, hold, debt, wasActive, quiesced, argVars,
                  pc, downs, faults>>

Free == [who |-> "none", at |-> "-", ctx |-> "-"]

-----------------------------------------------------------------------------
(* The bus *)

ClearReport == waiting' = FALSE /\ complete' = FALSE /\ neutral' = FALSE

\* s_action_epoch_valid and s_action_epoch # s_bus_epoch
EpochChanged == /\ hold.ctx \in {"baseline", "press", "release"}
                /\ "action" \notin fresh

\* bus_state() = ESP_OK
BusOk == bus = "up" /\ ~reenum /\ ~EpochChanged

\* Every other outcome of bus_state(); on an unmounted bus it drops the report.
BusFails == /\ ~BusOk
            /\ IF bus = "down" /\ ~reenum THEN ClearReport ELSE UNCHANGED flags

BusError == IF bus = "down" \/ reenum THEN "not_found" ELSE "timeout"

\* tud_hid_ready()
Ready == bus = "up" /\ xfer = "idle"

\* lifecycle_event()
LifecycleEvent(endpointReset, mounted) ==
  /\ fresh' = {}
  /\ IF endpointReset THEN ClearReport ELSE UNCHANGED flags
  /\ reenum' = (reenum /\ ~mounted)
  /\ UNCHANGED expected

Fault == faults < MaxFaults /\ faults' = faults + 1

deviceVars == <<hold, debt, wasActive, quiesced, argVars, pc, downs>>

\* The host resets the port.  The stack drops the configuration and the
\* transfer; it has no callback for this.
HostReset == /\ wire /\ bus # "down" /\ xfer # "taken" /\ Fault
             /\ bus' = "down" /\ xfer' = "idle"
             /\ UNCHANGED <<wire, buf, host, muxVars, deviceVars>>

\* tud_mount_cb().  A host that merely resumed a port may keep the keys.
Mount == /\ wire /\ bus = "down"
         /\ bus' = "up" /\ xfer' = "idle" /\ host' \in {host, Up}
         /\ LifecycleEvent(TRUE, TRUE)
         /\ UNCHANGED <<wire, buf, deviceVars, faults>>

\* tud_umount_cb(), also after the device took itself off the bus
Unmount == /\ bus # "down" /\ xfer # "taken"
           /\ IF wire THEN Fault ELSE UNCHANGED faults
           /\ bus' = "down" /\ xfer' = "idle" /\ host' = Up
           /\ LifecycleEvent(TRUE, FALSE)
           /\ UNCHANGED <<wire, buf, deviceVars>>

\* tud_suspend_cb(), tud_resume_cb()
Suspend == /\ bus = "up" /\ xfer # "taken" /\ Fault
           /\ bus' = "suspended"
           /\ LifecycleEvent(FALSE, FALSE)
           /\ UNCHANGED <<wire, xfer, buf, host, deviceVars>>

Resume == /\ bus = "suspended" /\ wire
          /\ bus' = "up"
          /\ LifecycleEvent(FALSE, FALSE)
          /\ UNCHANGED <<wire, xfer, buf, host, deviceVars, faults>>

\* The host fetches the report, when it polls; nothing makes it poll.
HostTakes == /\ xfer = "queued" /\ bus = "up" /\ wire
             /\ xfer' = "taken" /\ host' = buf
             /\ downs' = IF buf = Up THEN downs ELSE Append(downs, buf)
             /\ UNCHANGED <<bus, wire, buf, muxVars, hold, debt, wasActive,
                            quiesced, argVars, pc, faults>>

\* Mutant: any completion counts as a release.
ReportCompleteAny ==
  /\ xfer = "taken" /\ xfer' = "idle"
  /\ IF waiting THEN waiting' = FALSE /\ complete' = TRUE /\ neutral' = TRUE
                ELSE UNCHANGED flags
  /\ UNCHANGED <<bus, wire, buf, host, expected, fresh, reenum, deviceVars, faults>>

\* tud_hid_report_complete_cb(); its report pointer is the stack's buffer.
ReportComplete ==
  /\ xfer = "taken" /\ xfer' = "idle"
  /\ IF waiting THEN /\ waiting' = FALSE
                     /\ complete' = (buf = expected)
                     /\ neutral' = (buf = expected /\ expected = Up)
                ELSE UNCHANGED flags
  /\ UNCHANGED <<bus, wire, buf, host, expected, fresh, reenum, deviceVars, faults>>

\* tud_hid_report_failed_cb(), or a completion of the wrong length: the host
\* may have the report or not.
ReportFailed ==
  /\ xfer = "queued" /\ bus = "up" /\ Fault
  /\ xfer' = "idle" /\ ClearReport
  /\ \/ UNCHANGED <<host, downs>>
     \/ wire /\ host' = buf /\ downs' = IF buf = Up THEN downs ELSE Append(downs, buf)
  /\ UNCHANGED <<bus, wire, buf, expected, fresh, reenum, hold, debt, wasActive,
                 quiesced, argVars, pc>>

Bus == HostReset \/ Mount \/ Unmount \/ Suspend \/ Resume
       \/ HostTakes \/ ReportComplete \/ ReportFailed

-----------------------------------------------------------------------------
(* send_report() and release_all(), run by the holder of s_lock *)

Report == IF hold.ctx = "press" THEN text[pressed + 1] ELSE Up

Goto(at)       == hold' = [hold EXCEPT !.at = at]
GotoFor(at, c) == hold' = [hold EXCEPT !.at = at, !.ctx = c]

\* xSemaphoreGive(s_lock), and what the caller gets to hear
GiveBack(result) ==
  /\ hold' = Free
  /\ pc' = [p \in DOMAIN pc |-> IF p = hold.who THEN result ELSE pc[p]]

\* The report went through: release_all() settles the debt, press_release()
\* goes on to the release, the loops to the next chord.
Acknowledged ==
  \/ /\ hold.ctx = "press" /\ GotoFor("wait", "release")
     /\ UNCHANGED <<debt, quiesced, pressed, pc, downs>>
  \/ /\ hold.ctx = "baseline" /\ debt' = FALSE /\ downs' = <<>>
     /\ IF text = <<>> THEN GotoFor("finish", "ok") ELSE GotoFor("wait", "press")
     /\ UNCHANGED <<quiesced, pressed, pc>>
  \/ /\ hold.ctx = "release" /\ debt' = FALSE /\ pressed' = pressed + 1
     /\ IF pressed' < Len(text) THEN GotoFor("wait", "press")
                                ELSE GotoFor("finish", "ok")
     /\ UNCHANGED <<quiesced, pc, downs>>
  \/ /\ hold.ctx = "cleanup" /\ debt' = FALSE /\ GiveBack("idle")
     /\ UNCHANGED <<quiesced, pressed, downs>>
  \/ /\ hold.ctx = "recover" /\ debt' = FALSE /\ Goto("observe")
     /\ UNCHANGED <<quiesced, pressed, pc, downs>>
  \/ /\ hold.ctx = "quiesce" /\ debt' = FALSE /\ quiesced' = TRUE
     /\ GiveBack("reserved")
     /\ UNCHANGED <<pressed, downs>>

\* Mutant: an action tries a report again that failed.
FailedRetries(err) ==
  /\ \/ hold.ctx \notin {"cleanup", "recover", "quiesce"} /\ Goto("wait")
        /\ UNCHANGED pc
     \/ hold.ctx \in {"cleanup", "recover"} /\ Goto("failed") /\ UNCHANGED pc
     \/ hold.ctx = "quiesce"
        /\ GiveBack(IF err = "timeout" THEN "again" ELSE "refused")
  /\ UNCHANGED <<debt, quiesced, pressed, downs>>

\* The report did not go through.
Failed(err) ==
  /\ \/ hold.ctx \in {"baseline", "press", "release"} /\ GotoFor("finish", "err")
        /\ UNCHANGED pc
     \/ hold.ctx \in {"cleanup", "recover"} /\ Goto("failed") /\ UNCHANGED pc
     \/ hold.ctx = "quiesce"
        /\ GiveBack(IF err = "timeout" THEN "again" ELSE "refused")
  /\ UNCHANGED <<debt, quiesced, pressed, downs>>

holdFrame == <<stackVars, expected, fresh, reenum, wasActive, text, faults>>

\* The wait for an endpoint without a report of ours in it
WaitReady == /\ hold.at = "wait" /\ BusOk /\ ~waiting /\ Ready /\ Goto("arm")
             /\ UNCHANGED <<stackVars, muxVars, debt, wasActive, quiesced,
                            argVars, pc, downs, faults>>

WaitFails == /\ hold.at = "wait"
             /\ \/ BusFails /\ Failed(BusError)
                \/ BusOk /\ UNCHANGED flags /\ Failed("timeout")
             /\ UNCHANGED holdFrame

\* A neutral report that completed after its wait is claimed, not repeated.
Claim == /\ hold.at = "arm" /\ Report = Up /\ neutral
         /\ neutral' = FALSE /\ Acknowledged
         /\ UNCHANGED <<holdFrame, waiting, complete>>

Arm == /\ hold.at = "arm" /\ ~(Report = Up /\ neutral)
       /\ expected' = Report
       /\ waiting' = TRUE /\ complete' = FALSE /\ neutral' = FALSE
       /\ Goto("submit")
       /\ UNCHANGED <<stackVars, fresh, reenum, debt, wasActive, quiesced,
                      argVars, pc, downs, faults>>

\* Mutant: the debt is noted when the host has the key, not before.
SubmitNoDebt ==
  /\ hold.at = "submit" /\ Ready
  /\ xfer' = "queued" /\ buf' = Report /\ Goto("await")
  /\ UNCHANGED <<bus, wire, host, muxVars, debt, wasActive, quiesced, argVars,
                 pc, downs, faults>>

Submit == /\ hold.at = "submit" /\ Ready
          /\ debt' = TRUE
          /\ xfer' = "queued" /\ buf' = Report /\ Goto("await")
          /\ UNCHANGED <<bus, wire, host, muxVars, wasActive, quiesced, argVars,
                         pc, downs, faults>>

SubmitRefused == /\ hold.at = "submit" /\ ~Ready
                 /\ debt' = TRUE
                 /\ waiting' = FALSE /\ UNCHANGED <<complete, neutral>>
                 /\ \/ /\ hold.ctx \in {"baseline", "press", "release"}
                       /\ GotoFor("finish", "err") /\ UNCHANGED pc
                    \/ /\ hold.ctx \in {"cleanup", "recover"}
                       /\ Goto("failed") /\ UNCHANGED pc
                    \/ hold.ctx = "quiesce" /\ GiveBack("refused")
                 /\ UNCHANGED <<holdFrame, quiesced, pressed, downs>>

AwaitComplete == /\ hold.at = "await" /\ BusOk /\ complete
                 /\ Acknowledged
                 /\ neutral' = (neutral /\ hold.ctx = "press")
                 /\ UNCHANGED <<holdFrame, waiting, complete>>

AwaitFails == /\ hold.at = "await"
              /\ \/ BusFails /\ Failed(BusError)
                 \/ BusOk /\ ~complete /\ ~waiting
                    /\ UNCHANGED flags /\ Failed("fail")
                 \/ BusOk /\ ~complete /\ waiting  \* the deadline
                    /\ UNCHANGED flags /\ Failed("timeout")
              /\ UNCHANGED holdFrame

\* The end of finish_action() and of recovery_once()
Leave == IF hold.who = "recovery" THEN Goto("observe") /\ UNCHANGED pc
                                  ELSE GiveBack("idle")

\* Mutant: a cleanup that failed is left to the next one.
RestartsNot == /\ hold.at = "failed" /\ BusOk /\ Leave
               /\ UNCHANGED <<stackVars, muxVars, debt, wasActive, quiesced,
                              argVars, downs, faults>>

\* restart_usb() after a cleanup that failed on a working bus
Restarts == /\ hold.at = "failed" /\ BusOk
            /\ reenum' = TRUE /\ Goto("detach")
            /\ UNCHANGED <<stackVars, flags, expected, fresh, debt, wasActive,
                           quiesced, argVars, pc, downs, faults>>

NoRestart == /\ hold.at = "failed" /\ BusFails /\ Leave
             /\ UNCHANGED <<stackVars, expected, fresh, reenum, debt, wasActive,
                            quiesced, argVars, downs, faults>>

\* tud_disconnect(); when it is refused, input stays blocked.
Detach == /\ hold.at = "detach"
          /\ \/ wire' = FALSE /\ Goto("attach") /\ UNCHANGED <<pc, faults>>
             \/ Fault /\ UNCHANGED wire /\ Leave
          /\ UNCHANGED <<bus, xfer, buf, host, muxVars, debt, wasActive, quiesced,
                         argVars, downs>>

\* 50 ms later, when the host has let the keyboard go: tud_connect()
Attach == /\ hold.at = "attach"
          /\ reenum' = TRUE /\ host' = Up
          /\ \/ wire' = TRUE /\ UNCHANGED faults
             \/ Fault /\ UNCHANGED wire
          /\ Leave
          /\ UNCHANGED <<bus, xfer, buf, flags, expected, fresh, debt, wasActive,
                         quiesced, argVars, downs>>

SendReport == WaitReady \/ WaitFails \/ Claim \/ Arm \/ Submit \/ SubmitRefused
              \/ AwaitComplete \/ AwaitFails
              \/ Restarts \/ NoRestart \/ Detach \/ Attach

-----------------------------------------------------------------------------
(* rw_hid_wake(), rw_hid_type(), rw_hid_keys() *)

\* Mutant: the chords before the one that cannot be typed are typed.
UpToUnknown(t) == t # <<>> /\ t[1] # Unknown

\* The whole argument is checked before the first key goes down.
Valid(t) == \A n \in 1..Len(t) : t[n] # Unknown

ActionStart == /\ pc["relay"] = "idle" /\ ~quiesced
               /\ \E t \in Texts : Valid(t) /\ text' = t
               /\ pressed' = 0
               /\ pc' = [pc EXCEPT !["relay"] = "want"]
               /\ UNCHANGED <<stackVars, muxVars, hold, debt, wasActive, quiesced,
                              downs, faults>>

\* lock_action() gives up, or finds the keyboard reserved
ActionBusy == /\ pc["relay"] = "want" /\ (hold # Free \/ quiesced)
              /\ pc' = [pc EXCEPT !["relay"] = "idle"]
              /\ UNCHANGED <<stackVars, muxVars, hold, debt, wasActive, quiesced,
                             argVars, downs, faults>>

\* Mutant: s_quiesced is looked at before the wait for the lock only.
LockActionOnce == /\ pc["relay"] = "want" /\ hold = Free
                  /\ hold' = [who |-> "relay", at |-> "awake", ctx |-> "begin"]
                  /\ pc' = [pc EXCEPT !["relay"] = "busy"]
                  /\ UNCHANGED <<stackVars, muxVars, debt, wasActive, quiesced,
                                 argVars, downs, faults>>

LockAction == /\ pc["relay"] = "want" /\ hold = Free /\ ~quiesced
              /\ hold' = [who |-> "relay", at |-> "awake", ctx |-> "begin"]
              /\ pc' = [pc EXCEPT !["relay"] = "busy"]
              /\ UNCHANGED <<stackVars, muxVars, debt, wasActive, quiesced,
                             argVars, downs, faults>>

beginFrame == <<stackVars, expected, reenum, debt, wasActive, quiesced, argVars,
                pc, downs, faults>>

\* ensure_awake(), on a suspended bus by tud_remote_wakeup()
EnsureAwake ==
  /\ hold.at = "awake"
  /\ \/ bus = "up" /\ Goto("snapshot") /\ UNCHANGED flags
     \/ bus = "suspended" /\ Goto("waking") /\ UNCHANGED flags
     \/ bus = "suspended" /\ GotoFor("finish", "err") /\ UNCHANGED flags  \* refused
     \/ bus = "down" /\ BusFails /\ GotoFor("finish", "err")
  /\ UNCHANGED <<beginFrame, fresh>>

WakeEnds == /\ hold.at = "waking"
            /\ \/ BusOk /\ Goto("snapshot") /\ UNCHANGED flags
               \/ BusFails /\ GotoFor("finish", "err")
            /\ UNCHANGED <<beginFrame, fresh>>

\* begin_action() binds the action to the bus as it is now.
BeginAction == /\ hold.at = "snapshot"
               /\ fresh' = fresh \cup {"action"}
               /\ GotoFor("wait", "baseline")
               /\ UNCHANGED <<beginFrame, flags>>

\* finish_action()
FinishAction ==
  /\ hold.at = "finish"
  /\ fresh' = fresh \ {"action"}
  /\ \/ debt /\ BusOk /\ GotoFor("wait", "cleanup") /\ UNCHANGED <<flags, pc>>
     \/ debt /\ BusFails /\ GiveBack("idle")
     \/ ~debt /\ UNCHANGED flags /\ GiveBack("idle")
  /\ UNCHANGED <<stackVars, expected, reenum, debt, wasActive, quiesced, argVars,
                 downs, faults>>

Action == ActionStart \/ ActionBusy \/ LockAction \/ EnsureAwake \/ WakeEnds
          \/ BeginAction \/ FinishAction

-----------------------------------------------------------------------------
(* recovery_once(), every 20 ms; it never wakes the host *)

RecoveryTake == /\ hold = Free /\ ~quiesced
                /\ hold' = [who |-> "recovery", at |-> "look", ctx |-> "-"]
                /\ UNCHANGED <<beginFrame, fresh, flags>>

RecoveryLook == /\ hold.at = "look"
                /\ \/ BusOk /\ Goto("active") /\ UNCHANGED flags
                   \/ BusFails /\ Goto("inactive")
                /\ UNCHANGED <<beginFrame, fresh>>

RecoveryDecide ==
  /\ hold.at \in {"active", "inactive"}
  /\ fresh' = fresh \cup {"recovery"}
  /\ wasActive' = (hold.at = "active")
  /\ debt' = (debt \/ ~wasActive' \/ ~wasActive \/ "observed" \notin fresh)
  /\ IF wasActive' /\ debt' THEN GotoFor("wait", "recover") ELSE Goto("observe")
  /\ UNCHANGED <<stackVars, flags, expected, reenum, quiesced, argVars, pc, downs,
                 faults>>

RecoveryObserve ==
  /\ hold.at = "observe"
  /\ fresh' = IF "recovery" \in fresh THEN (fresh \ {"recovery"}) \cup {"observed"}
                                      ELSE fresh \ {"observed"}
  /\ hold' = Free
  /\ UNCHANGED <<beginFrame, flags>>

Recovery == RecoveryTake \/ RecoveryLook \/ RecoveryDecide \/ RecoveryObserve

-----------------------------------------------------------------------------
(* rw_hid_quiesce() and rw_hid_resume_actions() *)

QuiesceTake(q) == /\ pc[q] = "hid" /\ hold = Free /\ ~quiesced
                  /\ hold' = [who |-> q, at |-> "quiet", ctx |-> "-"]
                  /\ UNCHANGED <<beginFrame, fresh, flags>>

QuiesceBusy(q) == /\ pc[q] = "hid" /\ hold.who # q /\ (hold # Free \/ quiesced)
                  /\ pc' = [pc EXCEPT ![q] = "again"]
                  /\ UNCHANGED <<stackVars, muxVars, hold, debt, wasActive,
                                 quiesced, argVars, downs, faults>>

\* Mutant: the keyboard is reserved without a release.
QuiesceUnreleased ==
  /\ hold.at = "quiet"
  /\ quiesced' = TRUE /\ GiveBack("reserved")
  /\ IF BusOk THEN UNCHANGED flags ELSE BusFails
  /\ UNCHANGED <<stackVars, expected, fresh, reenum, debt, wasActive, argVars,
                 downs, faults>>

\* A bus that is asleep or gone is left so.
Quiesce == /\ hold.at = "quiet"
           /\ \/ /\ BusOk /\ GotoFor("wait", "quiesce")
                 /\ UNCHANGED <<flags, quiesced, pc>>
              \/ BusFails /\ quiesced' = TRUE /\ GiveBack("reserved")
           /\ UNCHANGED <<stackVars, expected, fresh, reenum, debt, wasActive,
                          argVars, downs, faults>>

=============================================================================
