------------------------- MODULE ReservationsProofs -------------------------
(***************************************************************************)
(* Proofs about the keyboard and the reservations, for any chords, texts   *)
(* and number of faults.  IInv is inductive: who holds the lock and for    *)
(* what (HolderInv), the relay's task (RelayInv), the reservations         *)
(* (ReservationInv), what the flags of a report tell (ReportInv), and that *)
(* a key which may be down is a debt (NoStuckKey).                         *)
(*                                                                         *)
(* Most steps of the holder send nothing and settle nothing: they are Calm *)
(* and end in another place (MovesInv) or give the lock back (EndsInv).    *)
(* TypedInv, what the host has seen so far, is inductive beside IInv.      *)
(***************************************************************************)
EXTENDS Reservations, TLAPS

\* What the keyboard leaves alone.
rest == <<pin, pwrQuiesced>>

\* TypeOK in two: what is on or off, and everything else.
Switches ==
  /\ wire \in BOOLEAN /\ waiting \in BOOLEAN /\ complete \in BOOLEAN
  /\ neutral \in BOOLEAN /\ reenum \in BOOLEAN /\ debt \in BOOLEAN
  /\ wasActive \in BOOLEAN /\ quiesced \in BOOLEAN
  /\ pin \in BOOLEAN /\ pwrQuiesced \in BOOLEAN

Kinds ==
  /\ bus \in {"down", "up", "suspended"}
  /\ xfer \in {"idle", "queued", "taken"}
  /\ buf \in Reports /\ host \in Reports /\ expected \in Reports
  /\ fresh \subseteq {"action", "recovery", "observed"}
  /\ hold \in Holds /\ text \in Seq(Chords) /\ pressed \in Nat
  /\ pc \in [Callers -> Places]
  /\ downs \in Seq(Chords) /\ faults \in Nat

LEMMA TypeParts == TypeOK <=> Switches /\ Kinds
BY DEF TypeOK, Switches, Kinds

-----------------------------------------------------------------------------
(* The holder *)

LEMMA HoldMoves ==
  ASSUME hold \in Holds, NEW at \in Ats
  PROVE  /\ Goto(at) => /\ hold' \in Holds /\ hold'.who = hold.who
                        /\ hold'.at = at /\ hold'.ctx = hold.ctx
         /\ \A ctx \in Ctxs : GotoFor(at, ctx) => /\ hold' \in Holds /\ hold'.who = hold.who
                                                  /\ hold'.at = at /\ hold'.ctx = ctx
BY DEF Goto, GotoFor, Holds

LEMMA FreeType == /\ Free \in Holds /\ Free.who = "none" /\ Free.at = "-" /\ Free.ctx = "-"
BY DEF Free, Holds, Ats, Ctxs

\* Who holds the lock for what.
LEMMA HolderFacts ==
  ASSUME hold \in Holds, HolderInv
  PROVE  hold.ctx \in {"begin", "press", "baseline", "release", "cleanup"} => hold.who = "relay"
<1>1. hold.who \in {"relay", "worker", "app", "none", "recovery"}
  BY DEF Holds, Callers, Reservers
<1>2. CASE hold = Free
  BY <1>2, FreeType
<1>3. CASE hold # Free
  BY <1>1, <1>3 DEF HolderInv, Reservers, Place, Sending
<1> QED BY <1>2, <1>3

LEMMA GiveBackMoves ==
  ASSUME hold \in Holds, pc \in [Callers -> Places], NEW result \in Places,
         GiveBack(result)
  PROVE  /\ hold' = Free
         /\ pc' \in [Callers -> Places]
         /\ \A p \in Callers : pc'[p] = IF p = hold.who THEN result ELSE pc[p]
BY DEF GiveBack

\* The flags of a report are dropped, or kept.
Shrinks == /\ waiting' \in BOOLEAN /\ complete' \in BOOLEAN /\ neutral' \in BOOLEAN
           /\ waiting' => waiting
           /\ complete' => complete
           /\ neutral' => neutral /\ complete'

LEMMA FlagsShrink ==
  ASSUME IInv
  PROVE  /\ UNCHANGED flags => Shrinks
         /\ BusFails => Shrinks
         /\ waiting' = FALSE /\ UNCHANGED <<complete, neutral>> => Shrinks
<1>1. neutral => complete
  BY DEF IInv, ReportInv
<1>2. waiting \in BOOLEAN /\ complete \in BOOLEAN /\ neutral \in BOOLEAN
  BY DEF IInv, TypeOK
<1>3. UNCHANGED flags => Shrinks
  <2>1. UNCHANGED flags => /\ waiting' \in BOOLEAN /\ complete' \in BOOLEAN
                           /\ neutral' \in BOOLEAN
    BY <1>2, Zenon DEF flags
  <2>2. UNCHANGED flags => /\ waiting' => waiting
                           /\ complete' => complete
                           /\ neutral' => neutral /\ complete'
    BY <1>1, SMT DEF flags
  <2> QED BY <2>1, <2>2 DEF Shrinks
<1>4. ClearReport => Shrinks
  BY <1>2, Zenon DEF Shrinks, ClearReport
<1>5. BusFails => Shrinks
  BY <1>3, <1>4 DEF BusFails
<1>6. waiting' = FALSE /\ UNCHANGED <<complete, neutral>> => Shrinks
  <2>1. waiting' = FALSE /\ UNCHANGED <<complete, neutral>>
          => waiting' \in BOOLEAN /\ complete' \in BOOLEAN /\ neutral' \in BOOLEAN
    BY <1>2, Zenon
  <2>2. waiting' = FALSE /\ UNCHANGED <<complete, neutral>>
          => ~waiting' /\ (complete' => complete) /\ (neutral' => neutral /\ complete')
    BY <1>1, SMT
  <2> QED BY <2>1, <2>2 DEF Shrinks
<1> QED BY <1>3, <1>5, <1>6

\* Nothing is sent, and no debt is settled.
Calm ==
  /\ UNCHANGED <<bus, xfer, buf, expected, quiesced, text, pressed, downs, pin, pwrQuiesced>>
  /\ host' \in {host, Up} /\ faults' \in Nat
  /\ fresh' \subseteq {"action", "recovery", "observed"}
  /\ wire' \in BOOLEAN /\ reenum' \in BOOLEAN /\ wasActive' \in BOOLEAN
  /\ debt' \in BOOLEAN /\ (debt => debt')
  /\ Shrinks

LEMMA CalmTypes ==
  ASSUME IInv, Calm, hold' \in Holds, pc' \in [Callers -> Places]
  PROVE  TypeOK'
<1>1. Switches'
  BY TypeParts, Zenon DEF IInv, Switches, Calm, Shrinks
<1>2. Kinds'
  BY TypeParts DEF IInv, Kinds, Calm, Reports
<1> QED BY <1>1, <1>2 DEF TypeOK, Switches, Kinds

\* The holder goes to a place where it has no report under way.
LEMMA MovesInv ==
  ASSUME IInv, Calm, UNCHANGED pc,
         hold.who # "none", hold' \in Holds, hold'.who = hold.who,
         Place(hold'.at, hold'.ctx), hold'.at \notin {"arm", "submit", "await", "quiet"},
         hold.who = "recovery" <=> hold'.ctx \in {"recover", "-"},
         hold.who \in Reservers <=> hold'.ctx = "quiesce",
         hold'.ctx \in {"begin", "baseline"} => pressed = 0, hold'.ctx # "press"
  PROVE  IInv'
<1> USE DEF IInv
<1>1. TypeOK'
  BY CalmTypes DEF TypeOK
<1>2. HolderInv'
  BY FreeType DEF HolderInv, Calm
<1>3. RelayInv'
  BY DEF RelayInv, Calm
<1>4. ReservationInv'
  BY DEF ReservationInv, Calm
<1>5. ReportInv'
  BY DEF ReportInv, Calm, Shrinks
<1>6. NoStuckKey'
  BY DEF NoStuckKey, Calm
<1> QED BY <1>1, <1>2, <1>3, <1>4, <1>5, <1>6

\* The holder gives the lock back without having reserved the keyboard.
LEMMA EndsInv ==
  ASSUME IInv, Calm, hold.who # "none", NEW result \in {"idle", "again", "refused"},
         GiveBack(result), hold.who = "relay" => result = "idle"
  PROVE  IInv'
<1> USE DEF IInv
<1>0. /\ hold' = Free /\ hold' \in Holds
      /\ hold'.who = "none" /\ hold'.at = "-" /\ hold'.ctx = "-"
      /\ pc' \in [Callers -> Places]
      /\ \A p \in Callers : pc'[p] = IF p = hold.who THEN result ELSE pc[p]
  BY GiveBackMoves, FreeType DEF TypeOK, Places
<1>1. TypeOK'
  BY <1>0, CalmTypes
<1>2. HolderInv'
  BY <1>0 DEF HolderInv
<1>3. RelayInv'
  BY <1>0 DEF RelayInv, HolderInv, Calm, Callers, Reservers
<1>4. ReservationInv'
  BY <1>0 DEF ReservationInv, HolderInv, Calm, HasPower, Committed, Callers, Reservers
<1>5. ReportInv'
  BY <1>0 DEF ReportInv, Calm, Shrinks
<1>6. NoStuckKey'
  BY <1>0 DEF NoStuckKey, Calm
<1> QED BY <1>1, <1>2, <1>3, <1>4, <1>5, <1>6

\* What Calm needs, when the stack and the types of the rest are as they were.
LEMMA CalmFrame ==
  ASSUME IInv, Shrinks, UNCHANGED <<stackVars, expected, reenum, wasActive, quiesced, argVars,
                                    downs, faults, rest>>,
         fresh' \subseteq fresh \cup {"action", "recovery"}, debt' = debt \/ debt' = TRUE
  PROVE  Calm
<1>1. wire' \in BOOLEAN /\ reenum' \in BOOLEAN /\ wasActive' \in BOOLEAN
  BY Zenon DEF IInv, TypeOK, stackVars
<1>2. debt' \in BOOLEAN
  BY Zenon DEF IInv, TypeOK
<1>3. debt => debt'
  OBVIOUS
<1> QED BY <1>1, <1>2, <1>3, TypeParts DEF IInv, Kinds, Calm, stackVars, argVars, rest

-----------------------------------------------------------------------------
(* Steps of the holder that send nothing *)

LEMMA FailedInv ==
  ASSUME IInv, Shrinks, UNCHANGED <<holdFrame, rest>>, hold.at \in {"wait", "await"},
         NEW err \in {"not_found", "timeout", "fail"}, Failed(err)
  PROVE  IInv'
<1>1. Calm
  BY CalmFrame DEF Failed, holdFrame, argVars
<1>2. hold.who # "none" /\ hold \in Holds /\ HolderInv
  BY FreeType DEF IInv, HolderInv, TypeOK
<1>3. CASE hold.ctx \in {"baseline", "press", "release"}
  <2>1. /\ hold' \in Holds /\ hold'.who = hold.who
        /\ hold'.at = "finish" /\ hold'.ctx = "err" /\ UNCHANGED pc
    BY <1>2, <1>3, HoldMoves DEF Failed, Ats, Ctxs
  <2> QED BY <1>1, <1>2, <1>3, <2>1, MovesInv, FreeType DEF HolderInv, Place
<1>4. CASE hold.ctx \in {"cleanup", "recover"}
  <2>1. /\ hold' \in Holds /\ hold'.who = hold.who
        /\ hold'.at = "failed" /\ hold'.ctx = hold.ctx /\ UNCHANGED pc
    BY <1>2, <1>4, HoldMoves DEF Failed, Ats, Ctxs
  <2> QED BY <1>1, <1>2, <1>4, <2>1, MovesInv, FreeType DEF HolderInv, Place
<1>5. CASE hold.ctx = "quiesce"
  <2>1. hold.who \in Reservers
    BY <1>2, <1>5, FreeType DEF HolderInv
  <2>2. \E r \in {"again", "refused"} : GiveBack(r)
    BY <1>5 DEF Failed
  <2> QED BY <1>1, <1>2, <2>1, <2>2, EndsInv DEF Reservers
<1> QED BY <1>2, <1>3, <1>4, <1>5 DEF HolderInv, Place, Sending, Free

LEMMA WaitFailsInv ==
  ASSUME IInv, WaitFails, UNCHANGED rest
  PROVE  IInv'
BY FailedInv, FlagsShrink DEF WaitFails, BusError

LEMMA AwaitFailsInv ==
  ASSUME IInv, AwaitFails, UNCHANGED rest
  PROVE  IInv'
BY FailedInv, FlagsShrink DEF AwaitFails, BusError

LEMMA SubmitRefusedInv ==
  ASSUME IInv, SubmitRefused, UNCHANGED rest
  PROVE  IInv'
<1>1. Calm
  BY CalmFrame, FlagsShrink DEF SubmitRefused, holdFrame, argVars
<1>2. hold.who # "none" /\ hold \in Holds /\ HolderInv /\ hold.at = "submit"
  BY FreeType DEF IInv, HolderInv, TypeOK, SubmitRefused
<1>3. CASE hold.ctx \in {"baseline", "press", "release"}
  <2>1. /\ hold' \in Holds /\ hold'.who = hold.who
        /\ hold'.at = "finish" /\ hold'.ctx = "err" /\ UNCHANGED pc
    BY <1>2, <1>3, HoldMoves DEF SubmitRefused, Ats, Ctxs
  <2> QED BY <1>1, <1>2, <1>3, <2>1, MovesInv, FreeType DEF HolderInv, Place
<1>4. CASE hold.ctx \in {"cleanup", "recover"}
  <2>1. /\ hold' \in Holds /\ hold'.who = hold.who
        /\ hold'.at = "failed" /\ hold'.ctx = hold.ctx /\ UNCHANGED pc
    BY <1>2, <1>4, HoldMoves DEF SubmitRefused, Ats, Ctxs
  <2> QED BY <1>1, <1>2, <1>4, <2>1, MovesInv, FreeType DEF HolderInv, Place
<1>5. CASE hold.ctx = "quiesce"
  <2>1. hold.who \in Reservers
    BY <1>2, <1>5, FreeType DEF HolderInv
  <2>2. GiveBack("refused")
    BY <1>5 DEF SubmitRefused
  <2> QED BY <1>1, <1>2, <2>1, <2>2, EndsInv DEF Reservers
<1> QED BY <1>2, <1>3, <1>4, <1>5 DEF HolderInv, Place, Sending, Free

\* Leave: the recovery looks once more, an action ends.
LEMMA LeaveInv ==
  ASSUME IInv, Calm, Leave, hold.at \in {"failed", "detach", "attach"}
  PROVE  IInv'
<1>2. hold.who # "none" /\ hold \in Holds /\ HolderInv /\ hold.ctx \in {"cleanup", "recover"}
  BY FreeType DEF IInv, HolderInv, TypeOK, Place, Sending
<1>3. CASE hold.who = "recovery"
  <2>1. /\ hold' \in Holds /\ hold'.who = hold.who
        /\ hold'.at = "observe" /\ hold'.ctx = hold.ctx /\ UNCHANGED pc
    BY <1>2, <1>3, HoldMoves DEF Leave, Ats
  <2> QED BY <1>2, <1>3, <2>1, MovesInv, FreeType DEF HolderInv, Place
<1>4. CASE hold.who # "recovery"
  BY <1>2, <1>4, EndsInv DEF Leave
<1> QED BY <1>3, <1>4

LEMMA RestartsInv ==
  ASSUME IInv, Restarts, UNCHANGED rest
  PROVE  IInv'
<1>1. hold.who # "none" /\ hold \in Holds /\ HolderInv /\ hold.ctx \in {"cleanup", "recover"}
  BY FreeType DEF IInv, HolderInv, TypeOK, Place, Sending, Restarts
<1>2. Shrinks
  BY FlagsShrink DEF Restarts
<1>3. wire' \in BOOLEAN /\ reenum' \in BOOLEAN /\ wasActive' \in BOOLEAN /\ debt' \in BOOLEAN
  BY Zenon DEF Restarts, IInv, TypeOK, stackVars
<1>4. Calm
  BY <1>2, <1>3, TypeParts DEF Restarts, IInv, Kinds, Calm, stackVars, argVars, rest
<1>5. /\ hold' \in Holds /\ hold'.who = hold.who
      /\ hold'.at = "detach" /\ hold'.ctx = hold.ctx /\ UNCHANGED pc
  BY <1>1, HoldMoves DEF Restarts, Ats
<1> QED BY <1>1, <1>4, <1>5, MovesInv, FreeType DEF HolderInv, Place, Restarts

LEMMA NoRestartInv ==
  ASSUME IInv, NoRestart, UNCHANGED rest
  PROVE  IInv'
<1>1. Calm
  BY CalmFrame, FlagsShrink DEF NoRestart
<1> QED BY <1>1, LeaveInv DEF NoRestart

LEMMA DetachInv ==
  ASSUME IInv, Detach, UNCHANGED rest
  PROVE  IInv'
<1>1. hold.who # "none" /\ hold \in Holds /\ HolderInv /\ hold.ctx \in {"cleanup", "recover"}
  BY FreeType DEF IInv, HolderInv, TypeOK, Place, Sending, Detach
<1>2. Shrinks
  BY FlagsShrink DEF Detach, muxVars
<1>3. wire' \in BOOLEAN /\ reenum' \in BOOLEAN /\ wasActive' \in BOOLEAN /\ debt' \in BOOLEAN
  BY Zenon DEF Detach, IInv, TypeOK, muxVars
<1>4. Calm
  BY <1>2, <1>3, TypeParts DEF Detach, IInv, Kinds, Calm, muxVars, argVars, rest, Fault
<1>5. CASE Goto("attach") /\ UNCHANGED pc
  <2>1. /\ hold' \in Holds /\ hold'.who = hold.who
        /\ hold'.at = "attach" /\ hold'.ctx = hold.ctx
    BY <1>1, <1>5, HoldMoves DEF Ats
  <2> QED BY <1>1, <1>4, <1>5, <2>1, MovesInv, FreeType DEF HolderInv, Place, Detach
<1>6. CASE Leave
  BY <1>4, <1>6, LeaveInv DEF Detach
<1> QED BY <1>5, <1>6 DEF Detach

LEMMA AttachInv ==
  ASSUME IInv, Attach, UNCHANGED rest
  PROVE  IInv'
<1>1. Shrinks
  BY FlagsShrink DEF Attach
<1>2. wire' \in BOOLEAN /\ reenum' \in BOOLEAN /\ wasActive' \in BOOLEAN /\ debt' \in BOOLEAN
  BY Zenon DEF Attach, IInv, TypeOK
<1>3. Calm
  BY <1>1, <1>2, TypeParts DEF Attach, IInv, Kinds, Calm, argVars, rest, Fault
<1> QED BY <1>3, LeaveInv DEF Attach

LEMMA EnsureAwakeInv ==
  ASSUME IInv, EnsureAwake, UNCHANGED rest
  PROVE  IInv'
<1>1. Calm
  BY CalmFrame, FlagsShrink DEF EnsureAwake, beginFrame
<1>2. /\ hold.who # "none" /\ hold \in Holds /\ HolderInv
      /\ hold.at = "awake" /\ hold.ctx = "begin" /\ UNCHANGED pc
  BY FreeType DEF IInv, HolderInv, TypeOK, Place, Sending, EnsureAwake, beginFrame
<1>3. /\ hold' \in Holds /\ hold'.who = hold.who
      /\ \/ hold'.at \in {"snapshot", "waking"} /\ hold'.ctx = "begin"
         \/ hold'.at = "finish" /\ hold'.ctx = "err"
  BY <1>2, HoldMoves DEF EnsureAwake, Ats, Ctxs
<1> QED BY <1>1, <1>2, <1>3, MovesInv, FreeType DEF HolderInv, Place

LEMMA WakeEndsInv ==
  ASSUME IInv, WakeEnds, UNCHANGED rest
  PROVE  IInv'
<1>1. Calm
  BY CalmFrame, FlagsShrink DEF WakeEnds, beginFrame
<1>2. /\ hold.who # "none" /\ hold \in Holds /\ HolderInv
      /\ hold.at = "waking" /\ hold.ctx = "begin" /\ UNCHANGED pc
  BY FreeType DEF IInv, HolderInv, TypeOK, Place, Sending, WakeEnds, beginFrame
<1>3. /\ hold' \in Holds /\ hold'.who = hold.who
      /\ \/ hold'.at = "snapshot" /\ hold'.ctx = "begin"
         \/ hold'.at = "finish" /\ hold'.ctx = "err"
  BY <1>2, HoldMoves DEF WakeEnds, Ats, Ctxs
<1> QED BY <1>1, <1>2, <1>3, MovesInv, FreeType DEF HolderInv, Place

LEMMA BeginActionInv ==
  ASSUME IInv, BeginAction, UNCHANGED rest
  PROVE  IInv'
<1>1. Calm
  BY CalmFrame, FlagsShrink DEF BeginAction, beginFrame
<1>2. /\ hold.who # "none" /\ hold \in Holds /\ HolderInv
      /\ hold.at = "snapshot" /\ hold.ctx = "begin" /\ UNCHANGED pc
  BY FreeType DEF IInv, HolderInv, TypeOK, Place, Sending, BeginAction, beginFrame
<1>3. /\ hold' \in Holds /\ hold'.who = hold.who
      /\ hold'.at = "wait" /\ hold'.ctx = "baseline"
  BY <1>2, HoldMoves DEF BeginAction, Ats, Ctxs
<1> QED BY <1>1, <1>2, <1>3, MovesInv, FreeType DEF HolderInv, Place, Sending

LEMMA FinishActionInv ==
  ASSUME IInv, FinishAction, UNCHANGED rest
  PROVE  IInv'
<1>1. Calm
  BY CalmFrame, FlagsShrink DEF FinishAction
<1>2. /\ hold.who # "none" /\ hold \in Holds /\ HolderInv
      /\ hold.at = "finish" /\ hold.ctx \in {"ok", "err"}
  BY FreeType DEF IInv, HolderInv, TypeOK, Place, Sending, FinishAction
<1>3. CASE GotoFor("wait", "cleanup") /\ UNCHANGED pc
  <2>1. /\ hold' \in Holds /\ hold'.who = hold.who
        /\ hold'.at = "wait" /\ hold'.ctx = "cleanup"
    BY <1>2, <1>3, HoldMoves DEF Ats, Ctxs
  <2> QED BY <1>1, <1>2, <1>3, <2>1, MovesInv, FreeType DEF HolderInv, Place, Sending
<1>4. CASE GiveBack("idle")
  BY <1>1, <1>2, <1>4, EndsInv
<1> QED BY <1>3, <1>4 DEF FinishAction

LEMMA RecoveryLookInv ==
  ASSUME IInv, RecoveryLook, UNCHANGED rest
  PROVE  IInv'
<1>1. Calm
  BY CalmFrame, FlagsShrink DEF RecoveryLook, beginFrame
<1>2. /\ hold.who # "none" /\ hold \in Holds /\ HolderInv
      /\ hold.at = "look" /\ hold.ctx \in {"-", "recover"} /\ UNCHANGED pc
  BY FreeType DEF IInv, HolderInv, TypeOK, Place, Sending, RecoveryLook, beginFrame
<1>3. /\ hold' \in Holds /\ hold'.who = hold.who
      /\ hold'.at \in {"active", "inactive"} /\ hold'.ctx = hold.ctx
  BY <1>2, HoldMoves DEF RecoveryLook, Ats, Ctxs
<1> QED BY <1>1, <1>2, <1>3, MovesInv, FreeType DEF HolderInv, Place

LEMMA RecoveryDecideInv ==
  ASSUME IInv, RecoveryDecide, UNCHANGED rest
  PROVE  IInv'
<1>1. Shrinks
  BY FlagsShrink DEF RecoveryDecide
<1>2. wire' \in BOOLEAN /\ reenum' \in BOOLEAN
  BY Zenon DEF RecoveryDecide, IInv, TypeOK, stackVars
<1>3. wasActive' \in BOOLEAN /\ debt' \in BOOLEAN /\ (debt => debt')
  BY DEF RecoveryDecide, IInv, TypeOK
<1>4. Calm
  BY <1>1, <1>2, <1>3, TypeParts DEF RecoveryDecide, IInv, Kinds, Calm, stackVars, argVars, rest
<1>5. /\ hold.who # "none" /\ hold \in Holds /\ HolderInv /\ UNCHANGED pc
      /\ hold.at \in {"active", "inactive"} /\ hold.ctx \in {"-", "recover"}
  BY FreeType DEF IInv, HolderInv, TypeOK, Place, Sending, RecoveryDecide
<1>6. /\ hold' \in Holds /\ hold'.who = hold.who
      /\ \/ hold'.at = "wait" /\ hold'.ctx = "recover"
         \/ hold'.at = "observe" /\ hold'.ctx = hold.ctx
  BY <1>5, HoldMoves DEF RecoveryDecide, Ats, Ctxs
<1> QED BY <1>4, <1>5, <1>6, MovesInv, FreeType DEF HolderInv, Place, Sending

-----------------------------------------------------------------------------
(* A report is armed, submitted, acknowledged. *)

LEMMA ReportType ==
  ASSUME IInv
  PROVE  Report \in Reports /\ (hold.ctx = "press" => Report \in Chords /\ Report # Up)
<1>1. hold.ctx = "press" => pressed + 1 \in 1..Len(text)
  BY FreeType DEF IInv, HolderInv, TypeOK
<1>2. hold.ctx = "press" => text[pressed + 1] \in Chords
  BY <1>1 DEF IInv, TypeOK
<1> QED BY <1>2, KeyboardAssumption DEF Report, Reports

LEMMA ArmInv ==
  ASSUME IInv, Arm, UNCHANGED rest
  PROVE  IInv'
<1> USE DEF IInv, rest, Arm, stackVars, argVars
<1>0. /\ hold \in Holds /\ hold.at = "arm" /\ hold' \in Holds /\ hold'.who = hold.who
      /\ hold'.at = "submit" /\ hold'.ctx = hold.ctx /\ Report' = Report
  BY HoldMoves DEF TypeOK, Ats, Report
<1>1. Switches'
  BY Zenon, TypeParts DEF Switches
<1>2. Kinds'
  BY <1>0, ReportType, TypeParts DEF Kinds
<1>3. HolderInv'
  BY <1>0, FreeType DEF HolderInv, Place, Sending
<1>4. RelayInv'
  BY <1>0 DEF RelayInv
<1>5. ReservationInv'
  BY DEF ReservationInv
<1>6. ReportInv'
  BY <1>0 DEF ReportInv
<1>7. NoStuckKey'
  BY DEF NoStuckKey
<1> QED BY <1>1, <1>2, <1>3, <1>4, <1>5, <1>6, <1>7 DEF TypeOK, Switches, Kinds

LEMMA SubmitInv ==
  ASSUME IInv, Submit, UNCHANGED rest
  PROVE  IInv'
<1> USE DEF IInv, rest, Submit, muxVars, flags, argVars
<1>0. /\ hold \in Holds /\ hold.at = "submit" /\ hold' \in Holds /\ hold'.who = hold.who
      /\ hold'.at = "await" /\ hold'.ctx = hold.ctx /\ Report' = Report
  BY HoldMoves DEF TypeOK, Ats, Report
<1>1. Switches'
  BY Zenon, TypeParts DEF Switches
<1>2. Kinds'
  BY <1>0, ReportType, TypeParts DEF Kinds
<1>3. HolderInv'
  BY <1>0, FreeType DEF HolderInv, Place, Sending
<1>4. RelayInv'
  BY <1>0 DEF RelayInv
<1>5. ReservationInv'
  BY DEF ReservationInv
<1>6. ReportInv'
  BY <1>0 DEF ReportInv
<1>7. NoStuckKey'
  BY DEF NoStuckKey
<1> QED BY <1>1, <1>2, <1>3, <1>4, <1>5, <1>6, <1>7 DEF TypeOK, Switches, Kinds

\* The report went through: whatever it was for, the debt is settled only when
\* the host believes in the neutral report.
LEMMA AcknowledgedInv ==
  ASSUME IInv, Acknowledged, UNCHANGED <<holdFrame, rest, waiting, complete>>,
         hold.at \in {"arm", "await"}, xfer = "idle", Report = Up => host = Up,
         neutral' \in BOOLEAN, neutral' => neutral
  PROVE  IInv'
<1> USE DEF IInv
<1>0. UNCHANGED <<stackVars, expected, fresh, reenum, wasActive, text, faults, pin,
                  pwrQuiesced, waiting, complete>>
  BY DEF holdFrame, rest
<1>1. hold \in Holds /\ hold.who # "none" /\ HolderInv /\ Place(hold.at, hold.ctx)
  BY FreeType DEF HolderInv, TypeOK
<1>a. /\ hold.ctx \in {"press", "baseline", "release", "cleanup"} => hold.who = "relay"
      /\ hold.ctx = "quiesce" => hold.who \in Reservers /\ pc[hold.who] = "hid"
      /\ ~quiesced
  BY <1>1, HolderFacts, FreeType DEF HolderInv
<1>2. hold.ctx # "press" => host = Up
  BY DEF Report
<1>3. /\ hold' \in Holds /\ pc' \in [Callers -> Places] /\ downs' \in Seq(Chords)
      /\ pressed' \in Nat /\ debt' \in BOOLEAN /\ quiesced' \in BOOLEAN
      => TypeOK'
  <2>1. Switches' <=> debt' \in BOOLEAN /\ quiesced' \in BOOLEAN
    BY <1>0, Zenon, TypeParts DEF Switches, stackVars
  <2> QED BY <1>0, <2>1, TypeParts DEF Kinds, TypeOK, Switches, stackVars
<1>4. CASE hold.ctx = "press"
  <2>0. /\ hold' \in Holds /\ hold'.who = hold.who /\ hold'.at = "wait" /\ hold'.ctx = "release"
        /\ UNCHANGED <<debt, quiesced, pressed, pc, downs>>
    BY <1>1, <1>4, HoldMoves DEF Acknowledged, Ats, Ctxs
  <2>1. TypeOK'
    BY <1>3, <2>0 DEF TypeOK
  <2>2. HolderInv'
    BY <1>0, <1>1, <1>4, <2>0, FreeType DEF HolderInv, Place, Sending
  <2>3. RelayInv'
    BY <1>0, <1>4, <2>0 DEF RelayInv
  <2>4. ReservationInv'
    BY <1>0, <1>4, <2>0 DEF ReservationInv
  <2>5. ReportInv'
    BY <1>0, <1>4, <2>0 DEF ReportInv, stackVars
  <2>6. NoStuckKey'
    BY <1>0, <1>4, <2>0 DEF NoStuckKey, stackVars
  <2> QED BY <2>1, <2>2, <2>3, <2>4, <2>5, <2>6
<1>5. CASE hold.ctx \in {"baseline", "release", "recover"}
  <2>0. /\ hold' \in Holds /\ hold'.who = hold.who /\ debt' = FALSE
        /\ \/ hold'.at = "finish" /\ hold'.ctx = "ok" /\ hold.ctx # "recover"
           \/ /\ hold'.at = "wait" /\ hold'.ctx = "press" /\ hold.ctx # "recover"
              /\ hold.ctx = "baseline" => text # <<>> /\ pressed' = pressed
              /\ hold.ctx = "release" => pressed' < Len(text)
           \/ hold'.at = "observe" /\ hold'.ctx = hold.ctx /\ hold.ctx = "recover"
        /\ UNCHANGED <<quiesced, pc>> /\ pressed' \in Nat
        /\ downs' \in {downs, <<>>}
    BY <1>1, <1>5, HoldMoves DEF Acknowledged, TypeOK, Ats, Ctxs
  <2>1. TypeOK'
    <3>1. debt' \in BOOLEAN /\ quiesced' \in BOOLEAN
      BY <2>0, Zenon DEF TypeOK
    <3>2. pc' \in [Callers -> Places]
      BY <2>0 DEF TypeOK
    <3>3. downs' \in Seq(Chords)
      <4>1. <<>> \in Seq(Chords)
        OBVIOUS
      <4> QED BY <2>0, <4>1 DEF TypeOK
    <3> QED BY <1>3, <2>0, <3>1, <3>2, <3>3
  <2>2. HolderInv'
    <3>1. text # <<>> => 0 < Len(text)
      BY DEF TypeOK
    <3> QED BY <1>0, <1>1, <1>5, <2>0, <3>1, FreeType DEF HolderInv, Place, Sending
  <2>3. RelayInv'
    <3>1. pc' = pc /\ hold'.who = hold.who /\ pin' = pin
      BY <1>0, <2>0
    <3>2. hold.ctx = "recover" => pressed' = pressed
      BY DEF Acknowledged
    <3> QED BY <1>a, <1>5, <3>1, <3>2 DEF RelayInv
  <2>4. ReservationInv'
    BY <1>0, <1>5, <2>0 DEF ReservationInv
  <2>5. ReportInv'
    BY <1>0, <1>5, <2>0 DEF ReportInv, stackVars
  <2>6. NoStuckKey'
    BY <1>0, <1>2, <1>5, <2>0 DEF NoStuckKey, stackVars
  <2> QED BY <2>1, <2>2, <2>3, <2>4, <2>5, <2>6
<1>6. CASE hold.ctx \in {"cleanup", "quiesce"}
  <2> DEFINE r == IF hold.ctx = "cleanup" THEN "idle" ELSE "reserved"
  <2>0. /\ hold' = Free /\ hold' \in Holds
        /\ hold'.who = "none" /\ hold'.at = "-" /\ hold'.ctx = "-"
        /\ pc' \in [Callers -> Places]
        /\ \A p \in Callers : pc'[p] = IF p = hold.who THEN r ELSE pc[p]
        /\ debt' = FALSE /\ quiesced' = (quiesced \/ hold.ctx = "quiesce")
        /\ UNCHANGED <<pressed, downs>>
    <3>1. GiveBack(r) /\ r \in Places
      BY <1>6 DEF Acknowledged, Places, Committed
    <3>2. debt' = FALSE /\ quiesced' = (quiesced \/ hold.ctx = "quiesce")
          /\ UNCHANGED <<pressed, downs>>
      BY <1>6 DEF Acknowledged, TypeOK
    <3> QED BY <1>1, <3>1, <3>2, GiveBackMoves, FreeType DEF TypeOK
  <2>1. TypeOK'
    BY <1>3, <2>0 DEF TypeOK
  <2>2. HolderInv'
    BY <2>0 DEF HolderInv
  <2>3. RelayInv'
    BY <1>0, <1>1, <1>6, <2>0, FreeType DEF RelayInv, HolderInv, Callers, Reservers
  <2>4. ReservationInv'
    <3>1. CASE hold.ctx = "cleanup"
      <4>1. hold.who = "relay" /\ ~quiesced /\ ~quiesced'
        BY <1>a, <2>0, <3>1
      <4> QED BY <1>0, <2>0, <3>1, <4>1 DEF ReservationInv, RelayInv, Callers, Reservers
    <3>2. CASE hold.ctx = "quiesce"
      <4>1. hold.who \in Reservers /\ pc[hold.who] = "hid" /\ quiesced' /\ ~quiesced
        BY <1>a, <2>0, <3>2
      <4> QED BY <1>0, <2>0, <3>2, <4>1
              DEF ReservationInv, HasPower, Committed, Callers, Reservers
    <3> QED BY <1>6, <3>1, <3>2
  <2>5. ReportInv'
    BY <1>0, <2>0 DEF ReportInv, stackVars
  <2>6. NoStuckKey'
    BY <1>0, <1>2, <1>6, <2>0 DEF NoStuckKey, stackVars
  <2> QED BY <2>1, <2>2, <2>3, <2>4, <2>5, <2>6
<1> QED BY <1>1, <1>4, <1>5, <1>6 DEF Place, Sending

LEMMA ClaimInv ==
  ASSUME IInv, Claim, UNCHANGED rest
  PROVE  IInv'
BY AcknowledgedInv DEF Claim, IInv, ReportInv

LEMMA AwaitCompleteInv ==
  ASSUME IInv, AwaitComplete, UNCHANGED rest
  PROVE  IInv'
<1>1. xfer = "idle" /\ (Report = Up => host = Up)
  BY DEF AwaitComplete, IInv, ReportInv
<1>2. neutral' \in BOOLEAN /\ (neutral' => neutral)
  BY DEF AwaitComplete
<1> QED BY <1>1, <1>2, AcknowledgedInv DEF AwaitComplete

-----------------------------------------------------------------------------
(* Reserving, completions, the start of an action, the end of a recovery *)

LEMMA QuiesceInv ==
  ASSUME IInv, Quiesce, UNCHANGED rest
  PROVE  IInv'
<1>1. /\ hold.who \in Reservers /\ hold \in Holds /\ hold.at = "quiet" /\ hold.ctx = "-"
      /\ pc[hold.who] = "hid" /\ ~quiesced
  BY FreeType DEF IInv, HolderInv, Place, Sending, TypeOK, Quiesce
<1>2. CASE GotoFor("wait", "quiesce") /\ UNCHANGED <<flags, quiesced, pc>>
  <2>1. Calm
    BY <1>2, CalmFrame, FlagsShrink DEF Quiesce
  <2>2. /\ hold' \in Holds /\ hold'.who = hold.who
        /\ hold'.at = "wait" /\ hold'.ctx = "quiesce"
    BY <1>1, <1>2, HoldMoves DEF Ats, Ctxs
  <2> QED BY <1>1, <1>2, <2>1, <2>2, MovesInv DEF Place, Sending, Reservers
<1>3. CASE BusFails /\ quiesced' = TRUE /\ GiveBack("reserved")
  <2>0. /\ hold' = Free /\ hold' \in Holds
        /\ hold'.who = "none" /\ hold'.at = "-" /\ hold'.ctx = "-"
        /\ pc' \in [Callers -> Places]
        /\ \A p \in Callers : pc'[p] = IF p = hold.who THEN "reserved" ELSE pc[p]
    BY <1>1, <1>3, GiveBackMoves, FreeType DEF IInv, TypeOK, Places, Committed
  <2>1. Shrinks
    BY <1>3, FlagsShrink
  <2>2. UNCHANGED <<bus, wire, xfer, buf, host, expected, fresh, reenum, debt, wasActive,
                    text, pressed, downs, faults, pin, pwrQuiesced>>
    BY DEF Quiesce, stackVars, argVars, rest
  <2>3. Switches'
    <3>1. quiesced' \in BOOLEAN
      BY <1>3
    <3> QED BY <2>1, <2>2, <3>1, Zenon DEF Switches, Shrinks, IInv, TypeOK
  <2>4. Kinds'
    BY <2>0, <2>2, TypeParts DEF Kinds, IInv
  <2>5. HolderInv'
    BY <2>0 DEF HolderInv
  <2>6. RelayInv'
    BY <1>1, <2>0, <2>2 DEF RelayInv, IInv, Callers, Reservers
  <2>7. ReservationInv'
    BY <1>1, <1>3, <2>0, <2>2 DEF ReservationInv, IInv, HasPower, Committed, Callers, Reservers
  <2>8. ReportInv'
    BY <2>0, <2>1, <2>2 DEF ReportInv, IInv, Shrinks
  <2>9. NoStuckKey'
    BY <2>2 DEF NoStuckKey, IInv
  <2> QED BY <2>3, <2>4, <2>5, <2>6, <2>7, <2>8, <2>9 DEF IInv, TypeOK, Switches, Kinds
<1> QED BY <1>2, <1>3 DEF Quiesce

LEMMA ReportCompleteInv ==
  ASSUME IInv, ReportComplete, UNCHANGED rest
  PROVE  IInv'
<1> USE DEF IInv, ReportComplete, deviceVars, argVars, rest
<1>1. Switches'
  <2>1. waiting' \in BOOLEAN /\ complete' \in BOOLEAN /\ neutral' \in BOOLEAN
    BY DEF TypeOK, flags
  <2> QED BY <2>1, Zenon DEF Switches, TypeOK
<1>2. Kinds'
  BY TypeParts DEF Kinds
<1>3. HolderInv'
  BY DEF HolderInv
<1>4. RelayInv'
  BY DEF RelayInv
<1>5. ReservationInv'
  BY DEF ReservationInv
<1>6. ReportInv'
  <2>1. hold' = hold /\ Report' = Report /\ host' = host /\ buf' = buf /\ expected' = expected
        /\ xfer = "taken" /\ xfer' = "idle"
    BY DEF Report
  <2>2. xfer = "taken" /\ buf = Up => host = Up
    BY DEF ReportInv
  <2>3. CASE waiting
    BY <2>1, <2>2, <2>3 DEF ReportInv
  <2>4. CASE ~waiting
    BY <2>1, <2>4 DEF ReportInv, flags
  <2> QED BY <2>3, <2>4
<1>7. NoStuckKey'
  BY DEF NoStuckKey
<1> QED BY <1>1, <1>2, <1>3, <1>4, <1>5, <1>6, <1>7 DEF TypeOK, Switches, Kinds

LEMMA ReportFailedInv ==
  ASSUME IInv, ReportFailed, UNCHANGED rest
  PROVE  IInv'
<1> USE DEF IInv, ReportFailed, ClearReport, argVars, rest, Fault
<1>1. Switches'
  BY Zenon DEF Switches, TypeOK
<1>2. Kinds'
  <2>1. host' \in Reports /\ downs' \in Seq(Chords)
    <3>1. CASE UNCHANGED <<host, downs>>
      BY <3>1 DEF TypeOK
    <3>2. CASE host' = buf /\ downs' = IF buf = Up THEN downs ELSE Append(downs, buf)
      <4>1. buf # Up => buf \in Chords
        BY DEF TypeOK, Reports
      <4> QED BY <3>2, <4>1 DEF TypeOK
    <3> QED BY <3>1, <3>2
  <2> QED BY <2>1, TypeParts DEF Kinds
<1>3. HolderInv'
  BY DEF HolderInv
<1>4. RelayInv'
  BY DEF RelayInv
<1>5. ReservationInv'
  BY DEF ReservationInv
<1>6. ReportInv'
  BY DEF ReportInv, Report
<1>7. NoStuckKey'
  BY DEF NoStuckKey
<1> QED BY <1>1, <1>2, <1>3, <1>4, <1>5, <1>6, <1>7 DEF TypeOK, Switches, Kinds

LEMMA ActionStartInv ==
  ASSUME IInv, ActionStart, UNCHANGED rest
  PROVE  IInv'
<1> USE DEF IInv, ActionStart, stackVars, muxVars, flags, rest
<1>0. text' \in Seq(Chords)
  <2>1. PICK t \in Texts : Valid(t) /\ text' = t
    OBVIOUS
  <2>2. t \in Seq(Chords \cup {Unknown})
    BY KeyboardAssumption
  <2>3. \A n \in 1..Len(t) : t[n] \in Chords
    BY <2>1, <2>2 DEF Valid
  <2> QED BY <2>1, <2>2, <2>3
<1>1. /\ pc["relay"] = "idle" /\ pc' \in [Callers -> Places] /\ pc'["relay"] = "want"
      /\ \A q \in Reservers : pc'[q] = pc[q]
  BY DEF TypeOK, Callers, Places, Reservers
<1>2. hold' = hold /\ hold.ctx \notin {"begin", "baseline", "press"} /\ hold.who # "relay"
  BY <1>1, HolderFacts DEF TypeOK, RelayInv
<1>3. Switches'
  BY Zenon DEF Switches, TypeOK
<1>4. Kinds'
  BY <1>0, <1>1, TypeParts DEF Kinds
<1>5. HolderInv'
  BY <1>1, <1>2 DEF HolderInv
<1>6. RelayInv'
  BY <1>1, <1>2 DEF RelayInv
<1>7. ReservationInv'
  BY <1>1 DEF ReservationInv, HasPower, Committed
<1>8. ReportInv'
  <2>1. Report' = Report
    BY <1>2 DEF Report
  <2> QED BY <1>2, <2>1 DEF ReportInv
<1>9. NoStuckKey'
  BY DEF NoStuckKey
<1> QED BY <1>3, <1>4, <1>5, <1>6, <1>7, <1>8, <1>9 DEF TypeOK, Switches, Kinds

LEMMA LockActionInv ==
  ASSUME IInv, LockAction, UNCHANGED rest
  PROVE  IInv'
<1> USE DEF IInv, LockAction, stackVars, muxVars, flags, argVars, rest
<1>1. /\ pc["relay"] = "want" /\ pc' \in [Callers -> Places] /\ pc'["relay"] = "busy"
      /\ \A q \in Reservers : pc'[q] = pc[q]
  BY DEF TypeOK, Callers, Places, Reservers
<1>2. /\ hold' \in Holds /\ hold'.who = "relay" /\ hold'.at = "awake" /\ hold'.ctx = "begin"
      /\ hold.who = "none"
  BY FreeType DEF Holds, Callers, Ats, Ctxs
<1>3. Switches'
  BY Zenon DEF Switches, TypeOK
<1>4. Kinds'
  BY <1>1, <1>2, TypeParts DEF Kinds
<1>5. HolderInv'
  BY <1>1, <1>2 DEF HolderInv, RelayInv, Place, Reservers
<1>6. RelayInv'
  BY <1>1, <1>2 DEF RelayInv
<1>7. ReservationInv'
  BY <1>1 DEF ReservationInv, HasPower, Committed
<1>8. ReportInv'
  BY <1>2 DEF ReportInv
<1>9. NoStuckKey'
  BY DEF NoStuckKey
<1> QED BY <1>3, <1>4, <1>5, <1>6, <1>7, <1>8, <1>9 DEF TypeOK, Switches, Kinds

LEMMA RecoveryObserveInv ==
  ASSUME IInv, RecoveryObserve, UNCHANGED rest
  PROVE  IInv'
<1> USE DEF IInv, RecoveryObserve, beginFrame, stackVars, flags, argVars, rest
<1>1. hold.who = "recovery"
  BY FreeType DEF HolderInv, Place, Sending
<1>2. hold' = Free /\ UNCHANGED pc
  OBVIOUS
<1>3. Switches'
  BY Zenon DEF Switches, TypeOK
<1>4. fresh' \subseteq {"action", "recovery", "observed"}
  BY DEF TypeOK
<1>5. Kinds'
  BY <1>2, <1>4, FreeType, TypeParts DEF Kinds
<1>6. HolderInv'
  BY <1>2 DEF HolderInv
<1>7. RelayInv'
  BY <1>1, <1>2, FreeType DEF RelayInv
<1>8. ReservationInv'
  BY DEF ReservationInv
<1>9. ReportInv'
  BY <1>2, FreeType DEF ReportInv
<1>10. NoStuckKey'
  BY DEF NoStuckKey
<1> QED BY <1>3, <1>5, <1>6, <1>7, <1>8, <1>9, <1>10 DEF TypeOK, Switches, Kinds

-----------------------------------------------------------------------------
(* The bus and the host: they leave the holder and the callers alone. *)

LEMMA Parts ==
  ASSUME Switches', Kinds', HolderInv', RelayInv', ReservationInv', ReportInv', NoStuckKey'
  PROVE  IInv'
BY DEF IInv, TypeOK, Switches, Kinds

LEMMA BusFrame ==
  ASSUME IInv, UNCHANGED <<hold, quiesced, argVars, pc, rest>>
  PROVE  HolderInv' /\ RelayInv' /\ ReservationInv' /\ Report' = Report
<1>1. HolderInv'
  BY DEF IInv, HolderInv, argVars
<1>2. RelayInv'
  BY DEF IInv, RelayInv, argVars, rest
<1>3. ReservationInv'
  BY DEF IInv, ReservationInv, rest
<1> QED BY <1>1, <1>2, <1>3 DEF Report, argVars

LEMMA HostResetInv ==
  ASSUME IInv, HostReset, UNCHANGED rest
  PROVE  IInv'
<1> USE DEF HostReset, argVars, Fault, muxVars, flags, deviceVars
<1>1. HolderInv' /\ RelayInv' /\ ReservationInv' /\ Report' = Report
  BY BusFrame
<1>2. Switches'
  BY Zenon DEF Switches, IInv, TypeOK, rest
<1>3. Kinds'
  BY TypeParts DEF Kinds, IInv, Reports
<1>4. ReportInv'
  BY <1>1 DEF IInv, ReportInv
<1>5. NoStuckKey'
  BY DEF IInv, NoStuckKey, ReportInv
<1> QED BY <1>1, <1>2, <1>3, <1>4, <1>5, Parts

LEMMA MountInv ==
  ASSUME IInv, Mount, UNCHANGED rest
  PROVE  IInv'
<1> USE DEF Mount, argVars, LifecycleEvent, ClearReport, deviceVars
<1>1. HolderInv' /\ RelayInv' /\ ReservationInv' /\ Report' = Report
  BY BusFrame
<1>2. Switches'
  BY Zenon DEF Switches, IInv, TypeOK, rest
<1>3. Kinds'
  BY TypeParts DEF Kinds, IInv, Reports
<1>4. ReportInv'
  BY <1>1 DEF IInv, ReportInv
<1>5. NoStuckKey'
  BY DEF IInv, NoStuckKey, ReportInv
<1> QED BY <1>1, <1>2, <1>3, <1>4, <1>5, Parts

LEMMA UnmountInv ==
  ASSUME IInv, Unmount, UNCHANGED rest
  PROVE  IInv'
<1> USE DEF Unmount, argVars, LifecycleEvent, ClearReport, Fault, deviceVars
<1>1. HolderInv' /\ RelayInv' /\ ReservationInv' /\ Report' = Report
  BY BusFrame
<1>2. Switches'
  BY Zenon DEF Switches, IInv, TypeOK, rest
<1>3. Kinds'
  BY TypeParts DEF Kinds, IInv, Reports
<1>4. ReportInv'
  BY <1>1 DEF IInv, ReportInv
<1>5. NoStuckKey'
  BY DEF IInv, NoStuckKey, ReportInv
<1> QED BY <1>1, <1>2, <1>3, <1>4, <1>5, Parts

LEMMA SuspendInv ==
  ASSUME IInv, Suspend, UNCHANGED rest
  PROVE  IInv'
<1> USE DEF Suspend, argVars, LifecycleEvent, ClearReport, Fault, flags, deviceVars
<1>1. HolderInv' /\ RelayInv' /\ ReservationInv' /\ Report' = Report
  BY BusFrame
<1>2. Switches'
  BY Zenon DEF Switches, IInv, TypeOK, rest
<1>3. Kinds'
  BY TypeParts DEF Kinds, IInv, Reports
<1>4. ReportInv'
  BY <1>1 DEF IInv, ReportInv
<1>5. NoStuckKey'
  BY DEF IInv, NoStuckKey, ReportInv
<1> QED BY <1>1, <1>2, <1>3, <1>4, <1>5, Parts

LEMMA ResumeInv ==
  ASSUME IInv, Resume, UNCHANGED rest
  PROVE  IInv'
<1> USE DEF Resume, argVars, LifecycleEvent, ClearReport, flags, deviceVars
<1>1. HolderInv' /\ RelayInv' /\ ReservationInv' /\ Report' = Report
  BY BusFrame
<1>2. Switches'
  BY Zenon DEF Switches, IInv, TypeOK, rest
<1>3. Kinds'
  BY TypeParts DEF Kinds, IInv, Reports
<1>4. ReportInv'
  BY <1>1 DEF IInv, ReportInv
<1>5. NoStuckKey'
  BY DEF IInv, NoStuckKey, ReportInv
<1> QED BY <1>1, <1>2, <1>3, <1>4, <1>5, Parts

LEMMA HostTakesInv ==
  ASSUME IInv, HostTakes, UNCHANGED rest
  PROVE  IInv'
<1> USE DEF HostTakes, argVars, muxVars, flags
<1>1. HolderInv' /\ RelayInv' /\ ReservationInv' /\ Report' = Report
  BY BusFrame
<1>2. Switches'
  BY Zenon DEF Switches, IInv, TypeOK, rest
<1>3. Kinds'
  BY TypeParts DEF Kinds, IInv, Reports
<1>4. ReportInv'
  BY <1>1 DEF IInv, ReportInv
<1>5. NoStuckKey'
  BY DEF IInv, NoStuckKey, ReportInv
<1> QED BY <1>1, <1>2, <1>3, <1>4, <1>5, Parts

-----------------------------------------------------------------------------
(* The power button and the reservations: the keyboard's own state stays. *)

LEMMA UsbFrame ==
  ASSUME IInv, UNCHANGED usbVars, faults' \in Nat, pc' \in [Callers -> Places],
         quiesced' \in BOOLEAN, pin' \in BOOLEAN, pwrQuiesced' \in BOOLEAN
  PROVE  Switches' /\ Kinds' /\ ReportInv' /\ NoStuckKey'
<1> USE DEF usbVars, stackVars, muxVars, flags, argVars
<1>1. Switches'
  BY Zenon DEF Switches, IInv, TypeOK
<1>2. Kinds'
  BY TypeParts DEF Kinds, IInv
<1>3. ReportInv' /\ NoStuckKey'
  BY DEF IInv, ReportInv, NoStuckKey, Report
<1> QED BY <1>1, <1>2, <1>3

LEMMA PulseInv ==
  ASSUME IInv, Pulse
  PROVE  IInv'
<1> USE DEF Pulse, Go
<1>1. pc' \in [Callers -> Places]
  BY DEF IInv, TypeOK, Callers, Reservers, Places, Committed
<1>2. Switches' /\ Kinds' /\ ReportInv' /\ NoStuckKey'
  BY <1>1, UsbFrame, Zenon DEF IInv, TypeOK
<1>3. HolderInv'
  BY FreeType, HolderFacts DEF IInv, TypeOK, HolderInv, RelayInv, usbVars, argVars, Callers, Reservers
<1>4. RelayInv'
  BY DEF IInv, TypeOK, RelayInv, usbVars, argVars, Callers, Reservers
<1>5. ReservationInv'
  BY DEF IInv, TypeOK, RelayInv, ReservationInv, HasPower, Committed, Callers, Reservers
<1> QED BY <1>2, <1>3, <1>4, <1>5, Parts

LEMMA PulseEndsInv ==
  ASSUME IInv, PulseEnds
  PROVE  IInv'
<1> USE DEF PulseEnds, Go
<1>1. pc' \in [Callers -> Places]
  BY DEF IInv, TypeOK, Callers, Reservers, Places, Committed
<1>2. Switches' /\ Kinds' /\ ReportInv' /\ NoStuckKey'
  BY <1>1, UsbFrame, Zenon DEF IInv, TypeOK
<1>3. HolderInv'
  BY FreeType, HolderFacts DEF IInv, TypeOK, HolderInv, RelayInv, usbVars, argVars, Callers, Reservers
<1>4. RelayInv'
  BY DEF IInv, TypeOK, RelayInv, usbVars, argVars, Callers, Reservers
<1>5. ReservationInv'
  BY DEF IInv, TypeOK, RelayInv, ReservationInv, HasPower, Committed, Callers, Reservers
<1> QED BY <1>2, <1>3, <1>4, <1>5, Parts

LEMMA RequestInv ==
  ASSUME NEW q \in Reservers, IInv, Request(q)
  PROVE  IInv'
<1> USE DEF Request, Go, Fault
<1>0. faults' \in Nat
  BY DEF IInv, TypeOK
<1>1. pc' \in [Callers -> Places]
  BY DEF IInv, TypeOK, Callers, Reservers, Places, Committed
<1>2. Switches' /\ Kinds' /\ ReportInv' /\ NoStuckKey'
  BY <1>0, <1>1, UsbFrame, Zenon DEF IInv, TypeOK
<1>3. HolderInv'
  BY FreeType, HolderFacts DEF IInv, TypeOK, HolderInv, RelayInv, usbVars, argVars, Callers, Reservers
<1>4. RelayInv'
  BY DEF IInv, TypeOK, RelayInv, usbVars, argVars, Callers, Reservers
<1>5. ReservationInv'
  BY DEF IInv, TypeOK, RelayInv, ReservationInv, HasPower, Committed, Callers, Reservers
<1> QED BY <1>2, <1>3, <1>4, <1>5, Parts

LEMMA QuiescePowerInv ==
  ASSUME NEW q \in Reservers, IInv, QuiescePower(q)
  PROVE  IInv'
<1> USE DEF QuiescePower, Go
<1>1. pc' \in [Callers -> Places]
  BY DEF IInv, TypeOK, Callers, Reservers, Places, Committed
<1>2. Switches' /\ Kinds' /\ ReportInv' /\ NoStuckKey'
  BY <1>1, UsbFrame, Zenon DEF IInv, TypeOK
<1>3. HolderInv'
  BY FreeType, HolderFacts DEF IInv, TypeOK, HolderInv, RelayInv, usbVars, argVars, Callers, Reservers
<1>4. RelayInv'
  BY DEF IInv, TypeOK, RelayInv, usbVars, argVars, Callers, Reservers
<1>5. ReservationInv'
  BY DEF IInv, TypeOK, RelayInv, ReservationInv, HasPower, Committed, Callers, Reservers
<1> QED BY <1>2, <1>3, <1>4, <1>5, Parts

LEMMA PowerBusyInv ==
  ASSUME NEW q \in Reservers, IInv, PowerBusy(q)
  PROVE  IInv'
<1> USE DEF PowerBusy, Go
<1>1. pc' \in [Callers -> Places]
  BY DEF IInv, TypeOK, Callers, Reservers, Places, Committed
<1>2. Switches' /\ Kinds' /\ ReportInv' /\ NoStuckKey'
  BY <1>1, UsbFrame, Zenon DEF IInv, TypeOK
<1>3. HolderInv'
  BY FreeType, HolderFacts DEF IInv, TypeOK, HolderInv, RelayInv, usbVars, argVars, Callers, Reservers
<1>4. RelayInv'
  BY DEF IInv, TypeOK, RelayInv, usbVars, argVars, Callers, Reservers
<1>5. ReservationInv'
  BY DEF IInv, TypeOK, RelayInv, ReservationInv, HasPower, Committed, Callers, Reservers
<1> QED BY <1>2, <1>3, <1>4, <1>5, Parts

LEMMA KeyboardRefusesInv ==
  ASSUME NEW q \in Reservers, IInv, KeyboardRefuses(q)
  PROVE  IInv'
<1> USE DEF KeyboardRefuses, Go
<1>1. pc' \in [Callers -> Places]
  BY DEF IInv, TypeOK, Callers, Reservers, Places, Committed
<1>2. Switches' /\ Kinds' /\ ReportInv' /\ NoStuckKey'
  BY <1>1, UsbFrame, Zenon DEF IInv, TypeOK
<1>3. HolderInv'
  BY FreeType, HolderFacts DEF IInv, TypeOK, HolderInv, RelayInv, usbVars, argVars, Callers, Reservers
<1>4. RelayInv'
  BY DEF IInv, TypeOK, RelayInv, usbVars, argVars, Callers, Reservers
<1>5. ReservationInv'
  BY DEF IInv, TypeOK, RelayInv, ReservationInv, HasPower, Committed, Callers, Reservers
<1> QED BY <1>2, <1>3, <1>4, <1>5, Parts

LEMMA CommitInv ==
  ASSUME NEW q \in Reservers, IInv, Commit(q)
  PROVE  IInv'
<1> USE DEF Commit, Go
<1>1. pc' \in [Callers -> Places]
  BY DEF IInv, TypeOK, Callers, Reservers, Places, Committed
<1>2. Switches' /\ Kinds' /\ ReportInv' /\ NoStuckKey'
  BY <1>1, UsbFrame, Zenon DEF IInv, TypeOK
<1>3. HolderInv'
  BY FreeType, HolderFacts DEF IInv, TypeOK, HolderInv, RelayInv, usbVars, argVars, Callers, Reservers
<1>4. RelayInv'
  BY DEF IInv, TypeOK, RelayInv, usbVars, argVars, Callers, Reservers
<1>5. ReservationInv'
  BY DEF IInv, TypeOK, RelayInv, ReservationInv, HasPower, Committed, Callers, Reservers
<1> QED BY <1>2, <1>3, <1>4, <1>5, Parts

LEMMA UnwindInv ==
  ASSUME NEW q \in Reservers, IInv, Unwind(q)
  PROVE  IInv'
<1> USE DEF Unwind, Go
<1>1. pc' \in [Callers -> Places]
  BY DEF IInv, TypeOK, Callers, Reservers, Places, Committed
<1>2. Switches' /\ Kinds' /\ ReportInv' /\ NoStuckKey'
  BY <1>1, UsbFrame, Zenon DEF IInv, TypeOK
<1>3. HolderInv'
  BY FreeType, HolderFacts DEF IInv, TypeOK, HolderInv, RelayInv, usbVars, argVars, Callers, Reservers
<1>4. RelayInv'
  BY DEF IInv, TypeOK, RelayInv, usbVars, argVars, Callers, Reservers
<1>5. ReservationInv'
  BY DEF IInv, TypeOK, RelayInv, ReservationInv, HasPower, Committed, Callers, Reservers
<1> QED BY <1>2, <1>3, <1>4, <1>5, Parts

LEMMA UnwindKeyboardInv ==
  ASSUME NEW q \in Reservers, IInv, UnwindKeyboard(q)
  PROVE  IInv'
<1> USE DEF UnwindKeyboard, Go
<1>1. pc' \in [Callers -> Places]
  BY DEF IInv, TypeOK, Callers, Reservers, Places, Committed
<1>2. Switches' /\ Kinds' /\ ReportInv' /\ NoStuckKey'
  BY <1>1, UsbFrame, Zenon DEF IInv, TypeOK
<1>3. HolderInv'
  BY FreeType, HolderFacts DEF IInv, TypeOK, HolderInv, RelayInv, usbVars, argVars, Callers, Reservers
<1>4. RelayInv'
  BY DEF IInv, TypeOK, RelayInv, usbVars, argVars, Callers, Reservers
<1>5. ReservationInv'
  BY DEF IInv, TypeOK, RelayInv, ReservationInv, HasPower, Committed, Callers, Reservers
<1> QED BY <1>2, <1>3, <1>4, <1>5, Parts

LEMMA UnwindPowerInv ==
  ASSUME NEW q \in Reservers, IInv, UnwindPower(q)
  PROVE  IInv'
<1> USE DEF UnwindPower, Go
<1>1. pc' \in [Callers -> Places]
  BY DEF IInv, TypeOK, Callers, Reservers, Places, Committed
<1>2. Switches' /\ Kinds' /\ ReportInv' /\ NoStuckKey'
  BY <1>1, UsbFrame, Zenon DEF IInv, TypeOK
<1>3. HolderInv'
  BY FreeType, HolderFacts DEF IInv, TypeOK, HolderInv, RelayInv, usbVars, argVars, Callers, Reservers
<1>4. RelayInv'
  BY DEF IInv, TypeOK, RelayInv, usbVars, argVars, Callers, Reservers
<1>5. ReservationInv'
  BY DEF IInv, TypeOK, RelayInv, ReservationInv, HasPower, Committed, Callers, Reservers
<1> QED BY <1>2, <1>3, <1>4, <1>5, Parts

-----------------------------------------------------------------------------
(* Steps that only take the lock, or a place in the queue for it *)

LEMMA ActionBusyInv ==
  ASSUME IInv, ActionBusy, UNCHANGED rest
  PROVE  IInv'
<1> USE DEF ActionBusy, rest
<1>1. pc' \in [Callers -> Places]
  BY DEF IInv, TypeOK, Callers, Places
<1>2. Switches' /\ Kinds' /\ ReportInv' /\ NoStuckKey'
  BY <1>1, UsbFrame, Zenon DEF IInv, TypeOK, usbVars
<1>3. HolderInv'
  BY DEF IInv, TypeOK, HolderInv, argVars, Callers, Reservers
<1>4. RelayInv'
  BY DEF IInv, TypeOK, RelayInv, Callers
<1>5. ReservationInv'
  BY DEF IInv, TypeOK, ReservationInv, HasPower, Committed, Callers, Reservers
<1> QED BY <1>2, <1>3, <1>4, <1>5, Parts

LEMMA QuiesceBusyInv ==
  ASSUME IInv, NEW q \in Reservers, QuiesceBusy(q), UNCHANGED rest
  PROVE  IInv'
<1> USE DEF QuiesceBusy, rest
<1>1. pc' \in [Callers -> Places]
  BY DEF IInv, TypeOK, Callers, Places, Reservers
<1>2. Switches' /\ Kinds' /\ ReportInv' /\ NoStuckKey'
  BY <1>1, UsbFrame, Zenon DEF IInv, TypeOK, usbVars
<1>3. HolderInv'
  BY DEF IInv, TypeOK, HolderInv, argVars, Callers, Reservers
<1>4. RelayInv'
  BY DEF IInv, TypeOK, RelayInv, argVars, Callers, Reservers
<1>5. ReservationInv'
  BY DEF IInv, TypeOK, ReservationInv, HasPower, Committed, Callers, Reservers
<1> QED BY <1>2, <1>3, <1>4, <1>5, Parts

\* The lock is taken to look at the keyboard.
LEMMA TakeInv ==
  ASSUME IInv, UNCHANGED <<beginFrame, fresh, flags, rest>>, hold = Free, ~quiesced,
         hold' \in Holds,
         \/ hold'.who = "recovery" /\ hold'.at = "look" /\ hold'.ctx = "-"
         \/ /\ hold'.who \in Reservers /\ pc[hold'.who] = "hid"
            /\ hold'.at = "quiet" /\ hold'.ctx = "-"
  PROVE  IInv'
<1> USE DEF beginFrame, stackVars, flags, argVars, rest
<1>1. Switches'
  BY Zenon DEF Switches, IInv, TypeOK
<1>2. Kinds'
  BY TypeParts DEF Kinds, IInv
<1>3. HolderInv'
  BY DEF HolderInv, Place, Reservers
<1>4. RelayInv'
  BY FreeType DEF IInv, RelayInv, Reservers
<1>5. ReservationInv'
  BY DEF IInv, ReservationInv
<1>6. ReportInv'
  BY DEF IInv, ReportInv
<1>7. NoStuckKey'
  BY DEF IInv, NoStuckKey
<1> QED BY <1>1, <1>2, <1>3, <1>4, <1>5, <1>6, <1>7, Parts

LEMMA RecoveryTakeInv ==
  ASSUME IInv, RecoveryTake, UNCHANGED rest
  PROVE  IInv'
<1>1. /\ hold' \in Holds
      /\ hold'.who = "recovery" /\ hold'.at = "look" /\ hold'.ctx = "-"
  BY DEF RecoveryTake, Holds, Ats, Ctxs
<1> QED BY <1>1, TakeInv DEF RecoveryTake

LEMMA QuiesceTakeInv ==
  ASSUME IInv, NEW q \in Reservers, QuiesceTake(q), UNCHANGED rest
  PROVE  IInv'
<1>1. hold' \in Holds /\ hold'.who = q /\ hold'.at = "quiet" /\ hold'.ctx = "-"
  BY DEF QuiesceTake, Holds, Ats, Ctxs, Callers
<1> QED BY <1>1, TakeInv DEF QuiesceTake

LEMMA WaitReadyInv ==
  ASSUME IInv, WaitReady, UNCHANGED rest
  PROVE  IInv'
<1> USE DEF WaitReady, stackVars, muxVars, flags, argVars, rest
<1>1. /\ hold.who # "none" /\ hold \in Holds /\ HolderInv /\ hold' \in Holds
      /\ hold'.who = hold.who /\ hold'.at = "arm" /\ hold'.ctx = hold.ctx
  BY FreeType, HoldMoves DEF IInv, HolderInv, TypeOK, Ats
<1>2. Switches'
  BY Zenon DEF Switches, IInv, TypeOK
<1>3. Kinds'
  BY <1>1, TypeParts DEF Kinds, IInv
<1>4. HolderInv'
  BY <1>1, FreeType DEF HolderInv, Place, Sending
<1>5. RelayInv' /\ ReservationInv'
  BY <1>1 DEF IInv, RelayInv, ReservationInv
<1>6. ReportInv'
  BY <1>1 DEF IInv, ReportInv, Ready
<1>7. NoStuckKey'
  BY DEF IInv, NoStuckKey
<1> QED BY <1>2, <1>3, <1>4, <1>5, <1>6, <1>7, Parts

LEMMA HandoffUsbInv ==
  ASSUME IInv, HandoffUsb
  PROVE  IInv'
<1> USE DEF HandoffUsb, Go, muxVars, flags, argVars
<1>1. pc' \in [Callers -> Places]
  BY DEF IInv, TypeOK, Callers, Places, Committed
<1>2. Switches'
  BY Zenon DEF Switches, IInv, TypeOK
<1>3. Kinds'
  BY <1>1, TypeParts DEF Kinds, IInv
<1>4. HolderInv'
  BY DEF IInv, TypeOK, HolderInv, Callers, Reservers
<1>5. RelayInv'
  BY DEF IInv, TypeOK, RelayInv, Callers
<1>6. ReservationInv'
  BY DEF IInv, TypeOK, ReservationInv, HasPower, Committed, Callers, Reservers
<1>7. ReportInv' /\ NoStuckKey'
  BY DEF IInv, ReportInv, NoStuckKey, Report
<1> QED BY <1>2, <1>3, <1>4, <1>5, <1>6, <1>7, Parts

-----------------------------------------------------------------------------
(* Restarts, and the invariant *)

LEMMA BootInv ==
  ASSUME IInv, Boot, faults' \in Nat
  PROVE  IInv'
<1> USE DEF Boot, ClearReport
<1>1. Switches'
  BY Zenon DEF Switches
<1>2. Kinds'
  <2>1. <<>> \in Seq(Chords) /\ Up \in Reports
    BY DEF Reports
  <2>2. pc' \in [Callers -> Places] /\ host' \in Reports
    BY <2>1 DEF Places, IInv, TypeOK
  <2> QED BY <2>1, <2>2, FreeType DEF Kinds
<1>3. HolderInv'
  BY DEF HolderInv
<1>4. RelayInv'
  BY FreeType DEF RelayInv, Callers
<1>5. ReservationInv'
  BY DEF ReservationInv, HasPower, Committed, Callers, Reservers
<1>6. ReportInv'
  BY FreeType DEF ReportInv
<1>7. NoStuckKey'
  BY DEF NoStuckKey
<1> QED BY <1>1, <1>2, <1>3, <1>4, <1>5, <1>6, <1>7, Parts

LEMMA InitInv == Init => IInv
<1> SUFFICES ASSUME Init PROVE IInv
  OBVIOUS
<1> USE DEF Init
<1>1. TypeOK
  <2>1. <<>> \in Seq(Chords) /\ Up \in Reports /\ pc \in [Callers -> Places]
    BY DEF Reports, Places
  <2>2. Switches
    BY Zenon DEF Switches
  <2> QED BY <2>1, <2>2, FreeType, TypeParts DEF Kinds
<1>2. HolderInv
  BY DEF HolderInv
<1>3. RelayInv
  BY FreeType DEF RelayInv, Callers
<1>4. ReservationInv
  BY DEF ReservationInv, HasPower, Committed, Callers, Reservers
<1>5. ReportInv /\ NoStuckKey
  BY FreeType DEF ReportInv, NoStuckKey
<1> QED BY <1>1, <1>2, <1>3, <1>4, <1>5 DEF IInv

LEMMA UsbInv ==
  ASSUME IInv, Usb, UNCHANGED rest
  PROVE  IInv'
<1>1. CASE Bus
  BY <1>1, HostResetInv, MountInv, UnmountInv, SuspendInv, ResumeInv, HostTakesInv,
     ReportCompleteInv, ReportFailedInv DEF Bus
<1>2. CASE SendReport
  BY <1>2, WaitReadyInv, WaitFailsInv, ClaimInv, ArmInv, SubmitInv, SubmitRefusedInv,
     AwaitCompleteInv, AwaitFailsInv, RestartsInv, NoRestartInv, DetachInv, AttachInv
  DEF SendReport
<1>3. CASE Action
  BY <1>3, ActionStartInv, ActionBusyInv, LockActionInv, EnsureAwakeInv, WakeEndsInv,
     BeginActionInv, FinishActionInv DEF Action
<1>4. CASE Recovery
  BY <1>4, RecoveryTakeInv, RecoveryLookInv, RecoveryDecideInv, RecoveryObserveInv
  DEF Recovery
<1>5. CASE Quiesce
  BY <1>5, QuiesceInv
<1> QED BY <1>1, <1>2, <1>3, <1>4, <1>5 DEF Usb

LEMMA StepInv == IInv /\ [Next]_vars => IInv'
<1> SUFFICES ASSUME IInv, [Next]_vars PROVE IInv'
  OBVIOUS
<1>1. CASE Usb /\ UNCHANGED <<pin, pwrQuiesced>>
  BY <1>1, UsbInv DEF rest
<1>2. CASE Pulse \/ PulseEnds
  BY <1>2, PulseInv, PulseEndsInv
<1>3. ASSUME NEW q \in Reservers, Request(q) \/ Reserve(q) PROVE IInv'
  BY <1>3, RequestInv, QuiescePowerInv, PowerBusyInv, KeyboardRefusesInv, CommitInv,
     UnwindInv, UnwindKeyboardInv, UnwindPowerInv, QuiesceTakeInv, QuiesceBusyInv
  DEF Reserve, rest
<1>4. CASE HandoffUsb
  BY <1>4, HandoffUsbInv
<1>5. CASE Restart
  <2>1. faults' \in Nat
    BY <1>5 DEF Restart, IInv, TypeOK
  <2> QED BY <1>5, <2>1, BootInv DEF Restart
<1>6. CASE Crash
  <2>1. faults' \in Nat
    BY <1>6 DEF Crash, Fault, IInv, TypeOK
  <2> QED BY <1>6, <2>1, BootInv DEF Crash
<1>7. CASE UNCHANGED vars
  <2>1. UNCHANGED <<usbVars, quiesced, argVars, pc, rest, faults>>
    BY <1>7 DEF vars, keyboardVars, usbVars, rest
  <2>2. Switches' /\ Kinds' /\ ReportInv' /\ NoStuckKey'
    BY <2>1, UsbFrame, Zenon DEF IInv, TypeOK, rest
  <2> QED BY <2>1, <2>2, BusFrame, Parts DEF usbVars
<1> QED BY <1>1, <1>2, <1>3, <1>4, <1>5, <1>6, <1>7 DEF Next

\* Types, the holder of the lock, the reservations, what the flags say of a
\* report, and the debt: for any chords, texts and number of faults.
THEOREM Inductive == Spec => []IInv
<1>1. Init => IInv
  BY InitInv
<1>2. IInv /\ [Next]_vars => IInv'
  BY StepInv
<1> QED BY <1>1, <1>2, PTL DEF Spec

\* Whatever goes wrong between press and release, a key the host may believe
\* pressed is in s_need_release.
THEOREM KeysAccounted == Spec => []NoStuckKey
<1>1. IInv => NoStuckKey
  BY DEF IInv
<1> QED BY <1>1, Inductive, PTL

\* The updater and the maintenance entry exclude each other, the pulses and
\* the keyboard's users.
THEOREM AloneAtRestart == Spec => []RestartIsAlone
<1>1. IInv => RestartIsAlone
  BY FreeType DEF IInv, RestartIsAlone, HolderInv, RelayInv, ReservationInv, TypeOK,
     HasPower, Reservers
<1> QED BY <1>1, Inductive, PTL

\* Only Submit puts a report on the endpoint, and only of a holder.
LEMMA PressStep ==
  ASSUME IInv, Next, xfer' = "queued", xfer # "queued", buf' # Up
  PROVE  host = Up /\ \A q \in Reservers : pc[q] \notin Committed
<1>1. Submit
  BY DEF Next, Usb, Bus, SendReport, Action, Recovery, Reserve, HostReset, Mount, Unmount,
     Suspend, Resume, HostTakes, ReportComplete, ReportFailed, WaitReady, WaitFails, Claim,
     Arm, SubmitRefused, AwaitComplete, AwaitFails, Restarts, NoRestart, Detach, Attach,
     ActionStart, ActionBusy, LockAction, EnsureAwake, WakeEnds, BeginAction, FinishAction,
     RecoveryTake, RecoveryLook, RecoveryDecide, RecoveryObserve, Quiesce, QuiesceTake,
     QuiesceBusy, Pulse, PulseEnds, Request, QuiescePower, PowerBusy, KeyboardRefuses, Commit,
     Unwind, UnwindKeyboard, UnwindPower, HandoffUsb, Restart, Crash, Boot, holdFrame,
     beginFrame, usbVars, stackVars
<1>2. hold.at = "submit" /\ hold.ctx = "press"
  BY <1>1 DEF Submit, Report
<1>3. host = Up
  BY <1>2 DEF IInv, ReportInv, NoStuckKey
<1>4. ~quiesced
  BY <1>2, FreeType DEF IInv, HolderInv
<1> QED BY <1>3, <1>4 DEF IInv, ReservationInv

\* No key is pressed on top of another, or after a restart was granted.
THEOREM PressesAreSafe == Spec => PressOnFreeHost
<1>1. IInv /\ [Next]_vars
      => [xfer' = "queued" /\ xfer # "queued" /\ buf' # Up =>
            /\ host = Up
            /\ \A q \in Reservers : pc[q] \notin Committed]_vars
  BY PressStep
<1> QED BY <1>1, Inductive, PTL DEF Spec, PressOnFreeHost

\* A grant is the end of a quiesce: its release went through, or the bus is not
\* there to take one.
LEMMA GrantStep ==
  ASSUME IInv, Next, NEW q \in Reservers, pc[q] # "reserved", pc'[q] = "reserved"
  PROVE  ~debt' \/ bus # "up" \/ reenum
<1>0. pc \in [Callers -> Places] /\ q \in Callers /\ q # "relay" /\ DOMAIN pc = Callers
  BY DEF IInv, TypeOK, Callers, Reservers
<1>1. ~Bus /\ ~Recovery /\ ~Pulse /\ ~PulseEnds /\ ~HandoffUsb /\ ~Restart /\ ~Crash
  <2>1. ~Bus /\ ~Recovery
    BY DEF Bus, HostReset, Mount, Unmount, Suspend, Resume, HostTakes, ReportComplete,
       ReportFailed, deviceVars, Recovery, RecoveryTake, RecoveryLook, RecoveryDecide,
       RecoveryObserve, beginFrame
  <2>2. ~Pulse /\ ~PulseEnds /\ ~HandoffUsb
    BY <1>0 DEF Pulse, PulseEnds, HandoffUsb, Go
  <2>3. ~Restart /\ ~Crash
    BY <1>0 DEF Restart, Crash, Boot
  <2> QED BY <2>1, <2>2, <2>3
<1>2. ~ \E r \in Reservers : Request(r) \/ Reserve(r)
  BY <1>0 DEF Request, Reserve, QuiescePower, PowerBusy, KeyboardRefuses, Commit, Unwind,
     UnwindKeyboard, UnwindPower, QuiesceTake, QuiesceBusy, Go, beginFrame
<1>3. ~Action
  BY <1>0 DEF Action, ActionStart, ActionBusy, LockAction, EnsureAwake, WakeEnds,
     BeginAction, FinishAction, GiveBack, beginFrame
<1>4. SendReport => Claim \/ AwaitComplete
  BY <1>0 DEF SendReport, WaitReady, WaitFails, Arm, Submit, SubmitRefused, AwaitFails,
     Restarts, NoRestart, Detach, Attach, Failed, Leave, GiveBack
<1>5. CASE Claim \/ AwaitComplete
  <2>1. Acknowledged
    BY <1>5 DEF Claim, AwaitComplete
  <2>2. hold.ctx # "press"
    BY <2>1 DEF Acknowledged
  <2> QED BY <2>1, <2>2 DEF Acknowledged
<1>6. CASE Quiesce
  <2>1. BusFails
    BY <1>6 DEF Quiesce
  <2>2. hold.ctx = "-"
    BY <1>6, FreeType DEF Quiesce, IInv, HolderInv, Place, Sending
  <2> QED BY <2>1, <2>2 DEF BusFails, BusOk, EpochChanged
<1> QED BY <1>1, <1>2, <1>3, <1>4, <1>5, <1>6 DEF Next, Usb

\* With the bus awake, a restart is granted only over released keys.
THEOREM GrantsOnReleased == Spec => GrantedReleased
<1>1. IInv /\ [Next]_vars
      => [\A q \in Reservers :
            pc[q] # "reserved" /\ pc'[q] = "reserved" => ~debt' \/ bus # "up" \/ reenum]_vars
  BY GrantStep
<1> QED BY <1>1, Inductive, PTL DEF Spec, GrantedReleased

-----------------------------------------------------------------------------
(* What the host is shown *)

LEMMA ShownFacts ==
  ASSUME text \in Seq(Chords), pressed \in Nat
  PROVE  /\ Shown(0) = <<>>
         /\ Shown(Len(text)) = text
         /\ pressed < Len(text) => /\ Shown(pressed + 1) = Append(Shown(pressed), text[pressed + 1])
                                   /\ text[pressed + 1] \in Chords
BY DEF Shown

\* Nobody is in the middle of a press, a release or a success.
Elsewhere == hold.ctx \notin {"press", "release", "ok"}

\* The holder stays, and the endpoint at most loses its report.
LEMMA StaysTyped ==
  ASSUME IInv, TypedInv, UNCHANGED <<hold, downs, text, pressed, debt>>,
         complete' => complete,
         (xfer' = xfer /\ buf' = buf) \/ xfer' = "idle"
  PROVE  TypedInv'
<1> USE DEF TypedInv, Shown
<1>1. CASE hold.ctx = "press"
  BY <1>1
<1>2. CASE hold.ctx = "release"
  BY <1>2
<1>3. CASE hold.ctx \notin {"press", "release"}
  BY <1>3
<1> QED BY <1>1, <1>2, <1>3

\* The host takes what is queued.
LEMMA TakenTyped ==
  ASSUME IInv, TypedInv, UNCHANGED <<hold, text, pressed, debt, buf>>,
         xfer = "queued", xfer' \in {"taken", "idle"}, complete' => xfer' = "taken" /\ complete,
         downs' = IF buf = Up THEN downs ELSE Append(downs, buf)
  PROVE  TypedInv'
<1>0. /\ text \in Seq(Chords) /\ pressed \in Nat
      /\ Shown(pressed)' = Shown(pressed) /\ Shown(pressed + 1)' = Shown(pressed + 1)
  BY DEF IInv, TypeOK, Shown
<1>1. CASE hold.ctx = "press" /\ hold.at = "await"
  <2>1. pressed < Len(text)
    BY <1>1, FreeType DEF IInv, HolderInv
  <2>2. downs = Shown(pressed) /\ buf = text[pressed + 1]
    BY <1>1 DEF TypedInv
  <2>3. buf # Up
    BY <2>1, <2>2, <1>0, ShownFacts, KeyboardAssumption
  <2>4. downs' = Shown(pressed + 1)
    BY <1>0, <2>1, <2>2, <2>3, ShownFacts
  <2> QED BY <1>0, <1>1, <2>4 DEF TypedInv
<1>2. CASE hold.ctx = "press" /\ hold.at # "await"
  <2>1. hold.at \in {"wait", "arm", "submit"}
    BY <1>2, FreeType DEF IInv, HolderInv, Place, Sending
  <2>2. buf = Up
    BY <1>2, <2>1 DEF IInv, ReportInv, NoStuckKey
  <2> QED BY <1>0, <1>2, <2>2 DEF TypedInv
<1>3. CASE hold.ctx = "release"
  BY <1>0, <1>3 DEF TypedInv
<1>4. CASE hold.ctx = "ok"
  <2>1. buf = Up
    BY <1>4 DEF TypedInv, IInv, NoStuckKey
  <2> QED BY <1>4, <2>1 DEF TypedInv
<1>5. CASE Elsewhere
  BY <1>5 DEF Elsewhere, TypedInv
<1> QED BY <1>1, <1>2, <1>3, <1>4, <1>5 DEF Elsewhere

LEMMA BusTyped ==
  ASSUME IInv, IInv', TypedInv, Bus
  PROVE  TypedInv'
<1>1. CASE HostReset \/ Mount \/ Unmount \/ Suspend \/ Resume
  BY <1>1, StaysTyped DEF HostReset, Mount, Unmount, Suspend, Resume, deviceVars, argVars,
     muxVars, flags, LifecycleEvent, ClearReport
<1>2. CASE HostTakes
  <2>1. UNCHANGED complete /\ ~complete
    BY <1>2 DEF HostTakes, muxVars, flags, IInv, ReportInv
  <2> QED BY <1>2, <2>1, TakenTyped DEF HostTakes, argVars
<1>3. CASE ReportComplete
  <2> USE <1>3 DEF ReportComplete, deviceVars, argVars
  <2>1. CASE hold.ctx = "press" /\ hold.at = "await"
    BY <2>1 DEF TypedInv, Shown
  <2>2. CASE ~(hold.ctx = "press" /\ hold.at = "await")
    BY <2>2 DEF TypedInv, Shown
  <2> QED BY <2>1, <2>2
<1>4. CASE ReportFailed
  <2>1. CASE UNCHANGED <<host, downs>>
    BY <1>4, <2>1, StaysTyped DEF ReportFailed, ClearReport, argVars
  <2>2. CASE ~UNCHANGED <<host, downs>>
    BY <1>4, <2>2, TakenTyped DEF ReportFailed, ClearReport, argVars
  <2> QED BY <2>1, <2>2
<1> QED BY <1>1, <1>2, <1>3, <1>4 DEF Bus

\* A report that went through.
LEMMA AcknowledgedTyped ==
  ASSUME IInv, IInv', TypedInv, Acknowledged, UNCHANGED <<xfer, buf, text>>, complete' = complete,
         hold.ctx = "press" => hold.at = "await" /\ complete
  PROVE  TypedInv'
<1>0. /\ text \in Seq(Chords) /\ pressed \in Nat /\ hold \in Holds
      /\ text' = text /\ pressed' \in Nat
  BY DEF IInv, TypeOK
<1>1. CASE hold.ctx = "press"
  <2>1. hold'.ctx = "release" /\ UNCHANGED <<downs, pressed>>
    BY <1>0, <1>1, HoldMoves DEF Acknowledged, Ats, Ctxs
  <2>2. pressed < Len(text) /\ xfer = "idle"
    BY <1>1, FreeType DEF IInv, HolderInv, ReportInv
  <2>3. downs = Shown(pressed + 1)
    BY <1>1 DEF TypedInv
  <2> QED BY <1>0, <2>1, <2>2, <2>3 DEF TypedInv, Shown
<1>2. CASE hold.ctx = "baseline"
  <2>1. /\ debt' = FALSE /\ downs' = <<>> /\ pressed' = pressed
        /\ \/ text = <<>> /\ hold'.ctx = "ok"
           \/ hold'.at = "wait" /\ hold'.ctx = "press"
    BY <1>0, <1>2, HoldMoves DEF Acknowledged, Ats, Ctxs
  <2>2. pressed = 0
    BY <1>2, FreeType DEF IInv, HolderInv
  <2> QED BY <1>0, <2>1, <2>2, ShownFacts DEF TypedInv, Shown
<1>3. CASE hold.ctx = "release"
  <2>1. /\ debt' = FALSE /\ downs' = downs /\ pressed' = pressed + 1
        /\ \/ pressed' < Len(text) /\ hold'.at = "wait" /\ hold'.ctx = "press"
           \/ ~(pressed' < Len(text)) /\ hold'.ctx = "ok"
    BY <1>0, <1>3, HoldMoves DEF Acknowledged, Ats, Ctxs
  <2>2. pressed < Len(text) /\ downs = Shown(pressed + 1)
    BY <1>3 DEF TypedInv
  <2>3. CASE pressed' < Len(text)
    BY <1>0, <2>1, <2>2, <2>3 DEF TypedInv, Shown
  <2>4. CASE ~(pressed' < Len(text))
    <3>1. pressed + 1 = Len(text) /\ downs' = text
      BY <1>0, <2>1, <2>2, <2>4, ShownFacts
    <3> QED BY <1>0, <2>1, <2>4, <3>1 DEF TypedInv
  <2> QED BY <2>3, <2>4
<1>4. CASE Elsewhere /\ hold.ctx # "baseline"
  <2>1. Elsewhere'
    BY <1>0, <1>4, HoldMoves, FreeType DEF Acknowledged, Ats, Elsewhere, GiveBack
  <2> QED BY <2>1 DEF Elsewhere, TypedInv
<1>5. hold.ctx # "ok"
  BY DEF Acknowledged
<1> QED BY <1>1, <1>2, <1>3, <1>4, <1>5 DEF Elsewhere

LEMMA SendTyped ==
  ASSUME IInv, IInv', TypedInv, SendReport
  PROVE  TypedInv'
<1>0. /\ text \in Seq(Chords) /\ pressed \in Nat /\ hold \in Holds /\ HolderInv
  BY DEF IInv, TypeOK
<1>1. CASE WaitReady \/ Arm
  <2>1. /\ hold'.ctx = hold.ctx /\ hold'.at \in {"arm", "submit"} /\ hold.at \in {"wait", "arm"}
        /\ UNCHANGED <<downs, text, pressed, xfer, buf, debt>>
    BY <1>0, <1>1, HoldMoves DEF WaitReady, Arm, stackVars, argVars, Ats
  <2> QED BY <2>1 DEF TypedInv, Shown
<1>2. CASE Claim
  <2>1. hold.ctx # "press"
    <3>1. SUFFICES ASSUME hold.ctx = "press" PROVE FALSE
      OBVIOUS
    <3>2. pressed < Len(text)
      BY <3>1, FreeType, <1>0 DEF HolderInv
    <3> QED BY <1>0, <1>2, <3>1, <3>2, ShownFacts, KeyboardAssumption DEF Claim, Report
  <2> QED BY <1>2, <2>1, AcknowledgedTyped DEF Claim, holdFrame, stackVars
<1>3. CASE Submit
  <2>1. /\ hold'.ctx = hold.ctx /\ hold'.at = "await" /\ hold.at = "submit"
        /\ UNCHANGED <<downs, text, pressed, complete>> /\ buf' = Report /\ xfer' = "queued"
        /\ ~complete
    BY <1>0, <1>3, HoldMoves DEF Submit, muxVars, flags, argVars, Ats, IInv, ReportInv
  <2>2. hold.ctx # "ok"
    BY <1>0, <2>1, FreeType DEF HolderInv, Place, Sending
  <2> QED BY <2>1, <2>2 DEF TypedInv, Shown, Report
<1>4. CASE AwaitComplete
  BY <1>4, AcknowledgedTyped DEF AwaitComplete, holdFrame, stackVars
<1>5. CASE WaitFails \/ AwaitFails \/ SubmitRefused
  <2>1. Elsewhere'
    BY <1>0, <1>5, HoldMoves, FreeType
    DEF WaitFails, AwaitFails, SubmitRefused, Failed, Elsewhere, GiveBack, Ats, Ctxs
  <2> QED BY <2>1 DEF Elsewhere, TypedInv
<1>6. CASE Restarts \/ NoRestart \/ Detach \/ Attach
  <2>1. hold.at \in {"failed", "detach", "attach"}
    BY <1>6 DEF Restarts, NoRestart, Detach, Attach
  <2>2. hold.ctx \in {"cleanup", "recover"}
    BY <1>0, <2>1, FreeType DEF HolderInv, Place, Sending
  <2>3. Elsewhere'
    BY <1>0, <1>6, <2>2, HoldMoves, FreeType
    DEF Restarts, NoRestart, Detach, Attach, Leave, GiveBack, Elsewhere, Ats
  <2> QED BY <2>3 DEF Elsewhere, TypedInv
<1> QED BY <1>1, <1>2, <1>3, <1>4, <1>5, <1>6 DEF SendReport

LEMMA OthersTyped ==
  ASSUME IInv, IInv', TypedInv, Action \/ Recovery \/ Quiesce
  PROVE  TypedInv'
<1>0. /\ hold \in Holds /\ HolderInv
  BY DEF IInv, TypeOK
<1>1. CASE ActionStart
  <2>1. hold.who # "relay"
    BY <1>1 DEF ActionStart, IInv, RelayInv
  <2>2. Elsewhere
    BY <1>0, <2>1, FreeType, HolderFacts DEF Elsewhere, HolderInv, Place, Sending, Holds,
       Callers, Reservers
  <2> QED BY <1>1, <2>2 DEF ActionStart, Elsewhere, TypedInv
<1>2. CASE ActionBusy
  BY <1>2, StaysTyped DEF ActionBusy, stackVars, muxVars, flags, argVars
<1>3. CASE LockAction \/ EnsureAwake \/ WakeEnds \/ BeginAction
  <2>1. hold.at \in {"awake", "waking", "snapshot"} => hold.ctx = "begin"
    BY <1>0, FreeType DEF HolderInv, Place, Sending
  <2>2. Elsewhere'
    BY <1>0, <1>3, <2>1, HoldMoves DEF LockAction, EnsureAwake, WakeEnds, BeginAction, Ats,
       Ctxs, Elsewhere
  <2> QED BY <2>2 DEF Elsewhere, TypedInv
<1>4. CASE FinishAction
  <2>1. Elsewhere'
    BY <1>0, <1>4, HoldMoves, FreeType DEF FinishAction, GiveBack, Ats, Ctxs, Elsewhere
  <2> QED BY <2>1 DEF Elsewhere, TypedInv
<1>5. CASE Recovery
  <2>1. hold.at \in {"look", "active", "inactive", "observe"} => hold.ctx \in {"-", "recover"}
    BY <1>0, FreeType DEF HolderInv, Place, Sending
  <2>2. Elsewhere'
    BY <1>0, <1>5, <2>1, HoldMoves, FreeType DEF Recovery, RecoveryTake, RecoveryLook,
       RecoveryDecide, RecoveryObserve, Ats, Ctxs, Elsewhere
  <2> QED BY <2>2 DEF Elsewhere, TypedInv
<1>6. CASE Quiesce
  <2>1. Elsewhere'
    BY <1>0, <1>6, HoldMoves, FreeType DEF Quiesce, GiveBack, Ats, Ctxs, Elsewhere
  <2> QED BY <2>1 DEF Elsewhere, TypedInv
<1> QED BY <1>1, <1>2, <1>3, <1>4, <1>5, <1>6 DEF Action

LEMMA TypedStep == IInv /\ IInv' /\ TypedInv /\ [Next]_vars => TypedInv'
<1> SUFFICES ASSUME IInv, IInv', TypedInv, [Next]_vars PROVE TypedInv'
  OBVIOUS
<1>1. CASE Usb
  BY <1>1, BusTyped, SendTyped, OthersTyped DEF Usb
<1>2. CASE Pulse \/ PulseEnds \/ HandoffUsb
  BY <1>2, StaysTyped DEF Pulse, PulseEnds, HandoffUsb, usbVars, stackVars, muxVars, flags,
     argVars
<1>3. ASSUME NEW q \in Reservers, Request(q) \/ Reserve(q) PROVE TypedInv'
  <2>1. CASE QuiesceTake(q)
    <3>1. Elsewhere'
      BY <2>1 DEF QuiesceTake, Elsewhere
    <3> QED BY <3>1 DEF Elsewhere, TypedInv
  <2>2. CASE ~QuiesceTake(q)
    BY <1>3, <2>2, StaysTyped DEF Request, Reserve, QuiescePower, PowerBusy, KeyboardRefuses,
       Commit, Unwind, UnwindKeyboard, UnwindPower, QuiesceBusy, usbVars, stackVars, muxVars,
       flags, argVars
  <2> QED BY <2>1, <2>2
<1>4. CASE Restart \/ Crash
  <2>1. Elsewhere'
    BY <1>4, FreeType DEF Restart, Crash, Boot, Elsewhere
  <2> QED BY <2>1 DEF Elsewhere, TypedInv
<1>5. CASE UNCHANGED vars
  BY <1>5, StaysTyped DEF vars, keyboardVars, stackVars, muxVars, flags, argVars
<1> QED BY <1>1, <1>2, <1>3, <1>4, <1>5 DEF Next

\* However transfers time out, complete late or meet a reset, what the host has
\* seen of an action is a beginning of what was asked, and all of it when the
\* action succeeds.
THEOREM TypedExactly == Spec => []TypedAsAsked
<1>1. Init => TypedInv
  BY FreeType DEF Init, TypedInv
<1>2. TypedInv /\ IInv => TypedAsAsked
  <2> SUFFICES ASSUME TypedInv, IInv PROVE TypedAsAsked
    OBVIOUS
  <2>1. /\ hold.ctx = "press" => pressed < Len(text)
        /\ pressed \in Nat /\ text \in Seq(Chords)
    BY FreeType DEF IInv, HolderInv, TypeOK
  <2>2. hold.ctx = "ok" => downs = text
    BY DEF TypedInv
  <2>3. ASSUME hold.ctx \in {"press", "release"}
        PROVE  \E n \in {pressed, pressed + 1} : n <= Len(text) /\ downs = SubSeq(text, 1, n)
    <3>1. pressed < Len(text)
      BY <2>1, <2>3 DEF TypedInv
    <3>2. downs = Shown(pressed) \/ downs = Shown(pressed + 1)
      BY <2>3 DEF TypedInv
    <3> QED BY <2>1, <3>1, <3>2 DEF Shown
  <2>4. ASSUME hold.ctx = "ok"
        PROVE  \E n \in {pressed, pressed + 1} : n <= Len(text) /\ downs = SubSeq(text, 1, n)
    <3>1. pressed = Len(text) /\ downs = text
      BY <2>4 DEF TypedInv
    <3> QED BY <2>1, <3>1, ShownFacts DEF Shown
  <2> QED BY <2>2, <2>3, <2>4 DEF TypedAsAsked
<1> QED BY <1>1, <1>2, Inductive, TypedStep, PTL DEF Spec
=============================================================================
