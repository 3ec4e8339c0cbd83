------------------------------ MODULE Updater ------------------------------
(***************************************************************************)
(* The over-the-air updater (ota.c, ota_journal.c) between two kinds of    *)
(* lasting memory, the boot selectors of the two application slots and the *)
(* journal in NVS, with power lost between any two writes.                 *)
(*                                                                         *)
(* Two tasks use it: app_main(), which starts it and reports the image's   *)
(* health, and the worker, which checks, downloads, installs and enforces  *)
(* the health deadline.  Both take s_control around the journal.  Time is  *)
(* abstract: a timer may be due at any moment it is armed.                 *)
(***************************************************************************)
EXTENDS Naturals, Sequences, Functions

CONSTANTS
  Images,     \* images the publisher has signed for this device
  release,    \* the release counter embedded in each
  Factory,    \* the image written over USB
  None,
  FailedHashes, \* RW_OTA_FAILED_HASHES
  SlowStart   \* may app_main() report health after the worker gave up on it?

ASSUME UpdaterAssumption ==
  /\ Factory \in Images /\ None \notin Images
  /\ release \in [Images -> Nat \ {0}]
  /\ FailedHashes \in Nat \ {0}
  /\ SlowStart \in BOOLEAN

VARIABLES
  \* --- lasting
  flash,    \* the image in each slot; None: erased or partly written
  otadata,  \* the state of each slot's boot selector
  top,      \* the slot whose selector has the higher sequence number
  nvs,      \* the journal as stored
  \* --- since the last restart
  run,      \* the running slot
  j,        \* s_journal
  healthy,  \* s_healthy
  pc,       \* where app_main() and the worker are
  manifest, \* the worker's manifest: the image it describes
  queued, deferred,  \* an offer in s_queue; the worker's has_deferred
  url,      \* what the worker's last check is for: "offer" or "own"
  phase,    \* s_status.phase
  policy,   \* "auto" or "notify", chosen by the build
  \* --- history
  booted    \* images that have run

lasting == <<flash, otadata, top, nvs>>
offers  == <<queued, deferred, url>>
vars == <<lasting, run, j, healthy, pc, manifest, offers, phase, policy, booted>>

Slots == {0, 1}
Other(s) == 1 - s
States == {"none", "new", "pending", "valid", "invalid", "aborted"}

-----------------------------------------------------------------------------
(* The journal *)

NoPending == [img |-> None, slot |-> 0]
EmptyJournal == [floor |-> 0, pend |-> NoPending, failed |-> <<>>]

Rejected(jr, i) == i \in Range(jr.failed)
ClearPending(jr) == [jr EXCEPT !.pend = NoPending]
Prepare(jr, i, s) == [jr EXCEPT !.pend = [img |-> i, slot |-> s]]

\* The ring keeps the last FailedHashes images, none of them twice.
Remember(f, i) ==
  IF Len(f) = FailedHashes THEN Append(Tail(f), i) ELSE Append(f, i)
Reject(jr, i) ==
  [ClearPending(jr) EXCEPT !.failed = IF Rejected(jr, i) THEN @ ELSE Remember(@, i)]
ConfirmRelease(jr, r) ==
  [ClearPending(jr) EXCEPT !.floor = IF r > @ THEN r ELSE @]

Saved(next) == j' = next /\ nvs' = next
\* nvs_set_blob() or nvs_commit() fails: what is stored may be either.
SaveFails(next) == j' = j /\ nvs' \in {nvs, next}

-----------------------------------------------------------------------------
(* The bootloader and esp_ota_ops *)

Selectable(state) == state \in {"new", "pending", "valid"}
\* The selector with the highest sequence number that may boot.
Active(ota) ==
  IF Selectable(ota[top]) THEN top
  ELSE IF Selectable(ota[Other(top)]) THEN Other(top) ELSE 0
\* A trial that was not confirmed before the reset is over.
AfterReset(ota) == [s \in Slots |-> IF ota[s] = "pending" THEN "aborted" ELSE ota[s]]
BootChoice(ota) == Active(AfterReset(ota))

Tasks == {"main", "worker"}
Labels == {"off", "init", "health", "seeded", "marked", "up", "idle", "check", "download",
           "write", "wait", "prepared", "restart", "rejecting", "rollback"}
Starting == [t \in Tasks |-> IF t = "main" THEN "init" ELSE "off"]

\* A restart, for whatever reason, with these selectors.
Restart(ota) ==
  LET r == BootChoice(ota)
  IN  /\ run' = r
      /\ otadata' = [AfterReset(ota) EXCEPT ![r] = IF @ = "new" THEN "pending" ELSE @]
      /\ booted' = booted \cup {flash[r]}
      /\ j' = EmptyJournal /\ healthy' = FALSE
      /\ pc' = Starting
      /\ manifest' = None /\ queued' = FALSE /\ deferred' = FALSE
      /\ url' = "own" /\ phase' = "disabled"
      /\ UNCHANGED policy

\* Mutant: any unconfirmed start may be rolled back.
BootUnconfirmed == ~healthy
BootPending == otadata[run] = "pending"
\* esp_ota_mark_app_invalid_rollback_and_reboot() needs another valid image.
RollbackPossible == otadata[Other(run)] = "valid" /\ flash[Other(run)] # None

MarkValid == otadata' = [otadata EXCEPT ![Active(otadata)] = "valid"]
SetBoot(s) == otadata' = [otadata EXCEPT ![s] = "new"] /\ top' = s

PowerLoss == Restart(otadata) /\ UNCHANGED <<flash, top, nvs>>

-----------------------------------------------------------------------------
(* Who is where.  A task between two writes under s_control still holds it. *)

LockFree == pc.main \notin {"seeded", "marked"} /\ pc.worker # "prepared"
At(t, l) == pc[t] = l
Go(t, l) == pc' = [pc EXCEPT ![t] = l]
Back(t) == Go(t, IF t = "main" THEN "up" ELSE "idle")
work == <<manifest, offers>>

-----------------------------------------------------------------------------
(* Start and health: app_main() *)

\* Mutant: a candidate that is not running counts as never tried.
RejectedByBootNever(jr) == FALSE
RejectedByBoot(jr) == otadata[jr.pend.slot] \in {"aborted", "invalid"}

\* reconcile_boot(): what became of the candidate in the journal.
Reconciled(jr) ==
  CASE jr.pend.img = None -> jr
    [] jr.pend.slot = run /\ release[jr.pend.img] = release[flash[run]] -> jr
    [] OTHER -> IF RejectedByBoot(jr) THEN Reject(jr, jr.pend.img)
                ELSE ClearPending(jr)

\* rw_ota_init()
OtaInit ==
  /\ At("main", "init")
  /\ Saved(Reconciled(nvs))
  /\ pc' = [t \in Tasks |-> IF t = "main" THEN "health" ELSE "idle"]
  /\ phase' = IF Rejected(j', nvs.pend.img) THEN "rolled_back"
              ELSE IF BootPending THEN "pending_health" ELSE "idle"
  /\ UNCHANGED <<flash, otadata, top, run, healthy, work, policy, booted>>

\* ESP_ERROR_CHECK() in app_main() restarts when it fails.
OtaInitFails ==
  /\ At("main", "init")
  /\ nvs' \in {nvs, Reconciled(nvs)} /\ Reconciled(nvs) # nvs
  /\ Restart(otadata) /\ UNCHANGED <<flash, top>>

\* Mutant: a repeated health report is not recognised.
AlreadyHealthyNever == FALSE
AlreadyHealthy == healthy

\* app_main() gets to its verdict long before the deadline, unless SlowStart.
InTime == SlowStart \/ pc.worker \notin {"rejecting", "rollback"}

\* rw_ota_confirm_healthy(), up to the bootloader's selector.  An application
\* may report its health again.
Confirm ==
  /\ At("main", "health") \/ (At("main", "up") /\ healthy)
  /\ LockFree /\ InTime
  /\ IF AlreadyHealthy THEN UNCHANGED vars
     ELSE CASE otadata[run] \in {"new", "pending"} ->
                 /\ MarkValid /\ Go("main", "marked")
                 /\ UNCHANGED <<flash, top, nvs, run, j, healthy, work, phase, policy, booted>>
            [] otadata[run] = "valid" ->
                 /\ Go("main", "marked")
                 /\ UNCHANGED <<lasting, run, j, healthy, work, phase, policy, booted>>
            [] otadata[run] = "none" /\ j.pend.img = None ->
                 /\ SetBoot(run) /\ Go("main", "seeded")
                 /\ UNCHANGED <<flash, nvs, run, j, healthy, work, phase, policy, booted>>
            [] OTHER -> Restart(otadata) /\ UNCHANGED <<flash, top, nvs>>

\* The second write of a first confirmation: seed the selector, then confirm it.
ConfirmSeed ==
  /\ At("main", "seeded")
  /\ MarkValid /\ Go("main", "marked")
  /\ UNCHANGED <<flash, top, nvs, run, j, healthy, work, phase, policy, booted>>

\* ... and from there on the journal.
ConfirmSave ==
  /\ At("main", "marked")
  /\ Saved(ConfirmRelease(j, release[flash[run]]))
  /\ healthy' = TRUE /\ phase' = "healthy" /\ Go("main", "up")
  /\ UNCHANGED <<flash, otadata, top, run, work, policy, booted>>

ConfirmSaveFails ==
  /\ At("main", "marked")
  /\ nvs' \in {nvs, ConfirmRelease(j, release[flash[run]])}
  /\ Restart(otadata) /\ UNCHANGED <<flash, top>>

\* No Wi-Fi credentials: app_main() returns without a verdict.
NoVerdict ==
  /\ At("main", "health") /\ Go("main", "up")
  /\ UNCHANGED <<lasting, run, j, healthy, work, phase, policy, booted>>

\* The USB stack did not start: rw_ota_reject_unhealthy().
UsbFailed ==
  /\ At("main", "health")
  /\ IF BootPending THEN Go("main", "rejecting") ELSE Go("main", "up")
  /\ UNCHANGED <<lasting, run, j, healthy, work, phase, policy, booted>>

-----------------------------------------------------------------------------
(* rw_ota_reject_unhealthy(), past its check of the boot state *)

Suppressed == IF j.pend.img = None THEN j ELSE Reject(j, j.pend.img)

RejectJournal(t) ==
  /\ At(t, "rejecting") /\ LockFree
  /\ Saved(Suppressed) \/ SaveFails(Suppressed)  \* a failure is only logged
  /\ Go(t, "rollback")
  /\ UNCHANGED <<flash, otadata, top, run, healthy, work, phase, policy, booted>>

RollBack(t) ==
  /\ At(t, "rollback")
  /\ IF RollbackPossible
     THEN /\ Restart([otadata EXCEPT ![Active(otadata)] = "invalid"])
          /\ UNCHANGED <<flash, top, nvs>>
     ELSE /\ Back(t)
          /\ UNCHANGED <<lasting, run, j, healthy, work, phase, policy, booted>>

-----------------------------------------------------------------------------
(* The worker *)

\* Mutant: the worker turns to the deadline only past its test of the health.
ExpireHealthy ==
  /\ At("worker", "idle") /\ LockFree
  /\ healthy /\ BootPending
  /\ phase' = "failed" /\ Go("worker", "rejecting")
  /\ UNCHANGED <<lasting, run, j, healthy, work, policy, booted>>
\* The health deadline has passed on an unconfirmed trial.
Expire ==
  /\ At("worker", "idle") /\ LockFree
  /\ ~healthy /\ BootPending
  /\ phase' = "failed" /\ Go("worker", "rejecting")
  /\ UNCHANGED <<lasting, run, j, healthy, work, policy, booted>>

\* rw_ota_offer_manifest(), on the relay task
Offer ==
  /\ pc.main # "init" /\ ~queued
  /\ phase \notin {"downloading", "verifying", "waiting_restart", "restarting", "pending_health"}
  /\ queued' = TRUE
  /\ UNCHANGED <<lasting, run, j, healthy, pc, manifest, deferred, url, phase, policy, booted>>

\* Mutant: an offer that comes too soon after a check is dropped.
TakeOfferThrottled ==
  /\ At("worker", "idle") /\ queued
  /\ queued' = FALSE /\ deferred' \in BOOLEAN
  /\ UNCHANGED <<lasting, run, j, healthy, pc, manifest, url, phase, policy, booted>>
TakeOffer ==
  /\ At("worker", "idle") /\ queued
  /\ queued' = FALSE /\ deferred' = TRUE
  /\ UNCHANGED <<lasting, run, j, healthy, pc, manifest, url, phase, policy, booted>>

\* A check is due: for an offer, deferred or just taken, or by the timer.
StartCheck ==
  /\ At("worker", "idle") /\ LockFree /\ healthy
  /\ url' = IF queued \/ deferred THEN "offer" ELSE "own"
  /\ queued' = FALSE /\ deferred' = FALSE
  /\ phase' = "checking" /\ Go("worker", "check")
  /\ UNCHANGED <<lasting, run, j, healthy, manifest, policy, booted>>

WorkerDone(ph) == phase' = ph /\ manifest' = None /\ Go("worker", "idle")

\* rw_ota_manifest_verify() of an authentic, current manifest for this device
NewerThanRunning(i) == release[i] > release[flash[run]]
\* Mutant: the manifest is not checked against the journal.
FreshUnchecked(i) == NewerThanRunning(i)
\* ... and fetch_manifest()'s second check, under s_control.
Fresh(i) ==
  /\ NewerThanRunning(i)
  /\ release[i] > j.floor /\ ~Rejected(j, i)

Fetch ==
  /\ At("worker", "check") /\ LockFree
  /\ \E i \in Images :
       /\ Fresh(i)
       /\ IF policy = "notify"
          THEN WorkerDone("available")
          ELSE manifest' = i /\ phase' = "downloading" /\ Go("worker", "download")
  /\ UNCHANGED <<lasting, run, j, healthy, offers, policy, booted>>

FetchFails ==
  /\ At("worker", "check") /\ WorkerDone("failed")
  /\ UNCHANGED <<lasting, run, j, healthy, offers, policy, booted>>

\* download_image(): the slot that does not run is erased, then written.
\* Mutant: the updater writes the slot it runs from.
NextPartitionRunning == run
NextPartition == Other(run)
DownloadBegin ==
  /\ At("worker", "download")
  /\ flash' = [flash EXCEPT ![NextPartition] = None]
  /\ Go("worker", "write")
  /\ UNCHANGED <<otadata, top, nvs, run, j, healthy, work, phase, policy, booted>>

\* Out of time, a broken connection, a wrong digest, a failed write.
DownloadFails ==
  /\ pc.worker \in {"download", "write"} /\ WorkerDone("failed")
  /\ UNCHANGED <<lasting, run, j, healthy, offers, policy, booted>>

DownloadEnd ==
  /\ At("worker", "write")
  /\ flash' = [flash EXCEPT ![NextPartition] = manifest]
  /\ phase' = "waiting_restart" /\ Go("worker", "wait")
  /\ UNCHANGED <<otadata, top, nvs, run, j, healthy, work, policy, booted>>

\* validate_identity() or esp_ota_end() refuses what the digest covers.
DownloadRejected ==
  /\ At("worker", "write") /\ LockFree
  /\ LET next == Reject(j, manifest) IN Saved(next) \/ SaveFails(next)
  /\ WorkerDone("failed")
  /\ UNCHANGED <<flash, otadata, top, run, healthy, offers, policy, booted>>

\* restart_candidate(): keyboard, power output or application stay busy, the
\* journal cannot be written, or the bootloader refuses the slot.
RestartFails ==
  /\ \/ At("worker", "wait") /\ UNCHANGED <<j, nvs>>
     \/ /\ At("worker", "wait") /\ LockFree
        /\ SaveFails(Prepare(j, manifest, NextPartition))
     \/ At("worker", "prepared") /\ UNCHANGED <<j, nvs>>
  /\ WorkerDone("failed")
  /\ UNCHANGED <<flash, otadata, top, run, healthy, offers, policy, booted>>

RestartJournal ==
  /\ At("worker", "wait") /\ LockFree
  /\ Saved(Prepare(j, manifest, NextPartition))
  /\ Go("worker", "prepared")
  /\ UNCHANGED <<flash, otadata, top, run, healthy, work, phase, policy, booted>>

RestartSelect ==
  /\ At("worker", "prepared") /\ SetBoot(NextPartition)
  /\ phase' = "restarting" /\ Go("worker", "restart")
  /\ UNCHANGED <<flash, nvs, run, j, healthy, work, policy, booted>>

RestartNow ==
  /\ At("worker", "restart")
  /\ Restart(otadata) /\ UNCHANGED <<flash, top, nvs>>

-----------------------------------------------------------------------------

\* A device with an A/B layout flashed over USB: otadata is erased.
Init ==
  /\ flash = [s \in Slots |-> IF s = 0 THEN Factory ELSE None]
  /\ otadata = [s \in Slots |-> "none"] /\ top = 0
  /\ nvs = EmptyJournal /\ j = EmptyJournal
  /\ run = 0 /\ healthy = FALSE
  /\ pc = Starting
  /\ manifest = None /\ queued = FALSE /\ deferred = FALSE /\ url = "own"
  /\ phase = "disabled" /\ policy \in {"auto", "notify"}
  /\ booted = {Factory}

Main == OtaInit \/ OtaInitFails \/ Confirm \/ ConfirmSeed \/ ConfirmSave
        \/ ConfirmSaveFails \/ NoVerdict \/ UsbFailed
        \/ RejectJournal("main") \/ RollBack("main")
Worker == Expire \/ TakeOffer \/ StartCheck \/ Fetch \/ FetchFails
          \/ DownloadBegin \/ DownloadFails \/ DownloadEnd \/ DownloadRejected
          \/ RestartFails \/ RestartJournal \/ RestartSelect \/ RestartNow
          \/ RejectJournal("worker") \/ RollBack("worker")
Next == Main \/ Worker \/ Offer \/ PowerLoss

\* Both tasks are always scheduled, and the time of a check always comes.
Spec == Init /\ [][Next]_vars /\ WF_vars(Main) /\ WF_vars(Worker) /\ WF_vars(StartCheck)

-----------------------------------------------------------------------------
(* Properties *)

JournalType == [floor : Nat, pend : [img : Images \cup {None}, slot : Slots],
                failed : Seq(Images)]

TypeOK ==
  /\ flash \in [Slots -> Images \cup {None}] /\ otadata \in [Slots -> States]
  /\ top \in Slots /\ run \in Slots
  /\ nvs \in JournalType /\ j \in JournalType
  /\ healthy \in BOOLEAN /\ queued \in BOOLEAN /\ deferred \in BOOLEAN /\ url \in {"offer", "own"}
  /\ manifest \in Images \cup {None} /\ booted \subseteq Images
  /\ policy \in {"auto", "notify"}
  /\ pc \in [Tasks -> Labels]

\* The running slot and what its selector may say.
RunningInv ==
  /\ flash[run] # None
  /\ otadata[run] \in {"none", "aborted"} => run = 0 /\ otadata[Other(run)] = "none"
  /\ otadata[run] # "invalid"
  /\ otadata[run] = "new" => pc.main = "seeded"
  /\ pc.main = "seeded" => run = 0 /\ otadata[run] = "new" /\ otadata[Other(run)] = "none"
  /\ pc.main = "marked" \/ healthy => otadata[run] = "valid"

\* The other slot: where a trial falls back to, what a confirmed image may
\* overwrite, and the candidate between its selection and the restart.
OtherInv ==
  LET o == Other(run)
  IN  /\ otadata[o] = "new" => /\ pc.worker = "restart" /\ top = o
                               /\ flash[o] # None /\ otadata[run] = "valid"
      /\ otadata[run] = "pending" =>
           (run = 0 /\ otadata[o] = "none") \/ (otadata[o] = "valid" /\ flash[o] # None)
      /\ otadata[o] # "pending"
      /\ otadata[o] = "valid" => top = run

\* Who may be where: only a healthy image installs.
TaskInv ==
  /\ pc.worker \in {"check", "download", "write", "wait", "prepared", "restart"} => healthy
  /\ pc.worker \in {"download", "write", "wait", "prepared", "restart"} => manifest # None
  /\ pc.worker \in {"wait", "prepared", "restart"} => flash[Other(run)] = manifest
  /\ pc.main = "init" => pc.worker = "off"
  /\ healthy => pc.main = "up"

\* The floor and the images that could boot.
FloorInv ==
  /\ pc.main # "init" => j.floor = nvs.floor
  /\ nvs.floor > 0 => otadata[run] \in {"valid", "pending"}
  /\ otadata[run] = "valid" => nvs.floor <= release[flash[run]]
  /\ otadata[run] = "pending" =>
       IF otadata[Other(run)] = "valid"
       THEN nvs.floor <= release[flash[Other(run)]]
            /\ release[flash[Other(run)]] < release[flash[run]]
       ELSE nvs.floor = 0
  /\ pc.worker \in {"download", "write", "wait", "prepared", "restart"} =>
       release[manifest] > release[flash[run]]
  /\ \A t \in Tasks :
       pc[t] \in {"rejecting", "rollback"} => otadata[run] = "pending"

\* Inductive: what makes AlwaysBootable and, if app_main() is in time, FloorHolds.
IInv == TypeOK /\ RunningInv /\ OtherInv /\ TaskInv /\ (~SlowStart => FloorInv)

\* Cut the power at any moment, inside an installation or a confirmation, and
\* the bootloader finds a slot that holds a complete image (docs/updates.md).
AlwaysBootable == flash[BootChoice(otadata)] # None

\* Whatever the moment of the power cut, the image that boots is no older than
\* the newest confirmed one: the floor of the journal is never undercut.  And
\* it is one that may be confirmed: after any other app_main() restarts for ever.
FloorHolds ==
  /\ release[flash[BootChoice(otadata)]] >= nvs.floor
  /\ nvs.floor > 0 => otadata[BootChoice(otadata)] \in {"new", "valid"}

\* An image gets one trial: once it has run, confirmed, rejected or reset
\* before its confirmation, it is not selected as a candidate again.  This is
\* what the journal is for: no endless loop of installation and rollback.
TrialOnce ==
  [][\A s \in Slots : otadata'[s] = "new" /\ otadata[s] # "new" /\ s # run
       => flash[s] \notin booted]_vars

\* The image a trial falls back to; the confirmed one itself when it runs.
Trusted ==
  CASE otadata[run] = "valid" -> flash[run]
    [] otadata[run] = "pending" /\ otadata[Other(run)] = "valid" -> flash[Other(run)]
    [] OTHER -> None

\* The updater, with its two kinds of memory and the power cut between any two
\* writes, implements the abstract service of trials.
Trials == INSTANCE TrialService
            WITH running <- flash[run], trusted <- Trusted, tried <- booted
ImplementsTrials == Trials!Spec

\* A trial that can be rolled back ends: confirmed, rejected or reset.
TrialEnds == (BootPending /\ RollbackPossible) ~> ~BootPending

\* An offer the updater has admitted is checked, unless a restart comes first:
\* neither a check under way nor the throttle loses it.
OfferChecked ==
  healthy /\ (queued \/ deferred) 
    ~> pc.main = "init" \/ (pc.worker = "check" /\ url = "offer")

\* ota.c:135 of a candidate that is not running and was not tried: "reset before
\* boot selection: retry is safe".  No image that never ran is suppressed by
\* the boot-time reconciliation.
RetryIsSafe ==
  [][pc.main = "init" => Range(nvs'.failed) \subseteq Range(nvs.failed) \cup booted]_vars

(* The inductive strengthening of TrialOnce *)

\* What the journal will never have installed again.
Settled(jr, i) == release[i] <= jr.floor \/ Rejected(jr, i)

\* The running image is settled, or the journal names it as the candidate.
Covered(jr) ==
  Settled(jr, flash[run]) \/ jr.pend = [img |-> flash[run], slot |-> run]

Installing == pc.worker \in {"download", "write", "wait", "prepared", "restart"}

\* The ring of failed images holds none of them twice.
RingInv(jr) ==
  /\ Len(jr.failed) <= FailedHashes
  /\ \A m, n \in DOMAIN jr.failed : jr.failed[m] = jr.failed[n] => m = n

\* The next failure finds a place in the ring: no older one is forgotten for it.
HasRoom(jr) == \A i \in Images : ~Rejected(jr, i) => Len(jr.failed) < FailedHashes
RoomLeft == HasRoom(nvs) /\ HasRoom(j)

\* A journal knows what has run: every image that ran and runs no longer is
\* settled, the one on trial is named, the confirmed one is settled too.
Knows(jr) ==
  /\ \A i \in booted \ {flash[run]} : Settled(jr, i)
  /\ otadata[Other(run)] = "valid" => Covered(jr)
  /\ healthy => Settled(jr, flash[run])

\* After a restart the stored journal may still have to learn from the
\* selectors, in reconcile_boot(), that its candidate has run and failed.
MayLearn(jr) ==
  /\ \A i \in booted \ {flash[run]} :
       \/ Settled(jr, i)
       \/ jr.pend = [img |-> i, slot |-> Other(run)] /\ RejectedByBoot(jr)
  /\ otadata[Other(run)] = "valid" => Covered(jr)

\* The journal knows every image that has run, so the worker never installs one.
TrialInv ==
  /\ RingInv(nvs) /\ RingInv(j)
  /\ flash[run] \in booted
  /\ IF pc.main = "init" THEN MayLearn(nvs) ELSE Knows(nvs) /\ Knows(j)
  /\ Installing => manifest \notin booted
  /\ pc.worker \in {"prepared", "restart"} =>
       nvs.pend = [img |-> manifest, slot |-> Other(run)]

\* What a trial falls back to has run.
FallbackInv ==
  otadata[run] = "pending" /\ otadata[Other(run)] = "valid"
    => flash[Other(run)] \in booted
=============================================================================
