--------------------------- MODULE UpdaterProofs ---------------------------
(***************************************************************************)
(* Proofs about the updater, for any set of images and any release         *)
(* counters: a power cut at any moment leaves an image to boot             *)
(* (AlwaysBootable) and, when app_main() reports in time, none older than  *)
(* the newest confirmed one (FloorHolds).  Both follow from IInv.          *)
(*                                                                         *)
(* While the ring of failed images has room, each image has one trial      *)
(* (TrialOnce), and the updater implements TrialService.                   *)
(*                                                                         *)
(* Everything a restart needs to know is in BootSafe and FloorSafe, stated *)
(* of the selectors it finds; so the actions that restart the device are   *)
(* proved together, by RestartInv.                                         *)
(***************************************************************************)
EXTENDS Updater, FiniteSetTheorems, TLAPS

BootSafe(ota) ==
  LET a == AfterReset(ota)
      b == BootChoice(ota)
      o == Other(b)
  IN  /\ flash[b] # None
      /\ a[b] \in {"none", "aborted"} => b = 0 /\ a[o] = "none"
      /\ a[b] # "invalid"
      /\ a[o] # "new"
      /\ a[b] = "new" => (b = 0 /\ a[o] = "none") \/ (a[o] = "valid" /\ flash[o] # None)
      /\ a[o] = "valid" => top = b

FloorSafe(ota, f) ==
  LET a == AfterReset(ota)
      b == BootChoice(ota)
      o == Other(b)
  IN  /\ f > 0 => a[b] \in {"new", "valid"}
      /\ a[b] = "valid" => f <= release[flash[b]]
      /\ a[b] = "new" => IF a[o] = "valid"
                         THEN f <= release[flash[o]] /\ release[flash[o]] < release[flash[b]]
                         ELSE f = 0

-----------------------------------------------------------------------------
(* The journal keeps its type, and only a confirmation moves the floor. *)

LEMMA JournalLemma ==
  ASSUME NEW jr \in JournalType, NEW i \in Images, NEW s \in Slots, NEW r \in Nat
  PROVE  /\ ClearPending(jr) \in JournalType /\ ClearPending(jr).floor = jr.floor
         /\ Prepare(jr, i, s) \in JournalType /\ Prepare(jr, i, s).floor = jr.floor
         /\ Reject(jr, i) \in JournalType /\ Reject(jr, i).floor = jr.floor
         /\ ConfirmRelease(jr, r) \in JournalType
         /\ ConfirmRelease(jr, r).floor = IF r > jr.floor THEN r ELSE jr.floor
<1> USE DEF JournalType
<1>1. NoPending \in [img : Images \cup {None}, slot : Slots]
  BY DEF NoPending, Slots
<1>2. Remember(jr.failed, i) \in Seq(Images)
  BY UpdaterAssumption DEF Remember
<1>3. ClearPending(jr) \in JournalType /\ ClearPending(jr).floor = jr.floor
  BY <1>1 DEF ClearPending
<1>4. Prepare(jr, i, s) \in JournalType /\ Prepare(jr, i, s).floor = jr.floor
  BY DEF Prepare
<1>5. Reject(jr, i) \in JournalType /\ Reject(jr, i).floor = jr.floor
  BY <1>1, <1>2 DEF Reject, ClearPending
<1>6. ConfirmRelease(jr, r) \in JournalType
      /\ ConfirmRelease(jr, r).floor = IF r > jr.floor THEN r ELSE jr.floor
  BY <1>1 DEF ConfirmRelease, ClearPending
<1> QED BY <1>3, <1>4, <1>5, <1>6

LEMMA EmptyJournalType == EmptyJournal \in JournalType
  BY DEF EmptyJournal, NoPending, JournalType, Slots

-----------------------------------------------------------------------------
(* What the invariant says of a restart *)

LEMMA BootsSafely == IInv => BootSafe(otadata)
<1> SUFFICES ASSUME IInv PROVE BootSafe(otadata)
  OBVIOUS
<1> DEFINE a == AfterReset(otadata)
           o == Other(run)
<1>1. /\ run \in Slots /\ top \in Slots /\ o \in Slots /\ o # run /\ Other(o) = run
      /\ Slots = {run, o}
  BY DEF IInv, TypeOK, Slots, Other
<1>2. /\ a[run] = (IF otadata[run] = "pending" THEN "aborted" ELSE otadata[run])
      /\ a[o] = (IF otadata[o] = "pending" THEN "aborted" ELSE otadata[o])
  BY <1>1 DEF AfterReset
<1>3. /\ otadata[run] \in States /\ otadata[o] \in States
  BY <1>1 DEF IInv, TypeOK
<1>4. RunningInv /\ OtherInv /\ TaskInv
  BY DEF IInv
<1>5. BootChoice(otadata) = IF Selectable(a[top]) THEN top
                            ELSE IF Selectable(a[Other(top)]) THEN Other(top) ELSE 0
  BY DEF BootChoice, Active
<1> HIDE DEF a, o
<1>6. CASE otadata[o] = "new"
  BY <1>1, <1>2, <1>3, <1>4, <1>5, <1>6 DEF BootSafe, RunningInv, OtherInv, TaskInv, Selectable, a, o
<1>7. CASE otadata[run] = "pending"
  BY <1>1, <1>2, <1>3, <1>4, <1>5, <1>7 DEF BootSafe, RunningInv, OtherInv, Selectable, States, a, o
<1>8. CASE otadata[o] # "new" /\ otadata[run] # "pending"
  BY <1>1, <1>2, <1>3, <1>4, <1>5, <1>8 DEF BootSafe, RunningInv, OtherInv, Selectable, States, a, o
<1> QED BY <1>6, <1>7, <1>8

LEMMA BootsOverFloor == IInv /\ ~SlowStart => FloorSafe(otadata, nvs.floor)
  BY UpdaterAssumption DEF IInv, TypeOK, RunningInv, OtherInv, TaskInv, FloorInv, FloorSafe, AfterReset,
         BootChoice, Active, Selectable, Other, Slots, States, JournalType

LEMMA RestartInv ==
  ASSUME TypeOK, NEW ota \in [Slots -> States], Restart(ota), UNCHANGED <<flash, top>>,
         nvs' \in JournalType, BootSafe(ota), ~SlowStart => FloorSafe(ota, nvs'.floor)
  PROVE  IInv'
<1> DEFINE b == BootChoice(ota)
           a == AfterReset(ota)
<1>1. b \in Slots /\ a \in [Slots -> States]
  BY DEF AfterReset, BootChoice, Active, Slots, Other, TypeOK, States
<1>2. /\ run' = b /\ otadata' = [a EXCEPT ![b] = IF a[b] = "new" THEN "pending" ELSE a[b]]
      /\ booted' = booted \cup {flash[b]} /\ j' = EmptyJournal /\ healthy' = FALSE
      /\ pc' = Starting /\ manifest' = None
      /\ queued' = FALSE /\ deferred' = FALSE /\ url' = "own" /\ policy' = policy
  BY DEF Restart
<1>3. flash[b] \in Images
  BY <1>1 DEF BootSafe, TypeOK
<1>4. TypeOK'
  <2>1. flash' = flash /\ top' = top
    OBVIOUS
  <2>2. otadata' \in [Slots -> States]
    BY <1>1, <1>2 DEF States
  <2>3. booted' \subseteq Images /\ manifest' \in Images \cup {None}
    BY <1>2, <1>3 DEF TypeOK
  <2>4. pc' \in [Tasks -> Labels]
    BY <1>2 DEF Starting, Labels
  <2>5. /\ healthy' \in BOOLEAN /\ queued' \in BOOLEAN /\ deferred' \in BOOLEAN
        /\ url' \in {"offer", "own"} /\ policy' \in {"auto", "notify"}
    BY <1>2 DEF TypeOK
  <2>6. /\ flash' \in [Slots -> Images \cup {None}] /\ top' \in Slots /\ run' \in Slots
    BY <1>1, <1>2, <2>1 DEF TypeOK
  <2>7. j' \in JournalType
    BY <1>2, EmptyJournalType
  <2> QED BY <2>2, <2>3, <2>4, <2>5, <2>6, <2>7 DEF TypeOK
<1>5. otadata'[Other(b)] = a[Other(b)] /\ Other(b) \in Slots /\ Other(b) # b
      /\ otadata'[b] = (IF a[b] = "new" THEN "pending" ELSE a[b])
      /\ a[0] # "pending" /\ a[1] # "pending"
  BY <1>1, <1>2 DEF Other, Slots, AfterReset
<1>6. RunningInv' /\ OtherInv' /\ TaskInv'
  BY <1>1, <1>2, <1>5 DEF RunningInv, OtherInv, TaskInv, BootSafe, Other, Slots, Starting, Tasks
<1>7. ~SlowStart => FloorInv'
  BY <1>1, <1>2, <1>5 DEF FloorInv, FloorSafe, Other, Slots, Starting, Tasks
<1> QED BY <1>4, <1>6, <1>7 DEF IInv

-----------------------------------------------------------------------------
(* Steps that neither restart the device nor write to its selectors *)

LEMMA Facts ==
  ASSUME IInv
  PROVE  /\ run \in Slots /\ Other(run) \in Slots /\ Other(run) # run
         /\ Other(Other(run)) = run /\ Slots = {run, Other(run)}
         /\ flash[run] \in Images /\ release[flash[run]] \in Nat \ {0}
         /\ nvs.floor \in Nat /\ j.floor \in Nat
  BY UpdaterAssumption DEF IInv, TypeOK, RunningInv, Slots, Other, JournalType

LEMMA NoVerdictInv == IInv /\ NoVerdict => IInv'
<1> SUFFICES ASSUME IInv, NoVerdict PROVE IInv'
  OBVIOUS
<1>1. TypeOK'
  BY DEF NoVerdict, At, Go, Back, work, offers, lasting, LockFree, Tasks, Labels, IInv, TypeOK
<1>2. RunningInv' /\ OtherInv' /\ TaskInv'
  BY DEF NoVerdict, At, Go, Back, work, offers, lasting, LockFree, Tasks, Labels, IInv, TypeOK, RunningInv, OtherInv, TaskInv, Other
<1>3. ~SlowStart => FloorInv'
  BY DEF NoVerdict, At, Go, Back, work, offers, lasting, LockFree, Tasks, Labels, IInv, TypeOK, RunningInv, TaskInv, FloorInv, Other
<1> QED BY <1>1, <1>2, <1>3 DEF IInv

LEMMA UsbFailedInv == IInv /\ UsbFailed => IInv'
<1> SUFFICES ASSUME IInv, UsbFailed PROVE IInv'
  OBVIOUS
<1>1. TypeOK'
  BY DEF UsbFailed, At, Go, Back, work, offers, lasting, LockFree, Tasks, Labels, BootPending, IInv, TypeOK
<1>2. RunningInv' /\ OtherInv' /\ TaskInv'
  BY DEF UsbFailed, At, Go, Back, work, offers, lasting, LockFree, Tasks, Labels, BootPending, IInv, TypeOK, RunningInv, OtherInv, TaskInv, Other
<1>3. ~SlowStart => FloorInv'
  BY DEF UsbFailed, At, Go, Back, work, offers, lasting, LockFree, Tasks, Labels, BootPending, IInv, TypeOK, RunningInv, TaskInv, FloorInv, Other
<1> QED BY <1>1, <1>2, <1>3 DEF IInv

LEMMA ExpireInv == IInv /\ Expire => IInv'
<1> SUFFICES ASSUME IInv, Expire PROVE IInv'
  OBVIOUS
<1>1. TypeOK'
  BY DEF Expire, At, Go, Back, work, offers, lasting, LockFree, Tasks, Labels, BootPending, IInv, TypeOK
<1>2. RunningInv' /\ OtherInv' /\ TaskInv'
  BY DEF Expire, At, Go, Back, work, offers, lasting, LockFree, Tasks, Labels, BootPending, IInv, TypeOK, RunningInv, OtherInv, TaskInv, Other
<1>3. ~SlowStart => FloorInv'
  BY DEF Expire, At, Go, Back, work, offers, lasting, LockFree, Tasks, Labels, BootPending, IInv, TypeOK, RunningInv, TaskInv, FloorInv, Other
<1> QED BY <1>1, <1>2, <1>3 DEF IInv

LEMMA OfferInv == IInv /\ Offer => IInv'
<1> SUFFICES ASSUME IInv, Offer PROVE IInv'
  OBVIOUS
<1>1. TypeOK'
  BY DEF Offer, At, Go, Back, work, offers, lasting, LockFree, Tasks, Labels, IInv, TypeOK
<1>2. RunningInv' /\ OtherInv' /\ TaskInv'
  BY DEF Offer, At, Go, Back, work, offers, lasting, LockFree, Tasks, Labels, IInv, TypeOK, RunningInv, OtherInv, TaskInv, Other
<1>3. ~SlowStart => FloorInv'
  BY DEF Offer, At, Go, Back, work, offers, lasting, LockFree, Tasks, Labels, IInv, TypeOK, RunningInv, TaskInv, FloorInv, Other
<1> QED BY <1>1, <1>2, <1>3 DEF IInv

LEMMA TakeOfferInv == IInv /\ TakeOffer => IInv'
<1> SUFFICES ASSUME IInv, TakeOffer PROVE IInv'
  OBVIOUS
<1>1. TypeOK'
  BY DEF TakeOffer, At, Go, Back, work, offers, lasting, LockFree, Tasks, Labels, IInv, TypeOK
<1>2. RunningInv' /\ OtherInv' /\ TaskInv'
  BY DEF TakeOffer, At, Go, Back, work, offers, lasting, LockFree, Tasks, Labels, IInv, TypeOK, RunningInv, OtherInv, TaskInv, Other
<1>3. ~SlowStart => FloorInv'
  BY DEF TakeOffer, At, Go, Back, work, offers, lasting, LockFree, Tasks, Labels, IInv, TypeOK, RunningInv, TaskInv, FloorInv, Other
<1> QED BY <1>1, <1>2, <1>3 DEF IInv

LEMMA StartCheckInv == IInv /\ StartCheck => IInv'
<1> SUFFICES ASSUME IInv, StartCheck PROVE IInv'
  OBVIOUS
<1>1. TypeOK'
  BY DEF StartCheck, At, Go, Back, work, offers, lasting, LockFree, Tasks, Labels, IInv, TypeOK
<1>2. RunningInv' /\ OtherInv' /\ TaskInv'
  BY DEF StartCheck, At, Go, Back, work, offers, lasting, LockFree, Tasks, Labels, IInv, TypeOK, RunningInv, OtherInv, TaskInv, Other
<1>3. ~SlowStart => FloorInv'
  BY DEF StartCheck, At, Go, Back, work, offers, lasting, LockFree, Tasks, Labels, IInv, TypeOK, RunningInv, TaskInv, FloorInv, Other
<1> QED BY <1>1, <1>2, <1>3 DEF IInv

LEMMA FetchFailsInv == IInv /\ FetchFails => IInv'
<1> SUFFICES ASSUME IInv, FetchFails PROVE IInv'
  OBVIOUS
<1>1. TypeOK'
  BY DEF FetchFails, At, Go, Back, work, offers, lasting, LockFree, Tasks, Labels, WorkerDone, IInv, TypeOK
<1>2. RunningInv' /\ OtherInv' /\ TaskInv'
  BY DEF FetchFails, At, Go, Back, work, offers, lasting, LockFree, Tasks, Labels, WorkerDone, IInv, TypeOK, RunningInv, OtherInv, TaskInv, Other
<1>3. ~SlowStart => FloorInv'
  BY DEF FetchFails, At, Go, Back, work, offers, lasting, LockFree, Tasks, Labels, WorkerDone, IInv, TypeOK, RunningInv, TaskInv, FloorInv, Other
<1> QED BY <1>1, <1>2, <1>3 DEF IInv

LEMMA DownloadFailsInv == IInv /\ DownloadFails => IInv'
<1> SUFFICES ASSUME IInv, DownloadFails PROVE IInv'
  OBVIOUS
<1>1. TypeOK'
  BY DEF DownloadFails, At, Go, Back, work, offers, lasting, LockFree, Tasks, Labels, WorkerDone, IInv, TypeOK
<1>2. RunningInv' /\ OtherInv' /\ TaskInv'
  BY DEF DownloadFails, At, Go, Back, work, offers, lasting, LockFree, Tasks, Labels, WorkerDone, IInv, TypeOK, RunningInv, OtherInv, TaskInv, Other
<1>3. ~SlowStart => FloorInv'
  BY DEF DownloadFails, At, Go, Back, work, offers, lasting, LockFree, Tasks, Labels, WorkerDone, IInv, TypeOK, RunningInv, TaskInv, FloorInv, Other
<1> QED BY <1>1, <1>2, <1>3 DEF IInv

LEMMA FetchInv == IInv /\ Fetch => IInv'
<1> SUFFICES ASSUME IInv, Fetch PROVE IInv'
  OBVIOUS
<1>1. TypeOK'
  BY UpdaterAssumption DEF Fetch, At, Go, Back, work, offers, lasting, LockFree, Tasks, Labels, WorkerDone, Fresh, NewerThanRunning, IInv, TypeOK
<1>2. RunningInv' /\ OtherInv' /\ TaskInv'
  BY UpdaterAssumption DEF Fetch, At, Go, Back, work, offers, lasting, LockFree, Tasks, Labels, WorkerDone, Fresh, NewerThanRunning, IInv, TypeOK, RunningInv, OtherInv, TaskInv, Other, Slots
<1>3. ~SlowStart => FloorInv'
  BY UpdaterAssumption DEF Fetch, At, Go, Back, work, offers, lasting, LockFree, Tasks, Labels, WorkerDone, Fresh, NewerThanRunning, IInv, TypeOK, RunningInv, OtherInv, TaskInv, FloorInv, Other, Slots
<1> QED BY <1>1, <1>2, <1>3 DEF IInv

LEMMA DownloadBeginInv == IInv /\ DownloadBegin => IInv'
<1> SUFFICES ASSUME IInv, DownloadBegin PROVE IInv'
  OBVIOUS
<1>0. /\ flash'[run] = flash[run] /\ flash'[Other(run)] = None
      /\ run' = run /\ flash' \in [Slots -> Images \cup {None}]
  BY Facts DEF DownloadBegin, NextPartition, IInv, TypeOK
<1>1. TypeOK'
  BY <1>0, Facts, UpdaterAssumption DEF DownloadBegin, At, Go, Back, work, offers, lasting, LockFree, Tasks, Labels, NextPartition, IInv, TypeOK
<1>2. RunningInv' /\ OtherInv' /\ TaskInv'
  BY <1>0, Facts, UpdaterAssumption DEF DownloadBegin, At, Go, Back, work, offers, lasting, LockFree, Tasks, Labels, NextPartition, IInv, TypeOK, RunningInv, OtherInv, TaskInv, Other, Slots
<1>3. ~SlowStart => FloorInv'
  BY <1>0, Facts, UpdaterAssumption DEF DownloadBegin, At, Go, Back, work, offers, lasting, LockFree, Tasks, Labels, NextPartition, IInv, TypeOK, RunningInv, OtherInv, TaskInv, FloorInv, Other, Slots
<1> QED BY <1>1, <1>2, <1>3 DEF IInv

LEMMA DownloadEndInv == IInv /\ DownloadEnd => IInv'
<1> SUFFICES ASSUME IInv, DownloadEnd PROVE IInv'
  OBVIOUS
<1>0. /\ flash'[run] = flash[run] /\ flash'[Other(run)] = manifest /\ manifest \in Images
      /\ run' = run /\ flash' \in [Slots -> Images \cup {None}]
  BY Facts DEF DownloadEnd, At, NextPartition, IInv, TypeOK, TaskInv
<1>1. TypeOK'
  BY <1>0, Facts, UpdaterAssumption DEF DownloadEnd, At, Go, Back, work, offers, lasting, LockFree, Tasks, Labels, NextPartition, IInv, TypeOK
<1>2. RunningInv' /\ OtherInv' /\ TaskInv'
  BY <1>0, Facts, UpdaterAssumption DEF DownloadEnd, At, Go, Back, work, offers, lasting, LockFree, Tasks, Labels, NextPartition, IInv, TypeOK, RunningInv, OtherInv, TaskInv, Other, Slots
<1>3. ~SlowStart => FloorInv'
  BY <1>0, Facts, UpdaterAssumption DEF DownloadEnd, At, Go, Back, work, offers, lasting, LockFree, Tasks, Labels, NextPartition, IInv, TypeOK, RunningInv, OtherInv, TaskInv, FloorInv, Other, Slots
<1> QED BY <1>1, <1>2, <1>3 DEF IInv

LEMMA RestartSelectInv == IInv /\ RestartSelect => IInv'
<1> SUFFICES ASSUME IInv, RestartSelect PROVE IInv'
  OBVIOUS
<1>0. /\ otadata'[run] = otadata[run] /\ otadata'[Other(run)] = "new" /\ top' = Other(run)
      /\ otadata' \in [Slots -> States]
  BY Facts DEF RestartSelect, SetBoot, NextPartition, IInv, TypeOK, States
<1>1. TypeOK'
  BY <1>0, Facts, UpdaterAssumption DEF RestartSelect, At, Go, Back, work, offers, lasting, LockFree, Tasks, Labels, NextPartition, SetBoot, States, IInv, TypeOK
<1>2. RunningInv' /\ OtherInv' /\ TaskInv'
  BY <1>0, Facts, UpdaterAssumption DEF RestartSelect, At, Go, Back, work, offers, lasting, LockFree, Tasks, Labels, NextPartition, SetBoot, States, IInv, TypeOK, RunningInv, OtherInv, TaskInv, Other, Slots
<1>3. ~SlowStart => FloorInv'
  BY <1>0, Facts, UpdaterAssumption DEF RestartSelect, At, Go, Back, work, offers, lasting, LockFree, Tasks, Labels, NextPartition, SetBoot, States, IInv, TypeOK, RunningInv, OtherInv, TaskInv, FloorInv, Other, Slots
<1> QED BY <1>1, <1>2, <1>3 DEF IInv

-----------------------------------------------------------------------------
(* Steps that write the journal and stay up *)

LEMMA RejectJournalInv == ASSUME IInv, NEW t \in Tasks, RejectJournal(t) PROVE IInv'
<1>0. /\ j' \in JournalType /\ nvs' \in JournalType
      /\ j'.floor = j.floor /\ nvs'.floor \in {nvs.floor, j.floor}
  <2>1. Suppressed \in JournalType /\ Suppressed.floor = j.floor
    BY JournalLemma, j \in JournalType, j.pend.img \in Images \cup {None}
    DEF Suppressed, IInv, TypeOK, JournalType
  <2> QED BY <2>1 DEF RejectJournal, Saved, SaveFails, IInv, TypeOK
<1>1. TypeOK'
  BY <1>0, UpdaterAssumption DEF RejectJournal, At, Go, Back, work, offers, lasting, LockFree, Tasks, Labels, IInv, TypeOK
<1>2. RunningInv' /\ OtherInv' /\ TaskInv'
  BY <1>0, UpdaterAssumption DEF RejectJournal, At, Go, Back, work, offers, lasting, LockFree, Tasks, Labels, IInv, TypeOK, RunningInv, OtherInv, TaskInv, Other, Slots
<1>3. ~SlowStart => FloorInv'
  BY <1>0, Facts, UpdaterAssumption DEF RejectJournal, At, Go, Back, work, offers, lasting, LockFree, Tasks, Labels, IInv, TypeOK, RunningInv, OtherInv, TaskInv, FloorInv, Other, Slots
<1> QED BY <1>1, <1>2, <1>3 DEF IInv

LEMMA DownloadRejectedInv == IInv /\ DownloadRejected => IInv'
<1> SUFFICES ASSUME IInv, DownloadRejected PROVE IInv'
  OBVIOUS
<1>0. /\ j' \in JournalType /\ nvs' \in JournalType
      /\ j'.floor = j.floor /\ nvs'.floor \in {nvs.floor, j.floor}
  <2>1. manifest \in Images
    BY UpdaterAssumption DEF DownloadRejected, At, IInv, TypeOK, TaskInv
  <2>2. Reject(j, manifest) \in JournalType /\ Reject(j, manifest).floor = j.floor
    BY <2>1, JournalLemma DEF IInv, TypeOK
  <2> QED BY <2>2 DEF DownloadRejected, Saved, SaveFails, IInv, TypeOK
<1>1. TypeOK'
  BY <1>0, UpdaterAssumption DEF DownloadRejected, At, Go, Back, work, offers, lasting, LockFree, Tasks, Labels, WorkerDone, IInv, TypeOK
<1>2. RunningInv' /\ OtherInv' /\ TaskInv'
  BY <1>0, UpdaterAssumption DEF DownloadRejected, At, Go, Back, work, offers, lasting, LockFree, Tasks, Labels, WorkerDone, IInv, TypeOK, RunningInv, OtherInv, TaskInv, Other, Slots
<1>3. ~SlowStart => FloorInv'
  BY <1>0, UpdaterAssumption DEF DownloadRejected, At, Go, Back, work, offers, lasting, LockFree, Tasks, Labels, WorkerDone, IInv, TypeOK, RunningInv, OtherInv, TaskInv, FloorInv, Other, Slots
<1> QED BY <1>1, <1>2, <1>3 DEF IInv

LEMMA RestartFailsInv == IInv /\ RestartFails => IInv'
<1> SUFFICES ASSUME IInv, RestartFails PROVE IInv'
  OBVIOUS
<1>0. /\ j' \in JournalType /\ nvs' \in JournalType
      /\ j'.floor = j.floor /\ nvs'.floor \in {nvs.floor, j.floor}
  <2>1. CASE UNCHANGED <<j, nvs>>
    BY <2>1 DEF IInv, TypeOK
  <2>2. CASE At("worker", "wait") /\ SaveFails(Prepare(j, manifest, NextPartition))
    <3>1. manifest \in Images /\ NextPartition \in Slots
      BY <2>2 DEF At, IInv, TypeOK, TaskInv, NextPartition, Other, Slots
    <3>2. Prepare(j, manifest, NextPartition) \in JournalType
          /\ Prepare(j, manifest, NextPartition).floor = j.floor
      BY <3>1, JournalLemma DEF IInv, TypeOK
    <3> QED BY <2>2, <3>2 DEF Saved, SaveFails, IInv, TypeOK
  <2> QED BY <2>1, <2>2 DEF RestartFails
<1>1. TypeOK'
  BY <1>0, UpdaterAssumption DEF RestartFails, At, Go, Back, work, offers, lasting, LockFree, Tasks, Labels, WorkerDone, IInv, TypeOK
<1>2. RunningInv' /\ OtherInv' /\ TaskInv'
  BY <1>0, UpdaterAssumption DEF RestartFails, At, Go, Back, work, offers, lasting, LockFree, Tasks, Labels, WorkerDone, IInv, TypeOK, RunningInv, OtherInv, TaskInv, Other, Slots
<1>3. ~SlowStart => FloorInv'
  BY <1>0, UpdaterAssumption DEF RestartFails, At, Go, Back, work, offers, lasting, LockFree, Tasks, Labels, WorkerDone, IInv, TypeOK, RunningInv, OtherInv, TaskInv, FloorInv, Other, Slots
<1> QED BY <1>1, <1>2, <1>3 DEF IInv

LEMMA RestartJournalInv == IInv /\ RestartJournal => IInv'
<1> SUFFICES ASSUME IInv, RestartJournal PROVE IInv'
  OBVIOUS
<1>0. /\ j' \in JournalType /\ nvs' \in JournalType
      /\ j'.floor = j.floor /\ nvs'.floor \in {nvs.floor, j.floor}
  <2>1. CASE UNCHANGED <<j, nvs>>
    BY <2>1 DEF IInv, TypeOK
  <2>2. CASE At("worker", "wait") /\ Saved(Prepare(j, manifest, NextPartition))
    <3>1. manifest \in Images /\ NextPartition \in Slots
      BY <2>2 DEF At, IInv, TypeOK, TaskInv, NextPartition, Other, Slots
    <3>2. Prepare(j, manifest, NextPartition) \in JournalType
          /\ Prepare(j, manifest, NextPartition).floor = j.floor
      BY <3>1, JournalLemma DEF IInv, TypeOK
    <3> QED BY <2>2, <3>2 DEF Saved, SaveFails, IInv, TypeOK
  <2> QED BY <2>1, <2>2 DEF RestartJournal
<1>1. TypeOK'
  BY <1>0, UpdaterAssumption DEF RestartJournal, At, Go, Back, work, offers, lasting, LockFree, Tasks, Labels, IInv, TypeOK
<1>2. RunningInv' /\ OtherInv' /\ TaskInv'
  BY <1>0, UpdaterAssumption DEF RestartJournal, At, Go, Back, work, offers, lasting, LockFree, Tasks, Labels, IInv, TypeOK, RunningInv, OtherInv, TaskInv, Other, Slots
<1>3. ~SlowStart => FloorInv'
  BY <1>0, UpdaterAssumption DEF RestartJournal, At, Go, Back, work, offers, lasting, LockFree, Tasks, Labels, IInv, TypeOK, RunningInv, OtherInv, TaskInv, FloorInv, Other, Slots
<1> QED BY <1>1, <1>2, <1>3 DEF IInv

LEMMA ConfirmSaveInv == IInv /\ ConfirmSave => IInv'
<1> SUFFICES ASSUME IInv, ConfirmSave PROVE IInv'
  OBVIOUS
<1>0. LET r == release[flash[run]]
      IN  /\ j' \in JournalType /\ nvs' = j'
          /\ j'.floor = IF r > j.floor THEN r ELSE j.floor
          /\ r \in Nat \ {0}
  <2>1. release[flash[run]] \in Nat \ {0} /\ j \in JournalType
    BY UpdaterAssumption DEF IInv, TypeOK, RunningInv
  <2>2. JournalType # {} /\ Images # {} /\ 0 \in Slots
    BY <2>1, UpdaterAssumption DEF Slots
  <2> QED BY <2>1, <2>2, JournalLemma DEF ConfirmSave, Saved
<1>1. TypeOK'
  BY <1>0, UpdaterAssumption DEF ConfirmSave, At, Go, Back, work, offers, lasting, LockFree, Tasks, Labels, IInv, TypeOK
<1>2. RunningInv' /\ OtherInv' /\ TaskInv'
  BY <1>0, UpdaterAssumption DEF ConfirmSave, At, Go, Back, work, offers, lasting, LockFree, Tasks, Labels, IInv, TypeOK, RunningInv, OtherInv, TaskInv, Other, Slots
<1>3. ~SlowStart => FloorInv'
  BY <1>0, UpdaterAssumption DEF ConfirmSave, At, Go, Back, work, offers, lasting, LockFree, Tasks, Labels, IInv, TypeOK, RunningInv, OtherInv, TaskInv, FloorInv, Other, Slots
<1> QED BY <1>1, <1>2, <1>3 DEF IInv

LEMMA ReconciledFloor ==
  ASSUME nvs \in JournalType
  PROVE  Reconciled(nvs) \in JournalType /\ Reconciled(nvs).floor = nvs.floor
<1>1. nvs.pend.img \in Images \cup {None}
  BY DEF JournalType
<1>2. CASE nvs.pend.img = None
  BY <1>2 DEF Reconciled
<1>3. CASE nvs.pend.img # None
  <2>1. nvs.pend.img \in Images /\ 0 \in Slots /\ 0 \in Nat
    BY <1>1, <1>3 DEF Slots
  <2>2. Reconciled(nvs) \in {nvs, Reject(nvs, nvs.pend.img), ClearPending(nvs)}
    BY <1>3 DEF Reconciled
  <2> QED BY <2>1, <2>2, JournalLemma
<1> QED BY <1>2, <1>3

LEMMA OtaInitInv == IInv /\ OtaInit => IInv'
<1> SUFFICES ASSUME IInv, OtaInit PROVE IInv'
  OBVIOUS
<1>0. j' = nvs' /\ nvs' \in JournalType /\ nvs'.floor = nvs.floor
  BY ReconciledFloor DEF OtaInit, Saved, IInv, TypeOK
<1>1. TypeOK'
  BY <1>0, UpdaterAssumption DEF OtaInit, At, Go, Back, work, offers, lasting, LockFree, Tasks, Labels, IInv, TypeOK
<1>2. RunningInv' /\ OtherInv' /\ TaskInv'
  BY <1>0, UpdaterAssumption DEF OtaInit, At, Go, Back, work, offers, lasting, LockFree, Tasks, Labels, IInv, TypeOK, RunningInv, OtherInv, TaskInv, Other, Slots
<1>3. ~SlowStart => FloorInv'
  BY <1>0, UpdaterAssumption DEF OtaInit, At, Go, Back, work, offers, lasting, LockFree, Tasks, Labels, IInv, TypeOK, RunningInv, OtherInv, TaskInv, FloorInv, Other, Slots
<1> QED BY <1>1, <1>2, <1>3 DEF IInv

-----------------------------------------------------------------------------
(* Steps that write the selectors *)

LEMMA ConfirmSeedInv == IInv /\ ConfirmSeed => IInv'
<1> SUFFICES ASSUME IInv, ConfirmSeed PROVE IInv'
  OBVIOUS
<1>0. /\ otadata'[run] = "valid" /\ otadata'[Other(run)] = otadata[Other(run)]
      /\ otadata' \in [Slots -> States] /\ otadata[Other(run)] = "none"
      /\ top = run \/ top = Other(run)
  BY Facts DEF ConfirmSeed, MarkValid, Active, Selectable, At, IInv, TypeOK, RunningInv, FloorInv, States
<1>1. TypeOK'
  BY <1>0, Facts, UpdaterAssumption DEF ConfirmSeed, At, Go, Back, work, offers, lasting, LockFree, Tasks, Labels, MarkValid, Active, Selectable, States, IInv, TypeOK
<1>2. RunningInv' /\ OtherInv' /\ TaskInv'
  BY <1>0, Facts, UpdaterAssumption DEF ConfirmSeed, At, Go, Back, work, offers, lasting, LockFree, Tasks, Labels, MarkValid, Active, Selectable, States, IInv, TypeOK, RunningInv, OtherInv, TaskInv, Other, Slots
<1>3. ~SlowStart => FloorInv'
  BY <1>0, Facts, UpdaterAssumption DEF ConfirmSeed, At, Go, Back, work, offers, lasting, LockFree, Tasks, Labels, MarkValid, Active, Selectable, States, IInv, TypeOK, RunningInv, OtherInv, TaskInv, FloorInv, Other, Slots
<1> QED BY <1>1, <1>2, <1>3 DEF IInv

LEMMA PowerLossInv == IInv /\ PowerLoss => IInv'
<1> SUFFICES ASSUME IInv, PowerLoss PROVE IInv'
  OBVIOUS
<1>1. nvs' \in JournalType /\ nvs' = nvs /\ otadata \in [Slots -> States]
  BY DEF PowerLoss, IInv, TypeOK
<1>2. Restart(otadata) /\ UNCHANGED <<flash, top>>
  BY DEF PowerLoss
<1> QED BY <1>1, <1>2, BootsSafely, BootsOverFloor, RestartInv DEF IInv

LEMMA RestartNowInv == IInv /\ RestartNow => IInv'
  BY PowerLossInv DEF RestartNow, PowerLoss

LEMMA OtaInitFailsInv == IInv /\ OtaInitFails => IInv'
<1> SUFFICES ASSUME IInv, OtaInitFails PROVE IInv'
  OBVIOUS
<1>1. nvs' \in JournalType /\ nvs'.floor = nvs.floor /\ otadata \in [Slots -> States]
  BY ReconciledFloor DEF OtaInitFails, IInv, TypeOK
<1>2. Restart(otadata) /\ UNCHANGED <<flash, top>>
  BY DEF OtaInitFails
<1> QED BY <1>1, <1>2, BootsSafely, BootsOverFloor, RestartInv DEF IInv

\* A confirmation raises the floor to the image that runs, which a restart boots.
LEMMA ConfirmSaveFailsInv == IInv /\ ConfirmSaveFails => IInv'
<1> SUFFICES ASSUME IInv, ConfirmSaveFails PROVE IInv'
  OBVIOUS
<1> DEFINE r == release[flash[run]]
<1>1. Restart(otadata) /\ UNCHANGED <<flash, top>> /\ otadata \in [Slots -> States]
  BY DEF ConfirmSaveFails, IInv, TypeOK
<1>2. /\ nvs' \in JournalType
      /\ nvs'.floor \in {nvs.floor, IF r > j.floor THEN r ELSE j.floor}
  <2>1. r \in Nat /\ j \in JournalType /\ nvs \in JournalType
    BY Facts DEF IInv, TypeOK
  <2>2. flash[run] \in Images /\ run \in Slots
    BY Facts
  <2>3. /\ ConfirmRelease(j, r) \in JournalType
        /\ ConfirmRelease(j, r).floor = IF r > j.floor THEN r ELSE j.floor
    BY <2>1, <2>2, JournalLemma
  <2>4. nvs' \in {nvs, ConfirmRelease(j, r)}
    BY DEF ConfirmSaveFails
  <2> QED BY <2>1, <2>3, <2>4
<1>3. otadata[run] = "valid" /\ pc["main"] = "marked"
  BY DEF ConfirmSaveFails, At, IInv, RunningInv
<1>4. BootChoice(otadata) = run
  BY <1>3, Facts DEF ConfirmSaveFails, BootChoice, AfterReset, Active, Selectable, Other, IInv,
                     TypeOK, RunningInv, OtherInv, TaskInv, Slots, States, At
<1>5. ASSUME ~SlowStart PROVE FloorSafe(otadata, nvs'.floor)
  <2>1. AfterReset(otadata)[run] = "valid"
    BY <1>3, Facts DEF AfterReset
  <2>2. j.floor = nvs.floor /\ nvs.floor <= r
    BY <1>3, <1>5 DEF IInv, FloorInv
  <2>3. nvs'.floor <= r
    BY <1>2, <2>2, Facts
  <2> QED BY <1>4, <2>1, <2>3 DEF FloorSafe
<1> QED BY <1>1, <1>2, <1>5, BootsSafely, RestartInv DEF IInv

-----------------------------------------------------------------------------
(* Confirmation and rollback *)

LEMMA ConfirmInv == IInv /\ Confirm => IInv'
<1> SUFFICES ASSUME IInv, Confirm PROVE IInv'
  OBVIOUS
<1> USE DEF At, Go, work, offers, lasting, Tasks, Labels
<1>1. CASE UNCHANGED vars
  BY <1>1 DEF vars, IInv, TypeOK, RunningInv, OtherInv, TaskInv, FloorInv, Other
<1>2. CASE Restart(otadata) /\ UNCHANGED <<flash, top, nvs>>
  BY <1>2, PowerLossInv DEF PowerLoss
<1>3. CASE /\ otadata[run] \in {"new", "pending"} /\ MarkValid /\ Go("main", "marked") /\ ~healthy
           /\ At("main", "health")
           /\ UNCHANGED <<flash, top, nvs, run, j, healthy, work, phase, policy, booted>>
  <2>0. otadata[run] = "pending"
    BY <1>3 DEF IInv, RunningInv
  <2>a. pc["worker"] \in Labels /\ pc["worker"] # "restart"
    BY <1>3 DEF IInv, TypeOK, TaskInv
  <2>1. otadata[run] = "pending" /\ pc["worker"] # "restart"
        /\ pc["worker"] \notin {"download", "write", "wait", "prepared"}
    BY <1>3, <2>0, <2>a DEF IInv, TaskInv
  <2>2. Active(otadata) = run
    BY <2>1, Facts DEF IInv, RunningInv, OtherInv, TypeOK, Active, Selectable, States
  <2>3. /\ otadata'[run] = "valid" /\ otadata'[Other(run)] = otadata[Other(run)]
        /\ otadata' \in [Slots -> States] /\ pc' \in [Tasks -> Labels]
        /\ pc'["main"] = "marked" /\ pc'["worker"] = pc["worker"]
    BY <1>3, <2>2, Facts DEF MarkValid, IInv, TypeOK, States
  <2>4. TypeOK'
    BY <1>3, <2>3 DEF IInv, TypeOK
  <2>5. RunningInv' /\ OtherInv' /\ TaskInv'
    BY <1>3, <2>1, <2>3, Facts DEF IInv, TypeOK, RunningInv, OtherInv, TaskInv, Other, Slots, States
  <2>6. ASSUME ~SlowStart PROVE FloorInv'
    <3>1. pc["worker"] \notin {"rejecting", "rollback"}
      BY <2>6 DEF Confirm, InTime
    <3>2. nvs.floor <= release[flash[run]]
      <4>1. CASE otadata[Other(run)] = "valid"
        <5>1. flash[Other(run)] \in Images
          BY <2>1, <4>1, Facts DEF IInv, TypeOK, OtherInv
        <5>2. release[flash[Other(run)]] \in Nat
          BY <5>1, UpdaterAssumption
        <5> QED BY <2>1, <2>6, <4>1, <5>2, Facts DEF IInv, FloorInv
      <4> QED BY <2>1, <2>6, <4>1, Facts DEF IInv, FloorInv
    <3>3. j.floor = nvs.floor
      BY <1>3, <2>6 DEF IInv, FloorInv
    <3> QED BY <1>3, <2>1, <2>3, <3>1, <3>2, <3>3, Facts DEF FloorInv
  <2> QED BY <2>4, <2>5, <2>6 DEF IInv
<1>4. CASE /\ otadata[run] = "valid" /\ Go("main", "marked") /\ At("main", "health")
           /\ UNCHANGED <<lasting, run, j, healthy, work, phase, policy, booted>>
  <2>1. pc' \in [Tasks -> Labels] /\ pc'["main"] = "marked" /\ pc'["worker"] = pc["worker"]
    BY <1>4 DEF IInv, TypeOK
  <2>2. TypeOK'
    BY <1>4, <2>1 DEF IInv, TypeOK
  <2>3. RunningInv' /\ OtherInv' /\ TaskInv'
    BY <1>4, <2>1 DEF IInv, TypeOK, RunningInv, OtherInv, TaskInv, Other
  <2>4. ~SlowStart => FloorInv'
    BY <1>4, <2>1 DEF IInv, TypeOK, FloorInv, Other
  <2> QED BY <2>2, <2>3, <2>4 DEF IInv
<1>5. CASE /\ otadata[run] = "none" /\ SetBoot(run) /\ Go("main", "seeded") /\ At("main", "health") /\ ~healthy
           /\ UNCHANGED <<flash, nvs, run, j, healthy, work, phase, policy, booted>>
  <2>1. /\ otadata'[run] = "new" /\ otadata'[Other(run)] = otadata[Other(run)] /\ top' = run
        /\ otadata' \in [Slots -> States] /\ pc' \in [Tasks -> Labels]
        /\ pc'["main"] = "seeded" /\ pc'["worker"] = pc["worker"]
    BY <1>5, Facts DEF SetBoot, IInv, TypeOK, States
  <2>2. run = 0 /\ otadata[Other(run)] = "none"
    BY <1>5 DEF IInv, RunningInv
  <2>3. TypeOK'
    BY <1>5, <2>1, Facts DEF IInv, TypeOK
  <2>4. RunningInv' /\ OtherInv' /\ TaskInv'
    BY <1>5, <2>1, <2>2, Facts DEF IInv, TypeOK, RunningInv, OtherInv, TaskInv, Other, Slots
  <2>5. ASSUME ~SlowStart PROVE FloorInv'
    <3>1. nvs.floor = 0 /\ j.floor = nvs.floor
      BY <1>5, <2>5, Facts DEF IInv, FloorInv
    <3> QED BY <1>5, <2>1, <2>2, <2>5, <3>1, Facts DEF IInv, TypeOK, FloorInv, TaskInv
  <2> QED BY <2>3, <2>4, <2>5 DEF IInv
<1>6. CASE ~healthy
  <2>1. At("main", "health")
    BY <1>6 DEF Confirm
  <2> QED BY <1>1, <1>2, <1>3, <1>4, <1>5, <1>6, <2>1 DEF Confirm, AlreadyHealthy
<1> QED BY <1>1, <1>6 DEF Confirm, AlreadyHealthy

LEMMA RollBackInv ==
  ASSUME IInv, NEW t \in Tasks, RollBack(t)
  PROVE  IInv'
<1>1. CASE RollbackPossible
  <2> DEFINE ota == [otadata EXCEPT ![Active(otadata)] = "invalid"]
             a == AfterReset(ota)
             o == Other(run)
  <2>1. Restart(ota) /\ UNCHANGED <<flash, top, nvs>>
    BY <1>1 DEF RollBack
  <2>2. otadata[o] = "valid" /\ flash[o] # None /\ top = run
    BY <1>1 DEF RollbackPossible, IInv, OtherInv
  <2>4. pc[t] = "rollback"
    BY DEF RollBack, At
  <2>5. otadata[run] \in {"valid", "pending"}
    BY <2>2, Facts DEF IInv, TypeOK, RunningInv, States
  <2>6. Active(otadata) = run
    BY <2>2, <2>5 DEF Active, Selectable
  <2>7. ota \in [Slots -> States] /\ ota[run] = "invalid" /\ ota[o] = "valid"
    BY <2>2, <2>6, Facts DEF IInv, TypeOK, States
  <2>8. a[run] = "invalid" /\ a[o] = "valid" /\ BootChoice(ota) = o
    BY <2>2, <2>7, Facts DEF AfterReset, BootChoice, Active, Selectable
  <2>9. BootSafe(ota)
    BY <2>2, <2>8, Facts DEF BootSafe
  <2>10. ASSUME ~SlowStart PROVE FloorSafe(ota, nvs'.floor)
    <3>1. otadata[run] = "pending" /\ nvs.floor <= release[flash[o]]
      BY <2>2, <2>4, <2>10 DEF IInv, FloorInv
    <3> QED BY <2>1, <2>8, <3>1 DEF FloorSafe
  <2> QED BY <2>1, <2>7, <2>9, <2>10, RestartInv DEF IInv, TypeOK
<1>2. CASE ~RollbackPossible
  <2> USE DEF At, Go, Back, work, offers, lasting, Tasks, Labels
  <2>1. /\ UNCHANGED <<lasting, run, j, healthy, work, phase, policy, booted>> /\ Back(t) /\ pc[t] = "rollback"
    BY <1>2 DEF RollBack
  <2>2. TypeOK'
    BY <2>1 DEF IInv, TypeOK
  <2>3. RunningInv' /\ OtherInv' /\ TaskInv'
    BY <2>1 DEF IInv, TypeOK, RunningInv, OtherInv, TaskInv, Other
  <2>4. ~SlowStart => FloorInv'
    BY <2>1 DEF IInv, TypeOK, FloorInv, Other
  <2> QED BY <2>2, <2>3, <2>4 DEF IInv
<1> QED BY <1>1, <1>2

-----------------------------------------------------------------------------
(* The theorems *)

LEMMA InitInv == Init => IInv
<1> SUFFICES ASSUME Init PROVE IInv
  OBVIOUS
<1> USE UpdaterAssumption DEF Init
<1>1. TypeOK
  <2>1. flash \in [Slots -> Images \cup {None}] /\ otadata \in [Slots -> States]
    BY DEF States
  <2>2. nvs \in JournalType /\ j \in JournalType
    BY EmptyJournalType
  <2>3. pc \in [Tasks -> Labels]
    BY DEF Starting, Labels
  <2> QED BY <2>1, <2>2, <2>3 DEF TypeOK, Slots
<1>2. RunningInv /\ OtherInv /\ TaskInv
  BY DEF RunningInv, OtherInv, TaskInv, Starting, Tasks, Slots, Other
<1>3. FloorInv
  BY DEF FloorInv, Starting, Tasks, Slots, Other, EmptyJournal
<1> QED BY <1>1, <1>2, <1>3 DEF IInv

LEMMA StepInv == IInv /\ [Next]_vars => IInv'
<1> SUFFICES ASSUME IInv, [Next]_vars PROVE IInv'
  OBVIOUS
<1>1. CASE Main
  BY <1>1, OtaInitInv, OtaInitFailsInv, ConfirmInv, ConfirmSeedInv, ConfirmSaveInv,
     ConfirmSaveFailsInv, NoVerdictInv, UsbFailedInv, RejectJournalInv, RollBackInv
  DEF Main, Tasks
<1>2. CASE Worker
  BY <1>2, ExpireInv, TakeOfferInv, StartCheckInv, FetchInv, FetchFailsInv, DownloadBeginInv,
     DownloadFailsInv, DownloadEndInv, DownloadRejectedInv, RestartFailsInv, RestartJournalInv,
     RestartSelectInv, RestartNowInv, RejectJournalInv, RollBackInv
  DEF Worker, Tasks
<1>3. CASE Offer
  BY <1>3, OfferInv
<1>4. CASE PowerLoss
  BY <1>4, PowerLossInv
<1>5. CASE UNCHANGED vars
  BY <1>5 DEF vars, lasting, offers, IInv, TypeOK, RunningInv, OtherInv, TaskInv, FloorInv, Other
<1> QED BY <1>1, <1>2, <1>3, <1>4, <1>5 DEF Next

\* The invariant holds of every state: two slots, a journal and two tasks,
\* whatever the images are and however often the power is cut.
THEOREM Inductive == Spec => []IInv
<1>1. Init => IInv
  BY InitInv
<1>2. IInv /\ [Next]_vars => IInv'
  BY StepInv
<1> QED BY <1>1, <1>2, PTL DEF Spec

\* A power cut at any moment leaves a complete image to boot.
THEOREM Bootable == Spec => []AlwaysBootable
<1>1. IInv => AlwaysBootable
  BY BootsSafely DEF BootSafe, AlwaysBootable
<1> QED BY <1>1, Inductive, PTL

LEMMA FloorFacts ==
  ASSUME IInv, ~SlowStart
  PROVE  FloorHolds
<1>1. BootSafe(otadata) /\ FloorSafe(otadata, nvs.floor)
  BY BootsSafely, BootsOverFloor
<1> DEFINE b == BootChoice(otadata)
           a == AfterReset(otadata)
<1>2. b \in Slots /\ Other(b) \in Slots /\ a \in [Slots -> States]
  BY DEF BootChoice, AfterReset, Active, Other, Slots, IInv, TypeOK, States
<1>3. flash[b] \in Images /\ release[flash[b]] \in Nat /\ nvs.floor \in Nat
  BY <1>1, <1>2, UpdaterAssumption, Facts DEF BootSafe, IInv, TypeOK
<1>4. a[Other(b)] = "valid" /\ a[b] = "new" => release[flash[Other(b)]] \in Nat
  BY <1>1, <1>2, UpdaterAssumption DEF BootSafe, IInv, TypeOK
<1>5. a[b] \in {"new", "valid"} => otadata[b] = a[b]
  BY <1>2 DEF AfterReset
<1>6. CASE nvs.floor = 0
  BY <1>3, <1>6 DEF FloorHolds
<1>7. CASE nvs.floor > 0
  BY <1>1, <1>3, <1>4, <1>5, <1>7 DEF FloorSafe, FloorHolds
<1> QED BY <1>3, <1>6, <1>7

\* When app_main() reports health before the worker gives up on it, no power
\* cut brings back an image older than the newest confirmed one.
THEOREM FloorKept == ~SlowStart => (Spec => []FloorHolds)
<1> SUFFICES ASSUME ~SlowStart PROVE Spec => []FloorHolds
  OBVIOUS
<1>1. IInv => FloorHolds
  BY FloorFacts
<1> QED BY <1>1, Inductive, PTL

-----------------------------------------------------------------------------
(* One trial per image *)

\* A publisher of no more images than the ring remembers.
RoomForFailures == IsFiniteSet(Images) /\ Cardinality(Images) <= FailedHashes

\* An image that is not in the ring finds a place in it.
LEMMA RingHasRoom ==
  ASSUME RoomForFailures, NEW f \in Seq(Images), NEW i \in Images \ Range(f),
         \A m, n \in DOMAIN f : f[m] = f[n] => m = n
  PROVE  Len(f) < FailedHashes
<1> SUFFICES ASSUME Len(f) >= FailedHashes PROVE FALSE
  BY UpdaterAssumption
<1> DEFINE g == Append(f, i)
           D == 1 .. Len(f) + 1
<1>1. /\ DOMAIN f = 1 .. Len(f) /\ Len(g) = Len(f) + 1 /\ g \in Seq(Images)
      /\ g[Len(f) + 1] = i /\ \A n \in DOMAIN f : g[n] = f[n]
  OBVIOUS
<1>m. g \in [D -> Images]
  <2> HIDE DEF g
  <2>1. g \in [1 .. Len(g) -> Images]
    BY <1>1
  <2> QED BY <1>1, <2>1
<1>2. IsFiniteSet(D) /\ Cardinality(D) = Len(f) + 1
  BY FS_Interval
<1>3. Cardinality(Images) \in Nat
  BY FS_CardinalityType DEF RoomForFailures
<1>4. Cardinality(Images) < Cardinality(D)
  BY <1>2, <1>3, UpdaterAssumption DEF RoomForFailures
<1> HIDE DEF g
<1>5. PICK m, n \in D : m # n /\ g[m] = g[n]
  <2> HIDE DEF D
  <2> QED BY <1>m, <1>2, <1>4, FS_PigeonHole DEF RoomForFailures
<1>6. \A k \in DOMAIN f : f[k] # i
  BY DEF Range
<1> QED BY <1>1, <1>5, <1>6

LEMMA FewImagesFit ==
  ASSUME RoomForFailures, TypeOK, TrialInv
  PROVE  RoomLeft
<1>1. /\ nvs.failed \in Seq(Images) /\ RingInv(nvs)
      /\ j.failed \in Seq(Images) /\ RingInv(j)
  BY DEF TypeOK, JournalType, TrialInv
<1> QED BY <1>1, RingHasRoom DEF RoomLeft, HasRoom, RingInv, Rejected

\* What the journal has settled stays settled, whatever is written next.
Advances(jr, next) ==
  RingInv(next) /\ \A i \in Images : Settled(jr, i) => Settled(next, i)

LEMMA JournalAdvances ==
  ASSUME NEW jr \in JournalType, HasRoom(jr), RingInv(jr), NEW i \in Images,
         NEW s \in Slots, NEW r \in Nat
  PROVE  /\ Advances(jr, jr)
         /\ Advances(jr, ClearPending(jr)) /\ ClearPending(jr).pend = NoPending
         /\ Advances(jr, Prepare(jr, i, s))
         /\ Prepare(jr, i, s).pend = [img |-> i, slot |-> s]
         /\ Advances(jr, Reject(jr, i)) /\ Settled(Reject(jr, i), i)
         /\ Advances(jr, ConfirmRelease(jr, r))
         /\ \A k \in Images : release[k] <= r => Settled(ConfirmRelease(jr, r), k)
<1> USE DEF JournalType
<1>0. jr.floor \in Nat /\ \A k \in Images : release[k] \in Nat
  BY UpdaterAssumption
<1>1. Advances(jr, jr)
  BY DEF Advances
<1>2. Advances(jr, ClearPending(jr)) /\ ClearPending(jr).pend = NoPending
  <2>1. ClearPending(jr).failed = jr.failed /\ ClearPending(jr).floor = jr.floor
        /\ ClearPending(jr).pend = NoPending
    BY DEF ClearPending
  <2> QED BY <2>1 DEF Advances, RingInv, Settled, Rejected
<1>3. Advances(jr, Prepare(jr, i, s))
      /\ Prepare(jr, i, s).pend = [img |-> i, slot |-> s]
  <2>1. Prepare(jr, i, s).failed = jr.failed /\ Prepare(jr, i, s).floor = jr.floor
        /\ Prepare(jr, i, s).pend = [img |-> i, slot |-> s]
    BY DEF Prepare
  <2> QED BY <2>1 DEF Advances, RingInv, Settled, Rejected
<1>4. Advances(jr, Reject(jr, i)) /\ Settled(Reject(jr, i), i)
  <2>1. /\ Reject(jr, i).floor = jr.floor
        /\ Reject(jr, i).failed = IF Rejected(jr, i) THEN jr.failed
                                  ELSE Remember(jr.failed, i)
    BY DEF Reject, ClearPending
  <2>2. CASE Rejected(jr, i)
    BY <2>1, <2>2 DEF Advances, RingInv, Settled, Rejected
  <2>3. CASE ~Rejected(jr, i)
    <3> DEFINE f == jr.failed
               g == Append(f, i)
    <3>1. f \in Seq(Images) /\ i \notin Range(f)
      BY <2>3 DEF Rejected
    <3>2. Len(f) < FailedHashes
      BY <2>3 DEF HasRoom
    <3>3. Reject(jr, i).failed = g
      BY <2>1, <2>3, <3>2, <3>1 DEF Remember
    <3>4. /\ Len(g) = Len(f) + 1 /\ DOMAIN g = DOMAIN f \cup {Len(f) + 1}
          /\ g[Len(f) + 1] = i /\ \A n \in DOMAIN f : g[n] = f[n]
      BY <3>1
    <3> HIDE DEF g
    <3>5. Range(g) = Range(f) \cup {i} /\ \A n \in DOMAIN f : f[n] # i
      BY <3>1, <3>4 DEF Range
    <3>6. \A m, n \in DOMAIN g : g[m] = g[n] => m = n
      BY <3>4, <3>5 DEF RingInv
    <3>7. Len(g) <= FailedHashes
      BY <3>1, <3>2, <3>4, UpdaterAssumption
    <3> QED BY <2>1, <3>3, <3>5, <3>6, <3>7 DEF Advances, RingInv, Settled, Rejected
  <2> QED BY <2>2, <2>3
<1>5. /\ Advances(jr, ConfirmRelease(jr, r))
      /\ \A k \in Images : release[k] <= r => Settled(ConfirmRelease(jr, r), k)
  <2>1. /\ ConfirmRelease(jr, r).failed = jr.failed
        /\ ConfirmRelease(jr, r).floor = IF r > jr.floor THEN r ELSE jr.floor
    BY DEF ConfirmRelease, ClearPending
  <2> QED BY <1>0, <2>1 DEF Advances, RingInv, Settled, Rejected
<1> QED BY <1>1, <1>2, <1>3, <1>4, <1>5

\* What Knows says after the step, of a journal n.
KnowsNext(n) ==
  /\ \A i \in booted' \ {flash'[run']} : Settled(n, i)
  /\ otadata'[Other(run')] = "valid" =>
       Settled(n, flash'[run']) \/ n.pend = [img |-> flash'[run'], slot |-> run']
  /\ healthy' => Settled(n, flash'[run'])

\* A step of the same start, which neither raises the other selector to "valid"
\* nor lets a new image run.
SameStart ==
  /\ run' = run /\ flash'[run] = flash[run] /\ booted' = booted
  /\ otadata'[Other(run)] = "valid" => otadata[Other(run)] = "valid"
  /\ pc["main"] # "init" /\ pc'["main"] # "init"

\* A journal that advances still knows what it knew, provided it does not forget
\* the running candidate before it is settled.
LEMMA StillKnows ==
  ASSUME IInv, SameStart, NEW jr, Knows(jr), NEW next, Advances(jr, next),
         otadata[Other(run)] = "valid" => next.pend = jr.pend \/ Settled(next, flash[run]),
         healthy' => healthy \/ Settled(next, flash[run])
  PROVE  KnowsNext(next)
<1>1. booted \subseteq Images /\ flash[run] \in Images
  BY Facts DEF IInv, TypeOK
<1>2. \A i \in booted' \ {flash'[run']} : Settled(next, i)
  BY <1>1 DEF Knows, Advances, SameStart
<1>3. Settled(jr, flash[run]) => Settled(next, flash[run])
  BY <1>1 DEF Advances
<1>4. otadata'[Other(run')] = "valid" =>
        \/ Settled(next, flash'[run'])
        \/ next.pend = [img |-> flash'[run'], slot |-> run']
  BY <1>3 DEF Knows, Covered, SameStart
<1>5. healthy' => Settled(next, flash'[run'])
  BY <1>3 DEF Knows, SameStart
<1> QED BY <1>2, <1>4, <1>5 DEF KnowsNext

\* With both journals still knowing, the rest of the invariant is the worker's.
LEMMA TrialKept ==
  ASSUME IInv, TrialInv, SameStart, RingInv(nvs)', RingInv(j)',
         KnowsNext(nvs'), KnowsNext(j'),
         Installing' => manifest' \notin booted,
         pc'["worker"] \in {"prepared", "restart"} =>
           nvs'.pend = [img |-> manifest', slot |-> Other(run)]
  PROVE  TrialInv'
<1>1. Knows(nvs)' /\ Knows(j)'
  BY DEF KnowsNext, Knows, Settled, Covered, Rejected
<1> QED BY <1>1 DEF TrialInv, SameStart

\* Steps that leave the journal alone.
LEMMA QuietTrial ==
  ASSUME IInv, TrialInv, SameStart, UNCHANGED <<j, nvs, healthy>>,
         Installing' => (Installing /\ manifest' = manifest) \/ manifest' \notin booted,
         pc'["worker"] \in {"prepared", "restart"} =>
           pc["worker"] \in {"prepared", "restart"} /\ manifest' = manifest
  PROVE  TrialInv'
<1>1. Knows(nvs) /\ Knows(j) /\ RingInv(nvs) /\ RingInv(j)
  BY DEF TrialInv, SameStart
<1>2. Advances(nvs, nvs) /\ Advances(j, j)
  BY <1>1 DEF Advances
<1>3. KnowsNext(nvs) /\ KnowsNext(j)
  BY <1>1, <1>2, StillKnows
<1>4. RingInv(nvs)' /\ RingInv(j)'
  BY <1>1 DEF RingInv
<1>5. KnowsNext(nvs') /\ KnowsNext(j')
  BY <1>3 DEF KnowsNext, Settled, Rejected
<1> QED BY <1>4, <1>5, TrialKept DEF TrialInv

LEMMA QuietStepsTrial ==
  ASSUME IInv, TrialInv,
         \/ NoVerdict \/ UsbFailed \/ Expire \/ Offer \/ TakeOffer \/ StartCheck
         \/ FetchFails \/ DownloadFails \/ ConfirmSeed
  PROVE  TrialInv'
<1> USE DEF At, Go, Tasks, Labels, lasting, offers, work, WorkerDone
<1>1. pc \in [Tasks -> Labels] /\ (pc["main"] = "init" => pc["worker"] = "off")
  BY DEF IInv, TypeOK, TaskInv
<1>2. UNCHANGED <<run, flash, booted, j, nvs, healthy>>
  BY Zenon DEF NoVerdict, UsbFailed, Expire, Offer, TakeOffer, StartCheck,
               FetchFails, DownloadFails, ConfirmSeed
<1>3. CASE ConfirmSeed
  <2>1. otadata'[Other(run)] = otadata[Other(run)] /\ otadata[run] = "new"
    BY <1>3, Facts DEF ConfirmSeed, MarkValid, Active, Selectable, IInv, TypeOK, RunningInv, States
  <2> QED BY <1>1, <1>2, <1>3, <2>1, QuietTrial DEF ConfirmSeed, SameStart, Installing
<1>4. CASE ~ConfirmSeed
  <2>1. otadata' = otadata
    BY <1>4, Zenon DEF NoVerdict, UsbFailed, Expire, Offer, TakeOffer, StartCheck,
                       FetchFails, DownloadFails
  <2>2. SameStart
    BY <1>1, <1>2, <1>4, <2>1
    DEF NoVerdict, UsbFailed, Expire, Offer, TakeOffer, StartCheck, FetchFails,
        DownloadFails, SameStart
  <2>3. /\ Installing' => Installing /\ manifest' = manifest
        /\ pc'["worker"] \in {"prepared", "restart"} =>
             pc["worker"] \in {"prepared", "restart"} /\ manifest' = manifest
    BY <1>1, <1>4
    DEF NoVerdict, UsbFailed, Expire, Offer, TakeOffer, StartCheck, FetchFails,
        DownloadFails, Installing
  <2> QED BY <1>2, <2>2, <2>3, QuietTrial
<1> QED BY <1>3, <1>4

\* A check passes only images the journal does not know.
LEMMA FetchTrial ==
  ASSUME IInv, TrialInv, Fetch
  PROVE  TrialInv'
<1> USE DEF At, Go, Tasks, Labels, lasting, offers, work, WorkerDone
<1>1. pc \in [Tasks -> Labels] /\ pc["worker"] = "check" /\ pc["main"] # "init" /\ healthy
  BY DEF Fetch, IInv, TypeOK, TaskInv
<1>2. UNCHANGED <<run, flash, otadata, booted, j, nvs, healthy>>
  BY Zenon DEF Fetch
<1>3. PICK i \in Images :
        /\ Fresh(i)
        /\ IF policy = "notify"
           THEN WorkerDone("available")
           ELSE manifest' = i /\ phase' = "downloading" /\ Go("worker", "download")
  BY Zenon DEF Fetch
<1>4. ~Settled(j, i)
  BY <1>3, Facts, UpdaterAssumption DEF Fresh, Settled
<1>5. i \notin booted
  BY <1>1, <1>4 DEF TrialInv, Knows
<1>6. /\ Installing' => manifest' \notin booted
      /\ pc'["worker"] \notin {"prepared", "restart"} /\ pc'["main"] = pc["main"]
  BY <1>1, <1>3, <1>5 DEF Installing
<1> QED BY <1>1, <1>2, <1>6, QuietTrial DEF SameStart

\* Writing the other slot, or selecting it, tells the journal nothing.
LEMMA InstallTrial ==
  ASSUME IInv, TrialInv, DownloadBegin \/ DownloadEnd \/ RestartSelect
  PROVE  TrialInv'
<1> USE DEF At, Go, Tasks, Labels, lasting, offers, work
<1>1. pc \in [Tasks -> Labels] /\ (pc["main"] = "init" => pc["worker"] = "off")
  BY DEF IInv, TypeOK, TaskInv
<1>2. UNCHANGED <<run, booted, j, nvs, healthy, manifest>>
  BY Zenon DEF DownloadBegin, DownloadEnd, RestartSelect
<1>3. flash'[run] = flash[run]
  BY Facts DEF DownloadBegin, DownloadEnd, RestartSelect, NextPartition, IInv, TypeOK
<1>4. otadata'[Other(run)] = "valid" => otadata[Other(run)] = "valid"
  BY Facts DEF DownloadBegin, DownloadEnd, RestartSelect, SetBoot, NextPartition, IInv, TypeOK
<1>5. /\ SameStart
      /\ Installing' => Installing
      /\ pc'["worker"] \in {"prepared", "restart"} =>
           pc["worker"] \in {"prepared", "restart"}
  BY <1>1, <1>2, <1>3, <1>4
  DEF DownloadBegin, DownloadEnd, RestartSelect, Installing, SameStart
<1> QED BY <1>2, <1>5, QuietTrial

\* Writing the journal: both the copy in RAM and the stored one are, or advance
\* from, one that knows.
LEMMA JournalTrial ==
  ASSUME IInv, TrialInv, SameStart, NEW next, Advances(j, next),
         otadata[Other(run)] = "valid" => next.pend = j.pend \/ Settled(next, flash[run]),
         Saved(next) \/ SaveFails(next),
         healthy' => healthy \/ (Saved(next) /\ Settled(next, flash[run])),
         Installing' => Installing /\ manifest' = manifest,
         pc'["worker"] \in {"prepared", "restart"} =>
           Saved(next) /\ next.pend = [img |-> manifest', slot |-> Other(run)]
  PROVE  TrialInv'
<1>1. Knows(nvs) /\ Knows(j) /\ RingInv(nvs) /\ RingInv(j)
  BY DEF TrialInv, SameStart
<1>2. Advances(nvs, nvs) /\ Advances(j, j) /\ RingInv(next)
  BY <1>1 DEF Advances
<1>3. nvs' \in {nvs, next} /\ j' \in {j, next}
  BY DEF Saved, SaveFails
<1>4. /\ RingInv(nvs)' /\ RingInv(j)'
  BY <1>1, <1>2, <1>3 DEF RingInv
<1>5. healthy' => healthy \/ Settled(next, flash[run])
  OBVIOUS
<1>6. KnowsNext(next)
  BY <1>1, <1>5, StillKnows
<1>7. CASE Saved(next)
  <2>1. KnowsNext(nvs') /\ KnowsNext(j')
    BY <1>6, <1>7 DEF Saved, KnowsNext, Settled, Rejected
  <2> QED BY <1>4, <1>7, <2>1, TrialKept DEF TrialInv, Saved
<1>8. CASE ~Saved(next)
  <2>1. KnowsNext(nvs) /\ KnowsNext(j)
    BY <1>1, <1>2, <1>8, StillKnows
  <2>2. KnowsNext(nvs') /\ KnowsNext(j')
    BY <1>3, <1>6, <2>1 DEF KnowsNext, Settled, Rejected
  <2> QED BY <1>3, <1>4, <1>8, <2>2, TrialKept DEF TrialInv
<1> QED BY <1>7, <1>8

LEMMA RejectJournalTrial ==
  ASSUME RoomLeft, IInv, TrialInv, NEW t \in Tasks, RejectJournal(t)
  PROVE  TrialInv'
<1> USE DEF At, Go, Tasks, Labels, lasting, offers, work
<1>1. /\ pc \in [Tasks -> Labels] /\ (pc["main"] = "init" => pc["worker"] = "off")
      /\ (healthy => pc["main"] = "up") /\ (Installing => healthy)
  BY DEF IInv, TypeOK, TaskInv, Installing
<1>2. UNCHANGED <<run, flash, otadata, booted, healthy, manifest>> /\ pc[t] = "rejecting"
  BY Zenon DEF RejectJournal
<1>3. pc' = [pc EXCEPT ![t] = "rollback"]
  BY Zenon DEF RejectJournal
<1>4. SameStart /\ (Installing' => Installing) /\ pc'["worker"] \notin {"prepared", "restart"}
  BY <1>1, <1>2, <1>3 DEF SameStart, Installing
<1>5. Knows(j) /\ RingInv(j) /\ j \in JournalType
  BY <1>4 DEF TrialInv, SameStart, IInv, TypeOK
<1>6. j.pend.img \in Images \cup {None} /\ flash[run] \in Images /\ 0 \in Nat /\ run \in Slots
  BY <1>5, Facts DEF JournalType
<1>7. CASE j.pend.img = None
  <2>1. Suppressed = j /\ Advances(j, j)
    BY <1>5, <1>7 DEF Suppressed, Advances
  <2>2. Saved(j) \/ SaveFails(j)
    BY <2>1, Zenon DEF RejectJournal
  <2> QED BY <1>2, <1>4, <2>1, <2>2, JournalTrial
<1>8. CASE j.pend.img # None
  <2> DEFINE next == Reject(j, j.pend.img)
  <2>1. Saved(next) \/ SaveFails(next)
    BY <1>8 DEF RejectJournal, Suppressed
  <2>2. Advances(j, next) /\ Settled(next, j.pend.img)
    BY <1>5, <1>6, <1>8, JournalAdvances DEF RoomLeft
  <2> HIDE DEF next
  <2>3. otadata[Other(run)] = "valid" => Settled(next, flash[run])
    BY <1>5, <1>6, <2>2 DEF Knows, Covered, Advances
  <2> QED BY <1>2, <1>4, <2>1, <2>2, <2>3, JournalTrial
<1> QED BY <1>7, <1>8

\* Only a healthy image gets this far, and the journal has settled it.
LEMMA WorkerJournalTrial ==
  ASSUME RoomLeft, IInv, TrialInv,
         DownloadRejected \/ RestartFails \/ RestartJournal
  PROVE  TrialInv'
<1> USE DEF At, Go, Tasks, Labels, lasting, offers, work, WorkerDone
<1>1. /\ pc \in [Tasks -> Labels] /\ Installing /\ healthy /\ pc["main"] = "up"
      /\ manifest \in Images
  BY DEF IInv, TypeOK, TaskInv, Installing, DownloadRejected, RestartFails, RestartJournal
<1>2. UNCHANGED <<run, flash, otadata, booted, healthy>>
  BY Zenon DEF DownloadRejected, RestartFails, RestartJournal
<1>3. SameStart
  BY <1>1, <1>2 DEF SameStart, DownloadRejected, RestartFails, RestartJournal
<1>4. /\ Knows(j) /\ RingInv(j) /\ j \in JournalType
      /\ flash[run] \in Images /\ Settled(j, flash[run])
      /\ Other(run) \in Slots /\ 0 \in Nat /\ 0 \in Slots
  BY <1>1, <1>3, Facts DEF TrialInv, SameStart, IInv, TypeOK, Knows, Slots
<1>5. /\ Advances(j, j)
      /\ Advances(j, Reject(j, manifest))
      /\ Advances(j, Prepare(j, manifest, Other(run)))
      /\ Prepare(j, manifest, Other(run)).pend = [img |-> manifest, slot |-> Other(run)]
  BY <1>1, <1>4, JournalAdvances DEF RoomLeft
<1>6. ASSUME NEW next, Advances(j, next), Saved(next) \/ SaveFails(next),
             Installing' => Installing /\ manifest' = manifest,
             pc'["worker"] \in {"prepared", "restart"} =>
               Saved(next) /\ next.pend = [img |-> manifest', slot |-> Other(run)]
      PROVE  TrialInv'
  <2>1. Settled(next, flash[run])
    BY <1>4, <1>6 DEF Advances
  <2> QED BY <1>2, <1>3, <1>6, <2>1, JournalTrial
<1>7. CASE DownloadRejected
  <2>1. /\ Saved(Reject(j, manifest)) \/ SaveFails(Reject(j, manifest))
        /\ pc'["worker"] = "idle"
    BY <1>1, <1>7 DEF DownloadRejected
  <2> QED BY <1>5, <1>6, <2>1 DEF Installing
<1>8. CASE RestartFails
  <2>1. pc'["worker"] = "idle"
    BY <1>1, <1>8 DEF RestartFails
  <2>2. SaveFails(j) \/ SaveFails(Prepare(j, manifest, Other(run)))
    BY <1>8 DEF RestartFails, SaveFails, NextPartition
  <2> QED BY <1>5, <1>6, <2>1, <2>2 DEF Installing
<1>9. CASE RestartJournal
  <2>1. /\ Saved(Prepare(j, manifest, Other(run)))
        /\ manifest' = manifest /\ pc'["worker"] = "prepared"
    BY <1>1, <1>9 DEF RestartJournal, NextPartition
  <2> QED BY <1>1, <1>5, <1>6, <2>1
<1> QED BY <1>7, <1>8, <1>9

\* Confirming an image settles it.
LEMMA ConfirmSettles ==
  ASSUME HasRoom(j), RingInv(j), j \in JournalType, flash[run] \in Images
  PROVE  LET n == ConfirmRelease(j, release[flash[run]])
         IN  Advances(j, n) /\ Settled(n, flash[run])
<1> DEFINE r == release[flash[run]]
<1>0. r \in Nat /\ 0 \in Slots
  BY UpdaterAssumption DEF Slots
<1> HIDE DEF r
<1>1. /\ Advances(j, ConfirmRelease(j, r))
      /\ \A k \in Images : release[k] <= r => Settled(ConfirmRelease(j, r), k)
  BY <1>0, JournalAdvances
<1>2. release[flash[run]] <= r
  BY <1>0 DEF r
<1> QED BY <1>1, <1>2 DEF r

LEMMA ConfirmSaveTrial ==
  ASSUME RoomLeft, IInv, TrialInv, ConfirmSave
  PROVE  TrialInv'
<1> USE DEF At, Go, Tasks, Labels, lasting, offers, work
<1> DEFINE next == ConfirmRelease(j, release[flash[run]])
<1>1. /\ pc \in [Tasks -> Labels] /\ pc["main"] = "marked" /\ ~healthy /\ ~Installing
  BY DEF IInv, TypeOK, TaskInv, Installing, ConfirmSave
<1>2. UNCHANGED <<run, flash, otadata, booted, manifest>> /\ Saved(next)
  BY Zenon DEF ConfirmSave
<1>3. SameStart /\ pc'["worker"] = pc["worker"]
  BY <1>1, <1>2 DEF SameStart, ConfirmSave
<1>4. /\ RingInv(j) /\ j \in JournalType /\ flash[run] \in Images
      /\ release[flash[run]] \in Nat /\ 0 \in Slots
  BY Facts DEF TrialInv, IInv, TypeOK, Slots
<1>5. Advances(j, next) /\ Settled(next, flash[run])
  BY <1>4, ConfirmSettles DEF RoomLeft
<1> HIDE DEF next
<1> QED BY <1>1, <1>2, <1>3, <1>5, JournalTrial DEF Installing

LEMMA MayLearnMeans ==
  ASSUME MayLearn(nvs), NEW i \in booted \ {flash[run]}, ~Settled(nvs, i)
  PROVE  /\ nvs.pend.img = i /\ nvs.pend.slot = Other(run)
         /\ RejectedByBoot(nvs) /\ otadata[Other(run)] \in {"aborted", "invalid"}
<1>1. nvs.pend = [img |-> i, slot |-> Other(run)] /\ RejectedByBoot(nvs)
  BY DEF MayLearn
<1>2. nvs.pend.img = i /\ nvs.pend.slot = Other(run)
  BY <1>1
<1> QED BY <1>1, <1>2 DEF RejectedByBoot

\* The journal's entry about the running candidate.
LEMMA CoveredMeans ==
  ASSUME Covered(nvs), ~Settled(nvs, flash[run])
  PROVE  nvs.pend.img = flash[run] /\ nvs.pend.slot = run
  BY DEF Covered

\* reconcile_boot() teaches the journal what the selectors know.
LEMMA ReconciledKnows ==
  ASSUME RoomLeft, IInv, TrialInv, pc["main"] = "init"
  PROVE  LET next == Reconciled(nvs)
         IN  /\ RingInv(next)
             /\ \A i \in booted \ {flash[run]} : Settled(next, i)
             /\ otadata[Other(run)] = "valid" => Covered(next)
<1> DEFINE next == Reconciled(nvs)
           p == nvs.pend
<1>0. /\ MayLearn(nvs) /\ RingInv(nvs) /\ nvs \in JournalType /\ booted \subseteq Images
      /\ flash[run] \in Images /\ flash[run] \in booted
      /\ Other(run) # run /\ 0 \in Nat /\ run \in Slots
      /\ p.img \in Images \cup {None} /\ None \notin Images
  BY Facts, UpdaterAssumption DEF TrialInv, IInv, TypeOK, JournalType
<1>1. CASE p.img = None \/ (p.slot = run /\ release[p.img] = release[flash[run]])
  <2>1. next = nvs
    BY <1>1 DEF Reconciled
  <2>2. ASSUME NEW i \in booted \ {flash[run]} PROVE Settled(nvs, i)
    BY <1>0, <1>1, MayLearnMeans
  <2>3. otadata[Other(run)] = "valid" => Covered(nvs)
    BY <1>0 DEF MayLearn
  <2> QED BY <1>0, <2>1, <2>2, <2>3, Zenon
<1>2. CASE /\ p.img # None /\ ~(p.slot = run /\ release[p.img] = release[flash[run]])
           /\ RejectedByBoot(nvs)
  <2>1. next = Reject(nvs, p.img) /\ p.img \in Images
    BY <1>0, <1>2 DEF Reconciled
  <2> HIDE DEF next
  <2>2. Advances(nvs, next) /\ Settled(next, p.img)
    <3>1. /\ Advances(nvs, Reject(nvs, p.img))
          /\ Settled(Reject(nvs, p.img), p.img)
      BY <1>0, <2>1, JournalAdvances DEF RoomLeft
    <3> QED BY <2>1, <3>1
  <2>3. ASSUME NEW i \in booted \ {flash[run]} PROVE Settled(next, i)
    <3>1. Settled(nvs, i) \/ i = p.img
      BY <1>0, MayLearnMeans
    <3> QED BY <1>0, <2>2, <3>1 DEF Advances
  <2>4. otadata[Other(run)] = "valid" => Settled(nvs, flash[run])
    BY <1>0, <1>2, CoveredMeans DEF MayLearn
  <2>5. otadata[Other(run)] = "valid" => Covered(next)
    BY <1>0, <2>2, <2>4 DEF Advances, Covered
  <2>6. RingInv(next)
    BY <2>2 DEF Advances
  <2> QED BY <2>3, <2>5, <2>6, Zenon DEF next
<1>3. CASE /\ p.img # None /\ ~(p.slot = run /\ release[p.img] = release[flash[run]])
           /\ ~RejectedByBoot(nvs)
  <2>1. next = ClearPending(nvs) /\ p.img \in Images
    BY <1>0, <1>3 DEF Reconciled
  <2> HIDE DEF next
  <2>2. Advances(nvs, next)
    BY <1>0, <2>1, JournalAdvances DEF RoomLeft
  <2>3. ASSUME NEW i \in booted \ {flash[run]} PROVE Settled(next, i)
    <3>1. Settled(nvs, i)
      BY <1>0, <1>3, MayLearnMeans
    <3> QED BY <1>0, <2>2, <3>1 DEF Advances
  <2>4. otadata[Other(run)] = "valid" => Settled(nvs, flash[run])
    BY <1>0, <1>3, CoveredMeans DEF MayLearn
  <2>5. otadata[Other(run)] = "valid" => Covered(next)
    BY <1>0, <2>2, <2>4 DEF Advances, Covered
  <2>6. RingInv(next)
    BY <2>2 DEF Advances
  <2> QED BY <2>3, <2>5, <2>6, Zenon DEF next
<1> QED BY <1>1, <1>2, <1>3

LEMMA OtaInitTrial ==
  ASSUME RoomLeft, IInv, TrialInv, OtaInit
  PROVE  TrialInv'
<1> USE DEF At, Go, Tasks, Labels, lasting, offers, work
<1> DEFINE next == Reconciled(nvs)
<1>1. /\ pc["main"] = "init" /\ pc'["main"] = "health" /\ pc'["worker"] = "idle"
      /\ ~healthy /\ healthy' = healthy
  BY DEF OtaInit, IInv, TypeOK, TaskInv
<1>2. UNCHANGED <<run, flash, otadata, booted, manifest>> /\ nvs' = next /\ j' = next
  BY Zenon DEF OtaInit, Saved
<1>3. flash[run] \in booted
  BY DEF TrialInv
<1>4. /\ RingInv(next)
      /\ \A i \in booted \ {flash[run]} : Settled(next, i)
      /\ otadata[Other(run)] = "valid" => Covered(next)
  BY <1>1, ReconciledKnows
<1> HIDE DEF next
<1>5. RingInv(nvs)' /\ RingInv(j)'
  BY <1>2, <1>4 DEF RingInv
<1>6. Knows(nvs)' /\ Knows(j)'
  BY <1>1, <1>2, <1>4 DEF Knows, Covered, Settled, Rejected
<1> QED BY <1>1, <1>2, <1>3, <1>5, <1>6 DEF TrialInv, Installing

-----------------------------------------------------------------------------
(* Restarts *)

\* What a restart with these selectors, and this journal stored, needs.
TrialSafe(ota, jr) ==
  LET a == AfterReset(ota)
      b == BootChoice(ota)
      o == Other(b)
  IN  /\ RingInv(jr)
      /\ \A i \in booted \ {flash[b]} :
           \/ Settled(jr, i)
           \/ jr.pend = [img |-> i, slot |-> o] /\ a[o] \in {"aborted", "invalid"}
      /\ a[o] = "valid" =>
           Settled(jr, flash[b]) \/ jr.pend = [img |-> flash[b], slot |-> b]

LEMMA RestartTrial ==
  ASSUME TypeOK, NEW ota \in [Slots -> States], Restart(ota), flash' = flash,
         TrialSafe(ota, nvs')
  PROVE  TrialInv'
<1> DEFINE b == BootChoice(ota)
           a == AfterReset(ota)
           o == Other(b)
<1>1. b \in Slots /\ o \in Slots /\ o # b /\ a \in [Slots -> States]
  BY DEF AfterReset, BootChoice, Active, Slots, Other, TypeOK, States
<1>2. /\ run' = b /\ otadata' = [a EXCEPT ![b] = IF a[b] = "new" THEN "pending" ELSE a[b]]
      /\ booted' = booted \cup {flash[b]} /\ j' = EmptyJournal /\ healthy' = FALSE
      /\ pc' = Starting
  BY DEF Restart
<1>3. otadata'[o] = a[o] /\ pc'["main"] = "init" /\ pc'["worker"] = "off"
  BY <1>1, <1>2 DEF Starting, Tasks
<1> HIDE DEF a, b
<1>4. RingInv(nvs)' /\ RingInv(j)'
  <2>1. RingInv(nvs')
    BY DEF TrialSafe
  <2>2. RingInv(EmptyJournal)
    BY UpdaterAssumption DEF EmptyJournal, RingInv
  <2> QED BY <1>2, <2>1, <2>2 DEF RingInv
<1>5. MayLearn(nvs)'
  <2>1. \A i \in booted' \ {flash'[run']} :
          \/ Settled(nvs', i)
          \/ nvs'.pend = [img |-> i, slot |-> Other(run')]
             /\ otadata'[nvs'.pend.slot] \in {"aborted", "invalid"}
    BY <1>2, <1>3 DEF TrialSafe, a, b
  <2>2. otadata'[Other(run')] = "valid" =>
          \/ Settled(nvs', flash'[run'])
          \/ nvs'.pend = [img |-> flash'[run'], slot |-> run']
    BY <1>2, <1>3 DEF TrialSafe, a, b
  <2> QED BY <2>1, <2>2 DEF MayLearn, Covered, Settled, Rejected, RejectedByBoot
<1>6. flash'[run'] \in booted'
  BY <1>2
<1> QED BY <1>3, <1>4, <1>5, <1>6 DEF TrialInv, Installing

\* Which image the next restart boots, from a state of the invariant.
LEMMA BootCases ==
  ASSUME IInv
  PROVE  LET a == AfterReset(otadata)
             b == BootChoice(otadata)
             o == Other(run)
         IN  \/ /\ otadata[o] = "new" /\ pc["worker"] = "restart"
                /\ b = o /\ a[run] = "valid"
             \/ /\ otadata[run] = "pending" /\ otadata[o] = "valid"
                /\ b = o /\ a[run] = "aborted"
             \/ /\ b = run /\ a[o] = otadata[o] /\ otadata[o] # "new"
                /\ otadata[run] = "pending" => otadata[o] # "valid"
<1> DEFINE a == AfterReset(otadata)
           o == Other(run)
<1>1. /\ run \in Slots /\ top \in Slots /\ o \in Slots /\ o # run /\ Other(o) = run
      /\ Slots = {run, o}
  BY DEF IInv, TypeOK, Slots, Other
<1>2. /\ a[run] = (IF otadata[run] = "pending" THEN "aborted" ELSE otadata[run])
      /\ a[o] = (IF otadata[o] = "pending" THEN "aborted" ELSE otadata[o])
  BY <1>1 DEF AfterReset
<1>3. /\ otadata[run] \in States /\ otadata[o] \in States
  BY <1>1 DEF IInv, TypeOK
<1>4. RunningInv /\ OtherInv /\ TaskInv
  BY DEF IInv
<1>5. BootChoice(otadata) = IF Selectable(a[top]) THEN top
                            ELSE IF Selectable(a[Other(top)]) THEN Other(top) ELSE 0
  BY DEF BootChoice, Active
<1> HIDE DEF a, o
<1>6. CASE otadata[o] = "new"
  BY <1>1, <1>2, <1>3, <1>4, <1>5, <1>6 DEF OtherInv, Selectable, a, o
<1>7. CASE otadata[run] = "pending"
  BY <1>1, <1>2, <1>3, <1>4, <1>5, <1>7 DEF RunningInv, OtherInv, Selectable, States, a, o
<1>8. CASE otadata[o] # "new" /\ otadata[run] # "pending"
  BY <1>1, <1>2, <1>3, <1>4, <1>5, <1>8 DEF RunningInv, OtherInv, Selectable, States, a, o
<1> QED BY <1>6, <1>7, <1>8 DEF a, o

\* Wherever the power is cut, the journal stored knows enough, or may learn it.
LEMMA PowerLossSafe ==
  ASSUME IInv, TrialInv
  PROVE  TrialSafe(otadata, nvs)
<1> DEFINE a == AfterReset(otadata)
           b == BootChoice(otadata)
           o == Other(run)
<1>1. /\ o # run /\ Other(o) = run /\ RingInv(nvs)
      /\ booted \subseteq Images /\ flash[run] \in Images
  BY Facts DEF TrialInv, IInv, TypeOK
<1>2. MayLearn(nvs)
  BY DEF TrialInv, MayLearn, Knows
<1> HIDE DEF a, b
<1>3. CASE /\ otadata[o] = "new" /\ pc["worker"] = "restart" /\ b = o /\ a[run] = "valid"
  <2>1. /\ nvs.pend = [img |-> flash[o], slot |-> o] /\ Knows(nvs)
        /\ Settled(nvs, flash[run])
    BY <1>3 DEF TrialInv, IInv, TaskInv, Knows
  <2> QED BY <1>1, <1>3, <2>1 DEF TrialSafe, Knows, a, b
<1>4. CASE /\ otadata[run] = "pending" /\ otadata[o] = "valid" /\ b = o /\ a[run] = "aborted"
  <2>1. ASSUME NEW i \in booted \ {flash[run]} PROVE Settled(nvs, i)
    BY <1>2, <1>4, MayLearnMeans
  <2>2. Settled(nvs, flash[run]) \/ nvs.pend = [img |-> flash[run], slot |-> run]
    BY <1>2, <1>4 DEF MayLearn, Covered
  <2> QED BY <1>1, <1>4, <2>1, <2>2 DEF TrialSafe, a, b
<1>5. CASE b = run /\ a[o] = otadata[o]
  BY <1>1, <1>2, <1>5 DEF TrialSafe, MayLearn, Covered, RejectedByBoot, a, b
<1> QED BY <1>3, <1>4, <1>5, BootCases DEF a, b

\* A journal that knows every image but the running one is enough, unless a
\* candidate has just been selected.
LEMMA KnowingIsSafe ==
  ASSUME IInv, TrialInv, pc["worker"] # "restart", NEW n, RingInv(n),
         \A i \in booted \ {flash[run]} : Settled(n, i),
         otadata[Other(run)] = "valid" =>
           Settled(n, flash[run]) \/ n.pend = [img |-> flash[run], slot |-> run]
  PROVE  TrialSafe(otadata, n)
<1> DEFINE a == AfterReset(otadata)
           b == BootChoice(otadata)
           o == Other(run)
<1>1. o # run /\ Other(o) = run
  BY Facts
<1> HIDE DEF a, b
<1>2. CASE /\ otadata[run] = "pending" /\ otadata[o] = "valid" /\ b = o /\ a[run] = "aborted"
  BY <1>1, <1>2 DEF TrialSafe, a, b
<1>3. CASE b = run /\ a[o] = otadata[o]
  BY <1>1, <1>3 DEF TrialSafe, a, b
<1> QED BY <1>2, <1>3, BootCases DEF a, b

LEMMA PowerLossTrial ==
  ASSUME IInv, TrialInv, PowerLoss \/ RestartNow
  PROVE  TrialInv'
<1>1. Restart(otadata) /\ UNCHANGED <<flash, nvs>> /\ otadata \in [Slots -> States] /\ TypeOK
  BY DEF PowerLoss, RestartNow, IInv, TypeOK
<1>2. TrialSafe(otadata, nvs')
  BY <1>1, PowerLossSafe
<1> QED BY <1>1, <1>2, RestartTrial

\* A failed write at boot leaves the journal as it was or as it should be.
LEMMA OtaInitFailsTrial ==
  ASSUME RoomLeft, IInv, TrialInv, OtaInitFails
  PROVE  TrialInv'
<1>1. /\ Restart(otadata) /\ flash' = flash /\ otadata \in [Slots -> States] /\ TypeOK
      /\ nvs' \in {nvs, Reconciled(nvs)} /\ pc["main"] = "init" /\ pc["worker"] # "restart"
  BY DEF OtaInitFails, IInv, TypeOK, TaskInv, At
<1> DEFINE n == Reconciled(nvs)
<1>2. TrialSafe(otadata, n)
  <2>1. /\ RingInv(n)
        /\ \A i \in booted \ {flash[run]} : Settled(n, i)
        /\ otadata[Other(run)] = "valid" =>
             Settled(n, flash[run]) \/ n.pend = [img |-> flash[run], slot |-> run]
    BY <1>1, ReconciledKnows DEF Covered
  <2> HIDE DEF n
  <2> QED BY <1>1, <2>1, KnowingIsSafe
<1> HIDE DEF n
<1>3. TrialSafe(otadata, nvs')
  BY <1>1, <1>2, PowerLossSafe DEF n
<1> QED BY <1>1, <1>3, RestartTrial

\* A failed write at a confirmation leaves the running image named or settled.
LEMMA ConfirmSaveFailsTrial ==
  ASSUME RoomLeft, IInv, TrialInv, ConfirmSaveFails
  PROVE  TrialInv'
<1> DEFINE n == ConfirmRelease(j, release[flash[run]])
<1>1. /\ Restart(otadata) /\ flash' = flash /\ otadata \in [Slots -> States] /\ TypeOK
      /\ nvs' \in {nvs, n} /\ pc["main"] = "marked" /\ pc["worker"] # "restart"
  BY DEF ConfirmSaveFails, IInv, TypeOK, TaskInv, At
<1>2. /\ RingInv(j) /\ Knows(j) /\ j \in JournalType /\ flash[run] \in Images
      /\ release[flash[run]] \in Nat /\ 0 \in Slots /\ booted \subseteq Images
  BY <1>1, Facts DEF TrialInv, IInv, TypeOK, Slots
<1>3. Advances(j, n) /\ Settled(n, flash[run])
  BY <1>2, ConfirmSettles DEF RoomLeft
<1> HIDE DEF n
<1>4. \A i \in booted \ {flash[run]} : Settled(n, i)
  BY <1>2, <1>3 DEF Knows, Advances
<1>5. TrialSafe(otadata, n)
  BY <1>1, <1>3, <1>4, KnowingIsSafe DEF Advances
<1>6. TrialSafe(otadata, nvs')
  BY <1>1, <1>5, PowerLossSafe
<1> QED BY <1>1, <1>6, RestartTrial

LEMMA TrialUnchanged ==
  ASSUME TrialInv, UNCHANGED vars
  PROVE  TrialInv'
BY DEF vars, lasting, offers, TrialInv, MayLearn, Knows, Covered, Settled, Rejected,
       RejectedByBoot, RingInv, Installing

\* A first confirmation writes the running slot's selector only.
LEMMA ConfirmTrial ==
  ASSUME IInv, TrialInv, Confirm
  PROVE  TrialInv'
<1> USE DEF At, Go, Tasks, Labels, lasting, offers, work
<1>1. CASE UNCHANGED vars
  BY <1>1, TrialUnchanged
<1>2. CASE Restart(otadata) /\ UNCHANGED <<flash, top, nvs>>
  BY <1>2, PowerLossTrial DEF PowerLoss
<1>3. CASE /\ UNCHANGED <<flash, nvs, run, j, healthy, manifest, booted>>
           /\ pc' \in {[pc EXCEPT !["main"] = "marked"], [pc EXCEPT !["main"] = "seeded"]}
           /\ \/ otadata' = otadata
              \/ otadata[run] = "none" /\ SetBoot(run)
              \/ otadata[run] \in {"new", "pending"} /\ MarkValid
  <2>1. pc \in [Tasks -> Labels] /\ pc["main"] # "init"
    BY DEF Confirm, IInv, TypeOK
  <2>2. otadata'[Other(run)] = otadata[Other(run)]
    <3>1. CASE otadata[run] \in {"new", "pending"} /\ MarkValid
      <4>1. Active(otadata) = run
        BY <3>1, Facts DEF IInv, RunningInv, OtherInv, TypeOK, Active, Selectable, States
      <4> QED BY <3>1, <4>1, Facts DEF MarkValid, IInv, TypeOK
    <3>2. CASE otadata[run] = "none" /\ SetBoot(run)
      BY <3>2, Facts DEF SetBoot, IInv, TypeOK
    <3> QED BY <1>3, <3>1, <3>2
  <2>3. pc'["worker"] = pc["worker"] /\ pc'["main"] # "init"
    BY <1>3, <2>1
  <2> QED BY <1>3, <2>1, <2>2, <2>3, QuietTrial DEF SameStart, Installing
<1> QED BY <1>1, <1>2, <1>3, Zenon DEF Confirm

\* Rolling back marks the running image, which the journal names or has settled.
LEMMA RollBackTrial ==
  ASSUME IInv, TrialInv, NEW t \in Tasks, RollBack(t)
  PROVE  TrialInv'
<1>0. pc["main"] # "init"
  BY DEF RollBack, At, Tasks, IInv, TaskInv
<1>1. CASE RollbackPossible
  <2> DEFINE ota == [otadata EXCEPT ![Active(otadata)] = "invalid"]
             a == AfterReset(ota)
             o == Other(run)
  <2>1. Restart(ota) /\ UNCHANGED <<flash, nvs>> /\ TypeOK
    BY <1>1 DEF RollBack, IInv
  <2>2. otadata[o] = "valid" /\ top = run
    BY <1>1 DEF RollbackPossible, IInv, OtherInv
  <2>3. otadata[run] \in {"valid", "pending"}
    BY <2>2, Facts DEF IInv, TypeOK, RunningInv, OtherInv, States
  <2>4. Active(otadata) = run
    BY <2>2, <2>3 DEF Active, Selectable
  <2>5. ota \in [Slots -> States] /\ ota[run] = "invalid" /\ ota[o] = "valid"
    BY <2>2, <2>4, Facts DEF IInv, TypeOK, States
  <2>6. a[run] = "invalid" /\ BootChoice(ota) = o /\ Other(o) = run
    BY <2>2, <2>5, Facts DEF AfterReset, BootChoice, Active, Selectable
  <2>7. /\ RingInv(nvs)
        /\ \A i \in booted \ {flash[run]} : Settled(nvs, i)
        /\ Settled(nvs, flash[run]) \/ nvs.pend = [img |-> flash[run], slot |-> run]
    BY <1>0, <2>2 DEF TrialInv, Knows, Covered
  <2> HIDE DEF ota
  <2>8. TrialSafe(ota, nvs)
    BY <2>6, <2>7 DEF TrialSafe
  <2> QED BY <2>1, <2>5, <2>8, RestartTrial
<1>2. CASE ~RollbackPossible
  <2> USE DEF At, Go, Back, work, offers, lasting, Tasks, Labels
  <2>1. /\ UNCHANGED <<flash, otadata, nvs, run, j, healthy, manifest, booted>>
        /\ pc' = [pc EXCEPT ![t] = IF t = "main" THEN "up" ELSE "idle"]
    BY <1>2, Zenon DEF RollBack
  <2>2. pc \in [Tasks -> Labels]
    BY DEF IInv, TypeOK
  <2>3. /\ pc'["main"] # "init"
        /\ pc'["worker"] = pc["worker"] \/ pc'["worker"] = "idle"
    BY <1>0, <2>1, <2>2
  <2> QED BY <1>0, <2>1, <2>3, QuietTrial DEF SameStart, Installing
<1> QED BY <1>1, <1>2

LEMMA TrialStep ==
  ASSUME RoomLeft, IInv, TrialInv, [Next]_vars
  PROVE  TrialInv'
<1>1. CASE Main
  BY <1>1, OtaInitTrial, OtaInitFailsTrial, ConfirmTrial, QuietStepsTrial, ConfirmSaveTrial,
     ConfirmSaveFailsTrial, RejectJournalTrial, RollBackTrial DEF Main, Tasks
<1>2. CASE Worker
  BY <1>2, QuietStepsTrial, FetchTrial, InstallTrial, WorkerJournalTrial, PowerLossTrial,
     RejectJournalTrial, RollBackTrial DEF Worker, Tasks
<1>3. CASE Offer \/ PowerLoss \/ UNCHANGED vars
  BY <1>3, QuietStepsTrial, PowerLossTrial, TrialUnchanged
<1> QED BY <1>1, <1>2, <1>3 DEF Next

LEMMA TrialInit == Init => TrialInv
<1> SUFFICES ASSUME Init PROVE TrialInv
  OBVIOUS
<1>1. RingInv(EmptyJournal)
  BY UpdaterAssumption DEF EmptyJournal, RingInv
<1>2. MayLearn(nvs)
  BY DEF Init, MayLearn, Slots, Other
<1> QED BY <1>1, <1>2 DEF Init, TrialInv, Installing, Starting, Tasks, Slots

\* A slot is made the next to boot by RestartSelect alone, and it holds what the
\* worker's manifest describes.
LEMMA SelectsCandidate ==
  ASSUME IInv, [Next]_vars, NEW s \in Slots,
         otadata'[s] = "new", otadata[s] # "new", s # run
  PROVE  Installing /\ flash[s] = manifest
<1>1. s = Other(run) /\ Other(run) # run /\ run \in Slots
  BY Facts
<1>2. ASSUME NEW ota \in [Slots -> States], Restart(ota) PROVE ota[s] = "new"
  <2>1. otadata' = [AfterReset(ota) EXCEPT ![BootChoice(ota)] =
                      IF AfterReset(ota)[BootChoice(ota)] = "new" THEN "pending"
                      ELSE AfterReset(ota)[BootChoice(ota)]]
    BY <1>2 DEF Restart
  <2>2. AfterReset(ota)[s] = "new"
    BY <2>1 DEF AfterReset
  <2> QED BY <2>2 DEF AfterReset
<1>3. otadata \in [Slots -> States]
  BY DEF IInv, TypeOK
<1>4. ~Restart(otadata)
  BY <1>2, <1>3
<1>5. ASSUME NEW t \in Tasks, RollBack(t) PROVE FALSE
  <2> DEFINE ota == [otadata EXCEPT ![Active(otadata)] = "invalid"]
  <2>1. ota \in [Slots -> States] /\ ota[s] # "new"
    BY <1>3 DEF States, Active, Other, Slots
  <2>2. Restart(ota) \/ otadata' = otadata
    BY <1>5, Zenon DEF RollBack, lasting
  <2> HIDE DEF ota
  <2> QED BY <1>2, <2>1, <2>2
<1>6. ~MarkValid /\ ~SetBoot(run)
  BY <1>1, <1>3 DEF MarkValid, SetBoot
<1>7. otadata' # otadata
  OBVIOUS
<1>8. CASE RestartSelect
  BY <1>1, <1>8 DEF RestartSelect, At, Installing, IInv, TaskInv
<1>9. CASE ~RestartSelect
  <2>1. CASE Main
    BY <1>4, <1>5, <1>6, <1>7, <2>1, Zenon
    DEF Main, OtaInit, OtaInitFails, Confirm, ConfirmSeed, ConfirmSave, ConfirmSaveFails,
        NoVerdict, UsbFailed, RejectJournal, Tasks, lasting, vars
  <2>2. CASE Worker
    BY <1>4, <1>5, <1>7, <1>9, <2>2, Zenon
    DEF Worker, Expire, TakeOffer, StartCheck, Fetch, FetchFails, DownloadBegin,
        DownloadFails, DownloadEnd, DownloadRejected, RestartFails, RestartJournal,
        RestartNow, RejectJournal, Tasks, lasting
  <2>3. CASE Offer \/ PowerLoss \/ UNCHANGED vars
    BY <1>4, <1>7, <2>3, Zenon DEF Offer, PowerLoss, vars, lasting
  <2> QED BY <2>1, <2>2, <2>3 DEF Next
<1> QED BY <1>8, <1>9

\* No image is tried twice, however often the power is cut: reset before its
\* confirmation, rolled back or confirmed, the journal knows it, as long as the
\* ring has room for the next failure.
THEOREM SingleTrial == Spec /\ []RoomLeft => TrialOnce
<1>1. Init => TrialInv
  BY TrialInit
<1>2. RoomLeft /\ IInv /\ TrialInv /\ [Next]_vars => TrialInv'
  BY TrialStep
<1>3. IInv /\ TrialInv /\ [Next]_vars =>
        [\A s \in Slots : otadata'[s] = "new" /\ otadata[s] # "new" /\ s # run
           => flash[s] \notin booted]_vars
  BY SelectsCandidate DEF TrialInv
<1> QED BY <1>1, <1>2, <1>3, Inductive, PTL DEF Spec, TrialOnce

\* That is so from the start when there are no more images than places: the ring
\* holds no image twice.
THEOREM FewImagesTriedOnce ==
  ASSUME RoomForFailures
  PROVE  Spec => TrialOnce
<1>1. Init => TrialInv
  BY TrialInit
<1>2. IInv /\ TrialInv => RoomLeft
  BY FewImagesFit DEF IInv
<1>3. IInv /\ TrialInv /\ [Next]_vars => TrialInv'
  BY <1>2, TrialStep
<1> QED BY <1>1, <1>2, <1>3, Inductive, SingleTrial, PTL DEF Spec

-----------------------------------------------------------------------------
(* The updater implements the service of trials *)

\* What a restart leaves of the selectors.
LEMMA AfterRestart ==
  ASSUME TypeOK, NEW ota \in [Slots -> States], Restart(ota)
  PROVE  LET a == AfterReset(ota)
             b == BootChoice(ota)
             o == Other(b)
         IN  /\ b \in Slots /\ o \in Slots /\ o # b
             /\ run' = b /\ booted' = booted \cup {flash[b]}
             /\ otadata'[b] = (IF a[b] = "new" THEN "pending" ELSE a[b])
             /\ otadata'[o] = a[o]
<1> DEFINE b == BootChoice(ota)
           a == AfterReset(ota)
           o == Other(b)
<1>1. b \in Slots /\ o \in Slots /\ o # b /\ a \in [Slots -> States]
  BY DEF AfterReset, BootChoice, Active, Slots, Other, TypeOK, States
<1>2. /\ run' = b /\ otadata' = [a EXCEPT ![b] = IF a[b] = "new" THEN "pending" ELSE a[b]]
      /\ booted' = booted \cup {flash[b]}
  BY DEF Restart
<1> HIDE DEF a, b
<1> QED BY <1>1, <1>2 DEF a, b

\* What the service sees of the running image's selector.
LEMMA TrustedMeans ==
  /\ otadata[run] = "valid" => Trusted = flash[run]
  /\ otadata[run] = "pending" /\ otadata[Other(run)] = "valid" => Trusted = flash[Other(run)]
  /\ otadata[run] # "valid" /\ ~(otadata[run] = "pending" /\ otadata[Other(run)] = "valid")
       => Trusted = None
BY DEF Trusted

\* A restart boots the candidate just selected, falls back, or changes nothing.
LEMMA RestartService ==
  ASSUME ~SlowStart, IInv, TrialInv, FallbackInv, Restart(otadata), flash' = flash
  PROVE  [Trials!Next]_(Trials!vars) /\ FallbackInv'
<1> DEFINE a == AfterReset(otadata)
           b == BootChoice(otadata)
           o == Other(run)
<1>1. /\ o # run /\ Other(o) = run /\ run \in Slots /\ o \in Slots
      /\ otadata \in [Slots -> States] /\ flash[run] \in booted
      /\ TypeOK /\ RunningInv /\ OtherInv /\ FloorInv
      /\ flash[run] \in Images /\ None \notin Images
  BY Facts, UpdaterAssumption DEF IInv, TypeOK, TrialInv
<1>2. /\ run' = b /\ booted' = booted \cup {flash[b]}
      /\ otadata'[b] = (IF a[b] = "new" THEN "pending" ELSE a[b])
      /\ otadata'[Other(b)] = a[Other(b)]
  BY <1>1, AfterRestart
<1>3. \A s \in Slots : a[s] = IF otadata[s] = "pending" THEN "aborted" ELSE otadata[s]
  BY DEF AfterReset
<1>4. \/ /\ otadata[o] = "new" /\ pc["worker"] = "restart" /\ b = o /\ a[run] = "valid"
      \/ /\ otadata[run] = "pending" /\ otadata[o] = "valid" /\ b = o /\ a[run] = "aborted"
      \/ /\ b = run /\ a[o] = otadata[o] /\ otadata[o] # "new"
         /\ otadata[run] = "pending" => otadata[o] # "valid"
  BY BootCases
<1> HIDE DEF a, b
<1>5. CASE otadata[o] = "new" /\ pc["worker"] = "restart" /\ b = o /\ a[run] = "valid"
  <2>1. /\ otadata[run] = "valid" /\ flash[o] = manifest /\ manifest \in Images \ booted
        /\ release[manifest] > release[flash[run]]
    BY <1>1, <1>5 DEF IInv, OtherInv, TaskInv, FloorInv, TypeOK, TrialInv, Installing
  <2>2. /\ run' = o /\ flash'[run'] = manifest /\ booted' = booted \cup {manifest}
        /\ otadata'[o] = "pending" /\ otadata'[run] = "valid"
    BY <1>1, <1>2, <1>3, <1>5, <2>1
  <2>3. Trusted = flash[run] /\ Trusted' = flash[run]
    BY <1>1, <2>1, <2>2 DEF Trusted
  <2>4. Trials!Try
    BY <2>1, <2>2, <2>3 DEF Trials!Try
  <2>5. FallbackInv'
    BY <1>1, <2>2 DEF FallbackInv
  <2> QED BY <2>4, <2>5 DEF Trials!Next
<1>6. CASE /\ otadata[run] = "pending" /\ otadata[o] = "valid" /\ b = o
           /\ a[run] = "aborted"
  <2>1. flash[o] \in booted /\ flash[o] # None
    BY <1>1, <1>6 DEF FallbackInv, OtherInv
  <2>2. run' = o /\ flash'[run'] = flash[o] /\ booted' = booted /\ otadata'[o] = "valid"
    BY <1>1, <1>2, <1>3, <1>6, <2>1
  <2>3. Trusted = flash[o] /\ Trusted' = flash[o]
    BY <1>1, <1>6, <2>2 DEF Trusted
  <2>4. Trials!FallBack
    BY <2>1, <2>2, <2>3 DEF Trials!FallBack
  <2>5. FallbackInv'
    BY <2>2 DEF FallbackInv
  <2> QED BY <2>4, <2>5 DEF Trials!Next
<1>7. CASE /\ b = run /\ a[o] = otadata[o] /\ otadata[o] # "new"
           /\ otadata[run] = "pending" => otadata[o] # "valid"
  <2>1. run' = run /\ booted' = booted /\ otadata'[o] = otadata[o]
    BY <1>1, <1>2, <1>7
  <2>2. otadata'[run] = CASE otadata[run] = "pending" -> "aborted"
                          [] otadata[run] = "new" -> "pending"
                          [] OTHER -> otadata[run]
    BY <1>1, <1>2, <1>3, <1>7
  <2>3. otadata[run] = "new" => otadata[o] = "none"
    BY <1>1 DEF RunningInv
  <2>4. Trusted' = Trusted
    BY <1>1, <1>7, <2>1, <2>2, <2>3 DEF Trusted
  <2>5. FallbackInv'
    BY <2>1, <2>2, <2>3 DEF FallbackInv
  <2> QED BY <2>1, <2>4, <2>5 DEF Trials!vars
<1> QED BY <1>4, <1>5, <1>6, <1>7

\* Rolling back is falling back.
LEMMA RollBackService ==
  ASSUME ~SlowStart, IInv, TrialInv, FallbackInv, NEW t \in Tasks, RollBack(t),
         RollbackPossible
  PROVE  [Trials!Next]_(Trials!vars) /\ FallbackInv'
<1> DEFINE ota == [otadata EXCEPT ![Active(otadata)] = "invalid"]
           a == AfterReset(ota)
           o == Other(run)
<1>1. Restart(ota) /\ flash' = flash /\ TypeOK
  BY DEF RollBack, IInv
<1>2. otadata[o] = "valid" /\ top = run /\ otadata[run] = "pending" /\ flash[o] # None
  BY DEF RollBack, At, RollbackPossible, IInv, OtherInv, FloorInv, Tasks
<1>3. Active(otadata) = run
  BY <1>2 DEF Active, Selectable
<1>4. ota \in [Slots -> States] /\ ota[run] = "invalid" /\ ota[o] = "valid"
  BY <1>2, <1>3, Facts DEF IInv, TypeOK, States
<1>5. a[o] = "valid" /\ BootChoice(ota) = o
  BY <1>2, <1>4, Facts DEF AfterReset, BootChoice, Active, Selectable
<1> HIDE DEF ota
<1>6. run' = o /\ booted' = booted \cup {flash[o]} /\ otadata'[o] = "valid"
  BY <1>1, <1>4, <1>5, AfterRestart
<1>7. flash[o] \in booted
  BY <1>2 DEF FallbackInv
<1>8. Trusted = flash[o] /\ Trusted' = flash[o]
  BY <1>1, <1>2, <1>6 DEF Trusted
<1>9. Trials!FallBack
  BY <1>1, <1>2, <1>6, <1>7, <1>8 DEF Trials!FallBack
<1> QED BY <1>6, <1>9 DEF Trials!Next, FallbackInv

\* The running image and the selectors are left alone, or the selector of a slot
\* that no trial falls back to is written.
LEMMA QuietService ==
  ASSUME FallbackInv, run' = run, flash'[run] = flash[run], booted' = booted,
         otadata'[run] = otadata[run],
         otadata[run] = "pending" =>
           /\ otadata'[Other(run)] = otadata[Other(run)]
           /\ flash'[Other(run)] = flash[Other(run)]
  PROVE  [Trials!Next]_(Trials!vars) /\ FallbackInv'
<1>1. Trusted' = Trusted
  BY DEF Trusted
<1>2. FallbackInv'
  BY DEF FallbackInv
<1> QED BY <1>1, <1>2 DEF Trials!vars

\* A confirmation is the running slot's selector becoming valid.
LEMMA ConfirmService ==
  ASSUME IInv, FallbackInv, Confirm \/ ConfirmSeed, ~Restart(otadata)
  PROVE  [Trials!Next]_(Trials!vars) /\ FallbackInv'
<1>1. UNCHANGED <<run, flash, booted>>
  BY Zenon DEF Confirm, ConfirmSeed, vars, lasting
<1>2. CASE otadata' = otadata
  BY <1>1, <1>2, QuietService
<1>3. CASE otadata[run] = "none" /\ SetBoot(run)
  <2>1. otadata'[run] = "new" /\ otadata'[Other(run)] = otadata[Other(run)]
    BY <1>3, Facts DEF SetBoot, IInv, TypeOK
  <2>2. Trusted' = Trusted
    BY <1>1, <1>3, <2>1 DEF Trusted
  <2>3. FallbackInv'
    BY <1>1, <2>1 DEF FallbackInv
  <2> QED BY <1>1, <2>2, <2>3 DEF Trials!vars
<1>4. CASE otadata[run] \in {"new", "pending"} /\ MarkValid
  <2>1. Active(otadata) = run
    BY <1>4, Facts DEF IInv, RunningInv, OtherInv, TypeOK, Active, Selectable, States
  <2>2. otadata'[run] = "valid"
    BY <1>4, <2>1, Facts DEF MarkValid, IInv, TypeOK
  <2>3. Trusted' = flash[run]
    BY <1>1, <2>2 DEF Trusted
  <2>4. FallbackInv'
    BY <1>1, <2>2 DEF FallbackInv
  <2> QED BY <1>1, <2>3, <2>4 DEF Trials!Next, Trials!Confirm
<1>5. CASE ConfirmSeed
  BY <1>4, <1>5 DEF ConfirmSeed, At, IInv, RunningInv
<1>6. CASE Confirm
  BY <1>2, <1>3, <1>4, <1>6, Zenon DEF Confirm, lasting, vars
<1> QED BY <1>5, <1>6

\* Everything that does not restart or write a selector of the running slot.
LEMMA StepService ==
  ASSUME ~SlowStart, IInv, TrialInv, FallbackInv, [Next]_vars
  PROVE  [Trials!Next]_(Trials!vars) /\ FallbackInv'
<1>1. CASE Restart(otadata) /\ flash' = flash
  BY <1>1, RestartService
<1>2. ASSUME NEW t \in Tasks, RollBack(t) PROVE [Trials!Next]_(Trials!vars) /\ FallbackInv'
  <2>1. CASE ~RollbackPossible
    <3>1. UNCHANGED <<run, flash, otadata, booted>>
      BY <1>2, <2>1, Zenon DEF RollBack, lasting
    <3> QED BY <3>1, QuietService
  <2> QED BY <1>2, <2>1, RollBackService
<1>3. CASE DownloadBegin \/ DownloadEnd \/ RestartSelect
  <2>1. UNCHANGED <<run, booted>> /\ flash'[run] = flash[run] /\ otadata'[run] = otadata[run]
    BY <1>3, Facts
    DEF DownloadBegin, DownloadEnd, RestartSelect, SetBoot, NextPartition, IInv, TypeOK
  <2>2. otadata[run] # "pending"
    BY <1>3 DEF DownloadBegin, DownloadEnd, RestartSelect, At, IInv, TaskInv, RunningInv
  <2> QED BY <2>1, <2>2, QuietService
<1>4. CASE Confirm \/ ConfirmSeed
  <2>1. flash' = flash
    BY <1>4, Zenon DEF Confirm, ConfirmSeed, vars, lasting
  <2> QED BY <1>1, <1>4, <2>1, ConfirmService
<1>5. CASE UNCHANGED <<run, flash, otadata, booted>>
  BY <1>5, QuietService
<1>6. CASE Main
  BY <1>1, <1>2, <1>4, <1>5, <1>6, Zenon
  DEF Main, OtaInit, OtaInitFails, ConfirmSave, ConfirmSaveFails, NoVerdict,
      UsbFailed, RejectJournal, Tasks, lasting
<1>7. CASE Worker
  BY <1>1, <1>2, <1>3, <1>5, <1>7, Zenon
  DEF Worker, Expire, TakeOffer, StartCheck, Fetch, FetchFails, DownloadFails,
      DownloadRejected, RestartFails, RestartJournal, RestartNow, RejectJournal,
      Tasks, lasting
<1>8. CASE Offer \/ PowerLoss \/ UNCHANGED vars
  BY <1>1, <1>5, <1>8, Zenon DEF Offer, PowerLoss, vars, lasting
<1> QED BY <1>6, <1>7, <1>8 DEF Next

\* The updater, cut off between any two writes, implements the service: a device
\* runs the image it trusts or a later one on its one trial, as long as
\* app_main() is in time and the ring forgets no failure.
THEOREM Implementation ==
  ASSUME ~SlowStart
  PROVE  Spec /\ []RoomLeft => ImplementsTrials
<1>1. Init => TrialInv
  BY TrialInit
<1>2. Init => Trials!Init /\ FallbackInv
  BY DEF Init, Trials!Init, Trusted, FallbackInv, Slots
<1>3. RoomLeft /\ IInv /\ TrialInv /\ [Next]_vars => TrialInv'
  BY TrialStep
<1>4. IInv /\ TrialInv /\ FallbackInv /\ [Next]_vars
        => [Trials!Next]_(Trials!vars) /\ FallbackInv'
  BY StepService
<1> QED BY <1>1, <1>2, <1>3, <1>4, Inductive, PTL DEF Spec, ImplementsTrials, Trials!Spec

\* What the service promises, of the updater: the image a trial falls back to is
\* never lost, and is only ever replaced by a later release.
THEOREM TrustOnlyGrows ==
  ASSUME ~SlowStart
  PROVE  Spec /\ []RoomLeft => Trials!OnlyLater
<1> USE UpdaterAssumption
<1>1. Trials!Init => Trials!TrialIsLater
  BY DEF Trials!Init, Trials!TrialIsLater
<1>2. Trials!TrialIsLater /\ [Trials!Next]_(Trials!vars) => Trials!TrialIsLater'
  BY DEF Trials!TrialIsLater, Trials!Next, Trials!Try, Trials!Confirm,
         Trials!FallBack, Trials!vars
<1>3. IInv => flash[run] # None
  BY DEF IInv, RunningInv
<1>4. IInv /\ Trials!TrialIsLater /\ [Trials!Next]_(Trials!vars)
        => [Trusted # None /\ Trusted' # Trusted =>
              Trusted' # None /\ release[Trusted'] > release[Trusted]]_(Trials!vars)
  BY <1>3 DEF Trials!TrialIsLater, Trials!Next, Trials!Try, Trials!Confirm,
              Trials!FallBack, Trials!vars
<1> QED
  BY <1>1, <1>2, <1>4, Inductive, Implementation, PTL
  DEF ImplementsTrials, Trials!Spec, Trials!OnlyLater
=============================================================================
