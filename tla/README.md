# Verification of remote-wake

TLA+ models of remote-wake, the TLC runs that check them on small instances and
the TLAPS proofs that hold for every instance. Everything is translated from
the code under `src/`; paths below are relative to `src/`, and
`fw/` stands for `firmware/main/`.

Every module is listed in `PROJECT.json` with the source lines of each of its
definitions (`map`), the runs, a mutant of the code for every property checked,
the hazards the properties are for, and the disagreements found between the
code and what its comments and documents say. The definitions map to about a
third of the implementation's lines.

    tlc -config command_reset.cfg MCCommandProtocol.tla      a run
    tlapm CommandProtocolProofs.tla                          a proof module

## 1. The system

A phone (a PWA) signs commands with a key of its own; a relay (one Cloudflare
Durable Object per device) passes them over a WebSocket to a microcontroller,
which verifies them and presses keys or the power button of a PC.

    phone tab(s) --POST /v1/send--> relay object --WebSocket--> relay task --> HID, power
       |  IndexedDB: counters          |  pending, socket gen        |  NVS: keys, counters
       |<-------- answer by id --------|<------- answer -------------|
    station task / Wi-Fi events --notify_network--> s_link <-- WebSocket client's task
    button task --factory reset, restart--> NVS

| component | state | operations | what is hard | what makes it correct |
|---|---|---|---|---|
| phone: runs and counters (`app/src/commands.js`, `store.js`, `api.js`) | counter per (device, slot) in IndexedDB; runs in progress | `run`, `nextCounter`, `bumpCounterTo`, `sendCommand` | several tabs, an unguarded refresh beside a guarded command, a page that dies, a restore from a backup | a counter is signed once; the phone is told the truth |
| phone: interface (`app.js`, `pairing.js`, `caps.js`, ...) | device records, the poller | pair, change slot, poll presence, refresh | late answers for a device deleted or switched meanwhile | records are not brought back; at most one poll |
| relay worker (`relay/src/index.ts`, `routes.ts`) | none | routing | - | - |
| relay object (`relay/src/device.ts`, `updates.ts`, `ratelimit.ts`) | claimed token, socket generation, pending answers, presence time, alarm, token bucket | upgrade, message, close, send, alarm, update check | superseded sockets that linger, timer against late answer, eviction, a catalog that answers late | one socket speaks for the device; every request settles once; an open socket has its alarm |
| command verification (`fw/auth.c`, `relay_client.c`) | high-water mark per slot in NVS | `rw_auth_verify`, `handle_envelope`, `dispatch` | power loss between any two steps, duplicates, factory reset beside it | nothing runs twice, or under an identity it is not for |
| failure limiter (`relay_client.c`) | ring of failure times, deadline | `note_auth_failure`, `locked_out` | ring arithmetic, time | locks exactly at the threshold |
| relay link (`relay_client.c`) | `s_link`, receive queue, client | `begin_session`, `ws_event_handler`, `relay_task`, `teardown_client` | four tasks and one spinlock; callbacks of a session that is over | nothing outlives the network it came in on; the link always recovers |
| Wi-Fi station and recovery (`fw/wifi_station.c`, `wifi_recovery.c`) | outage generation, sampled state, deadlines | event handler, `station_task`, `rw_wifi_recovery_step` | events late, lost or racing a sample | the last thing published is the truth |
| configuration (`fw/config.c`) | identity, token, network, relay, slots, counters: one NVS entry each | init, set Wi-Fi, set relay, add key, set counter, factory reset | every operation is several writes, any of which can fail or be the last before a power loss; erasure is not atomic | what the owner was told stays true; a key has one slot; the token the relay knows is the one in flash |
| setup mode (`fw/provisioning.c`) | HTTP server with one handler task | `/config`, `/pair`, `/finish` | lost answers, retries, the button beside a request | an OK means stored; enrolment is idempotent |
| start-up, button (`fw/main.c`) | mode, RTC flag | `app_main`, `button_task` | resets of every kind, RTC RAM that holds anything after a cold start | setup mode when asked for, and only then |
| updater (`fw/ota.c`, `ota_journal.c`, `ota_manifest.c`) | journal in NVS, boot selectors, two slots | offer, download, restart, confirm, reject, reconcile | power loss at every write, trial boot, deadline | always an image to boot, never an older one, a failing one is tried once |
| USB keyboard, power button, maintenance (`fw/usb_hid.c`, `power_btn.c`, `maintenance.c`) | report in flight, debt of a release, lock holder, reservations | wake, type, keys, pulse, quiesce, recovery, enter boot loader | the host polls, suspends and resets as it likes; late completions; mutual exclusion over two locks and two flags in different files | a key is always let go; nothing is typed twice or into a gap; a restart is alone |
| LED, encodings, captive DNS, offline cache, release tools | - | - | - | not stateful enough to model |

## 2. The modules

Built, in the order of importance:

1. `AuthLockout` - the ring as a value: `EmptyRing`, `LockedOut`,
   `NoteAuthFailure`. `AuthLimiter` drives it with a clock;
   `LockoutWindow` is the abstract sliding window it implements;
   `AuthLimiterProofs`.
2. `CommandService` - the abstract promise: commands of a channel run in
   strictly increasing counter order, and only once issued.
   Only a factory reset that was cut off may begin a slot anew (`era`).
   `CommandProtocol` - phone, network, device and enrolment in detail, with the
   ring of `AuthLockout` in its state; `MCCommandProtocol` for TLC;
   `CommandProtocolProofs`.
3. `RelayLink` - the four firmware tasks that share `s_link`; `LinkService` - the
   abstract link they implement: a command runs in the session it came in, at
   most once, or is lost with it; `MCRelayLink`; `RelayLinkProofs`.
4. `TokenBucket` - the relay's rate limiter as a value; `RateLimiter` drives it
   with a clock that may be set back and put forward; `RateLimiterProofs`.
5. `DeviceObject` - the relay's Durable Object of one device, with the bucket in
   its state; `CallService` - what it promises those who send commands: a request
   waits alone under its id and ends once; `MCDeviceObject`; `DeviceObjectProofs`.
6. `Updater` - the updater between journal and boot selectors; `TrialService` -
   what it promises: the trusted image runs, or a later one on its only trial;
   `MCUpdater`; `UpdaterProofs`.
7. `Keyboard` - reports, bus, actions and recovery under one lock, as a part;
   `Reservations` composes it with the power button, the updater's restart
   and the entry to the boot loader; `MCReservations`; `ReservationsProofs`.
8. `DeviceStore` - flash, setup mode, start and button; `MCDeviceStore`;
   `DeviceStoreProofs`.

### CommandProtocol and the code

| variables | code |
|---|---|
| `pairing`, `stored`, `tab` | device record, `counters` store, one `run()` per tab |
| `sent`, `net`, `replies` | envelopes signed (history), deliverable, answers travelling |
| `nvsId`, `slots`, `hwm` | NVS: identity, `k1`..`k4`, `c1`..`c4`; `lastDev` numbers the identities drawn |
| `devId`, `reset` | `s_device_id`; where the button task is in a factory reset |
| `mode`, `setupJob` | setup or normal; an enrolment between its two writes |
| `task` | the relay task inside `handle_envelope`: nothing, authenticated, accepted |
| `sessionOk`, `synced`, `ring` | `session_valid()`, `s_clock_synchronized`, the limiter |
| `ran`, `strays` | history: dispatched, or dispatched while a reset was under way |
| `wiped` | history: how often a reset took a slot's key or mark and left the identity |

The three steps of a command are the points where another task or a power loss
can get between: `Receive` (lockout, device id, key, signature, time window),
`CheckAndPersist` (read the mark, compare, write it, action enabled) and
`Dispatch` (session again, handler, answer). A factory reset runs on the button
task beside them: `Erase` is `nvs_erase_all`, which may stop with any part of flash
erased, because it fails or because power is lost; `ForgetIdentity` clears the
identity in RAM; the device goes on for half a second until `Reboot`, which takes
the identity it finds or draws a new one (`NextIdentity`). A namespace that cannot be
opened (`config.c:594`) is the `Reboot` alone.
Enrolment is `AddKey` (the scan and the first write) and `AddKeyCounter` or
`AddKeyFails`. `Reboot` is possible in every state and keeps only NVS.

What is abstracted: an envelope is a record and its signature is its `signer`
(canonical JSON, base64url and Ed25519 are assumed to do their job, and
envelopes that are not well-formed are not sent); a phone is its key; time is
one clock with an offset per command; a handler ends in `ok`, in an error that says
why (`busy`), or in `internal`, having acted in part or not at all. The relay
loses (by not delivering), reorders and, with `Redeliver`, repeats.
The phone's `COUNTER_MAX_JUMP` and the 2^52 ceiling are never reached.
A session lost while the device executes loses the answer.

### RelayLink and the code

`link` is `s_link` field by field, with `superseded` for `close_code == 4001`.
Each action is one critical section, or a stretch of one task that looks at the
link once. `WsData` and `WsQueue` are the two halves of a data callback: the
critical section and the queueing after it. `EventFence` and `EventPublish` are
the two publications of the Wi-Fi event handler, and `StationRead` /
`StationSample` the two reads of the station task whose order the comment
in `wifi_station.c:75` is about. The relay task has one action per place it can
be interrupted at; `RelayDispatch` is the decision in `handle_envelope` to hand
a verified command to its handler (the handler itself may outlast the session).
Waits end when what they wait for cannot come any more (`Silent`), which is what
the 15 s handshake limit and the 70 s silence limit come to without a clock.
Session numbers wrap at `MaxSession` and skip 0 as the 32-bit counter does.
Not modelled: reassembly of fragmented frames, allocation failures,
update hints, the TWDT restart when `esp_websocket_client_stop` hangs.

### DeviceObject, TokenBucket and the code

| variables | code |
|---|---|
| `gen`, `since`, `alarm`, `bucket` | storage: `gen`, `since`, the alarm, `bucket` |
| `sock`, `att` | `getWebSockets()` with `readyState` by generation; `UpdateAttachment` |
| `pending`, `timer`, `checkingUpdate`, `fetch` | memory: the map, each `handleSend`'s timer, the flag, the `checkUpdate` that awaits the catalog |
| `req`, `advice`, `lost` | history: what each caller got and from which socket, an advisory sent, a socket lost in a reset |

The object is single-threaded and the runtime delivers no event while it waits
for its own storage, so `await storage.put` is no interleaving point; the waits
for the answer and for the catalog are. Where a handler goes on as soon as its
promise settles (`answer`), that is before the next event, and one action.
A socket that was told to close stays in `getWebSockets()` ("closing") until its
close event, which may come after any number of successors. `since` is modelled
by which transition it dates. Times are relative to now, in ticks. Hibernation
is no step, because it changes nothing; `Reset` is the loss of memory and sockets
without close events, after a deployment, a failure or an exception. Requests
are authorized and well-formed; a caller that goes away is one that does
not read its answer. In `TokenBucket` a token is `Cost` units, so that fractions
are exact; the clock that goes back and comes forward again (`Date.now()` follows
corrections both ways) is in `RateLimiter` only.

### Updater and the code

| variables | code |
|---|---|
| `flash`, `otadata`, `top` | the image in each slot, the state of its boot selector, the one with the higher sequence number |
| `nvs`, `j` | the journal as stored, `s_journal` |
| `run`, `healthy`, `phase` | running slot, `s_healthy`, `s_status.phase` |
| `pc.main`, `pc.worker` | where `app_main` and the worker are between two writes |
| `queued`, `deferred`, `url`, `manifest` | the offer in `s_queue`, the worker's locals |
| `booted` | history: images that have run |

An action ends where power can be lost with a new effect, so each journal write and
each selector write is one. `Restart` is every reset: the bootloader ends an
unconfirmed trial, chooses a slot (`BootChoice`) and starts the next trial.
`Reconciled` is `reconcile_boot`, `Confirm`/`ConfirmSeed`/`ConfirmSave` are
`rw_ota_confirm_healthy` with the two writes of a first boot,
`RejectJournal`/`RollBack` are `rw_ota_reject_unhealthy`, called by `app_main` or
by the worker whose deadline (`Expire`) has passed. A write of the journal can
fail, with or without effect (`SaveFails`). Assumed: a selector is written at once. Its
CRC shows one that was cut off, but ESP-IDF erases the sector first, so power lost
between the two leaves that slot without a selector, and the next start in the other
slot; this is not modelled. An image is a model value with a release; digests and
signatures are assumed to tell images apart.

### Keyboard, Reservations and the code

| variables | code |
|---|---|
| `bus`, `wire`, `xfer`, `buf`, `host` | TinyUSB and the host: mounted or suspended, the pull-up, the endpoint, its buffer, the report the host believes in |
| `waiting`, `complete`, `neutral`, `expected`, `fresh`, `reenum` | the flags under `s_report_mux`; `fresh`: the snapshots that still equal `s_bus_epoch` |
| `hold`, `debt`, `wasActive`, `quiesced` | the holder of `s_lock` and its place, `s_need_release`, the recovery's memory, `s_quiesced` |
| `text`, `pressed`, `downs` | the chords asked for, how many were done, history: those the host took |
| `pin`, `pwrQuiesced` | the power button's output, `s_quiesced` of `power_btn.c` |
| `pc` | the relay's task, the updater's worker, the task that asks for maintenance |

`WaitReady`, `Claim`, `Arm`, `Submit`, `AwaitComplete` are the stretches of
`send_report` between which a callback or the host can act; every wait may also end
at its deadline. `RecoveryTake` to `RecoveryObserve` are `recovery_once`, `Detach` and
`Attach` its re-enumeration, `Quiesce*` `rw_hid_quiesce`. The host fetches a report, or
suspends, resets, unmounts, resumes whenever it likes. A reserver takes the power
button, then the keyboard, and gives them back in the order of the code when a
later step fails. Assumed: TinyUSB keeps the endpoint busy until the completion
callback has run and changes its state together with the mount and unmount
callbacks; a failed transfer that reports its full length cannot be told from a
good one; 2^32 bus events do not fall between two looks at the epoch; actions and
pulses come from the one relay task, and one task asks for maintenance; the build
has keyboard and power button. A reset of any other origin is `Crash`.

### DeviceStore and the code

| variables | code |
|---|---|
| `devId`, `devTok`, `ssid`, `pass`, `relay`, `slot` | the entries of the namespace `rw_cfg`; 0, `None`: not there |
| `default` | `CONFIG_RW_RELAY_URL` of the image that runs |
| `id`, `token`, `mode` | `s_device_id`, `s_device_token`, where `app_main` is, then `s_setup_mode` |
| `magic`, `softReset` | `s_boot_to_setup`, `esp_reset_reason()` |
| `http`, `rebooting`, `button` | the request in the handler task, `reboot_task`, `button_task` |
| `claimed` | the relay: the token of the first to connect under an id (`relay/src/device.ts:165`) |
| `promise`, `saved` | history: what `/pair` answered; the values each setting may have, which are what `/config` last answered OK to and what requests since then tried to store |
| `asked`, `torn` | history: a restart meant for setup mode; a reset torn between token and id |

One action per write to NVS; a write that fails may have had its effect, and
`ESP_ERROR_CHECK` makes a failed start a panic. RTC RAM holds anything after a
power loss; a start that panics for another reason (crypto, updater: `main.c:140`)
is such a step too, and loses a request for setup mode. A factory reset that is cut
off or fails may have erased any part. Every reset may bring up another image
(`BootImage`: an update, or the image before it), whose default relay is another;
`Migrate` erases an override equal to it.
`saved` is kept per entry: a request that begins adds its values, one that is answered
OK leaves only its own, a factory reset leaves none where it erased, and an image
whose default is the owner's relay adds "no override". So `SettingsKept` says that
nothing but these changes a setting.
Assumed: a read finds an entry or does not, and NVS calls are serialised.
A phone that claims the device at the relay uses what `/pair` answered, so
`Connect` stands for it as well. Counters are in `CommandProtocol` only.

## 3. What the runs check

| run | what it asks | states |
|---|---|---|
| `auth_limiter` | does the ring hold the last failures and lock when a sliding window would, also across a restart | 1.8 k |
| `command_tabs` | two tabs, abandoned runs, repeated delivery: no counter reused, execution in order | 367 k |
| `command_reset` | enrolment, a factory reset beside a verification that erases any part of flash, restore: no command under a new identity, the refinement of `CommandService` | 483 k |
| `command_two_phones` | two keys and two slots, enrolment interrupted, torn resets: one slot per key | 124 k |
| `command_clock` | offset clocks, overtaken and unknown-slot commands, failed writes, lost sessions: `ok` and refusals are true, and the lockout holds, also for the command in hand | 763 k |
| `link_shared` | all interleavings of the four tasks: ready means live, no stale command, the refinement of `LinkService`; then liveness of the network state and of the link | 766 k |
| `token_bucket` | does the limiter keep its rate in true time, bind before the pending cap, and starve no one, with the clock set back and put forward at any moment | 665 k |
| `device_object` | presence, keepalive, callers kept apart, the refinement of `CallService`; then liveness: every caller is settled and advice of a release keeps coming | 169 k |
| `updater` | power cut between any two writes: a whole image always boots, none below the floor, one trial for each image, the refinement of `TrialService`, trials end, an offer is checked | 37 k |
| `reservations` | host, actions, recovery, pulses and two kinds of restart in every interleaving: no key is forgotten, typing is exact, a restart is alone, a key does not stay down | 373 k |
| `device_store` | failed writes, power losses, torn resets, changes of the image: what `/pair` and `/config` answered holds, the relay accepts the token, setup mode as asked | 3.4 M |
| `claim_retry_safe` | the comment `fw/ota.c:135`, refuted (section 5) | - |

Bounds. `MaxCmds` 2 or 3 commands are enough for one to be overtaken by or
repeated after another; one factory reset gives two identities, or one with slots of
two eras; one restore suffices to fall behind; two tabs are the smallest race.
`command_clock` locks at the first failure (counting to a threshold is what
`auth_limiter` is for), and its clock is longer than the window and the lockout.
`command_tabs` and `command_clock` have no factory reset, `command_tabs` and
`command_reset` one slot (the slot that is changed or taken is in the others).
In `RelayLink`, three changes of the address
give lost-and-back with the same address, a change without a gap, and a flap
during recovery; session numbers up to 2 make every session reuse the
last-but-one number. Phones and tabs are symmetric; the run with liveness
properties uses no symmetry.

`DeviceObject` has two sockets (one takeover), two requests and
two ids (one id used again, and one in use), two registrations (one changed
during a fetch), a bucket of one token, and intervals of one and two ticks so
that one alarm is too early for a check and a later one is not. `token_bucket`
has a burst of two, a cap of two and a timeout that keep the proportions of the
code's 5, 8 and 20 s, time for more than two bursts, and two ticks each way for the clock.

`Updater` has four images of three releases, one release built twice, so that an
update can follow a failed one, the same release can be offered as another image, and both
slots are overwritten; the ring holds them all. Power losses and failed writes
are unbounded there. `Reservations` has texts of two chords (a gap needs two), one
with an unknown key, and two faults (bus events, failed transfers, requests to
restart): a report and its release can both be disturbed. `DeviceStore` has two
phones for one slot (so one is refused), two networks, two relays, two faults, one
factory reset and one change of the image: a mixture of two settings, a retry after a
failure, a new identity after a torn reset, and an override that becomes the default.

Deadlock is checked in every run: none of these systems stops. Counters are
capped in the guards by the constants named "bound".

Fairness. `RelayLink!FairSpec`: weak fairness of each firmware task, since
FreeRTOS runs every ready task and each waits with a timeout; and of the
WebSocket client finishing its connection when the relay is reachable over the
address it was started with, which is the assumption that the relay works.
Nothing is assumed of the access point, of events being delivered, or of a dead
connection being reported. `NetworkConverges` and `LinkRecovers` are
conditional on the address staying as it is from some time on.
`DeviceObject!FairSpec`: time passes; the response timer and the alarm fire,
as the runtime promises, and the keepalive frame of a socket that stays open is
sent; a fetch ends, since it is aborted after 5 s; and a catalog that is asked
again and again in the end serves the release. Nothing is assumed of the
device, which may never answer, nor of callers. `AdviceRepeats` is conditional on the
socket and its registration staying as they are from some time on.
`Updater!Spec`: `app_main` and the worker are scheduled, and the time of the next
check comes (`StartCheck`). `Reservations!Spec`: the steps of the holder of the lock,
the completion callback of a transfer the host took, the steps of a
reservation, and the restart it leads to are weakly fair; `RecoveryTake` is strongly fair, because the
recovery polls for the lock every 20 ms, and a refused `quiesce` waits 250 ms before it
asks again. Nothing is assumed of the host, which may never poll. `DeviceStore`
has safety properties only and no fairness.

## 4. What is proved

All proofs are checked by tlapm for every value of the constants that satisfies
the modules' named assumptions (finite or infinite sets of phones, any number of
slots, tabs, commands, restarts; any threshold and window). Eight modules hold
them.

`CommandProtocolProofs`. `IInv` is inductive: type correctness; the order of
`ran`; the mark in flash covers everything that has run (`MarkCoversRuns`); the
command in hand is authentic for the identity and slot the device still has,
unless it was erased (`TaskInv`); an accepted command is covered by the mark and
above everything run (`AcceptedInv`); a slot being written has run nothing
(`SetupInv`); identities are numbered in order (`IdentityInv`). The order alone
is not inductive: an accepted command that is not above the earlier runs would
break it, which `AcceptedInv` excludes; that one needs `MarkCoversRuns` at
`CheckAndPersist`. A factory reset may zero a mark: harmless if the identity goes with
it, hence `IdentityInv` (identities are never drawn twice); if it leaves the identity,
the slot enters a new era (`wiped`), and the order, the mark and the command in hand
are stated for one era. From
`IInv` follow `NoReplay`, `MarksDurable`, `OwnIdentity` and `Implementation` (every
step is a step of `CommandService` or a stutter). `KeyHasOneSlot` is inductive by
itself; `CountersUnique` rests on `CounterInv`, `LockoutSound` on `UnlockedInv`.
`AnswersTrue` needs more: ids are drawn once (`IdInv`, hence `IdsUnique`), or an
answer would be taken for another command's; and when nothing is delivered twice,
a command that has run or was refused is neither on its way nor in hand
(`OnceInv`), so what was said of it cannot become false. A repeated delivery is
refused as a replay although the first one ran, so the part about
refusals is stated for `Redeliver = FALSE` only; `ok` is true in any case. `internal`
is no refusal: it can also come from a handler that has pressed a key before it
failed, and the property claims nothing of it.

`AuthLimiterProofs`. `RingHoldsLast` is inductive (slot i holds the failure of
age `Age(i)`); with it, comparing the slot under the head with the window equals
`TooMany` of the abstract window, so the limiter implements `LockoutWindow`.

`RelayLinkProofs`. `IInv` is inductive: an unfailed session belongs to the
present network (`SessionFenced`), because failing is final for a session; while
the relay task serves, its session is the link's (`Serving`); nothing is left
between two clients (`NoClientLeft`), which is what makes reused session numbers
harmless; and every message of the live session came in after the last fence
(`MessagesFenced`). `NothingStaleRuns` and `ReadyIsLive` follow. `Implementation`
maps `LinkService` to the code: live is a valid session, and unread is what the
callback, the queue and the verification hold of it. That needs `InboxInv`: a
session that has not failed has client, queue and task to itself, and receives
nothing before it is connected. Every step of the four tasks is then a step of the
abstract link or none. `NoFrameTwice` is proved of the abstract link alone and
carried over: no more runs than frames sent, whatever is torn down meanwhile.

`RateLimiterProofs`. `Potential` bounds from above: for every grant, what has been
spent since, and what is left, was in the bucket then or refilled since, in true time
or by a clock put forward; a clock that goes back only loses refill. `RateBounded`
follows. `Credit` bounds from below: what was refilled since the last grant, less what
the clock was set back, is still there; `NoStarvation` follows.
`CapIsSpare` is `RateBounded`
with the assumption that burst and timeout together refill fewer than
`PendingCap + 1` requests, which the code's 5 tokens, 6 s, 20 s and 8 satisfy, for a
stretch in which the clock was not put forward.

`DeviceObjectProofs`. `IInv` falls into three parts that share no variable but
`gen` and are proved apart: sockets, presence and alarm; requests, ids and
timers; attachments and the fetch. `KeptAlive` needs `OneSocket`: a close event or
an alarm that finds no active socket may delete the alarm only because no other
socket speaks. `SupersededSilent` needs that a waiting request was sent on a
generation not above `gen`. `CallersIsolated` is inductive by itself because the answer
clears the timer with the wait. `Implementation` shows that
each handler is one step of `CallService`, where it says so by id and not by
request: the answer and the timer look up who waits, and `CallInv` makes that the
one caller the abstract step ends. `WaitsAlone` is proved of the abstract service
and carried over.

`UpdaterProofs`. `IInv`: the running slot holds an image and its selector is good
(`RunningInv`); the other slot is either a fallback, erased, or the candidate just
selected (`OtherInv`); who may be between two writes (`TaskInv`); and the floor is
not above the image that may boot (`FloorInv`, when `app_main` reports in time).
Everything a restart needs is stated of the selectors it finds (`BootSafe`,
`FloorSafe`), so all restarts are one lemma. `AlwaysBootable` needs that only a
confirmed image installs, because the slot it overwrites is the fallback.

`SingleTrial` is `TrialOnce` as long as the ring of failed images has room
(`RoomLeft`), and `FewImagesTriedOnce` derives the room from there being no more
images than places (`RoomForFailures`). The condition is needed: the ring forgets
the oldest of five failures (`RW_OTA_FAILED_HASHES`, `ota_journal.h:5`), and with
`FailedHashes = 1` TLC finds the first of two failing images tried again. `TrialInv` says that the journal knows every image that has run: it is settled (failed,
or not above the floor) or the candidate on trial (`Knows`); after a restart, until
`reconcile_boot`, the selectors still tell what the journal has to learn
(`MayLearn`). So what an installation is under way for has never run.
`Implementation` maps `TrialService` to the running image, the image a trial falls
back to (`Trusted`) and those that ever ran; it needs `FallbackInv`: what a trial
falls back to has run. It assumes that `app_main`
reports before the deadline (`SlowStart = FALSE`): otherwise an image that was just
confirmed can be rolled back (section 5), and TLC refutes the refinement too.
`TrustOnlyGrows` is a theorem of the abstract service: trust is never lost, and
passes to later releases only.

`ReservationsProofs`. `IInv`: where the holder is and for whom (`HolderInv`), the
relay's task (`RelayInv`), who has which reservation (`ReservationInv`), what the
flags of a report tell of buffer and host (`ReportInv`), and `NoStuckKey`. The
debt may be dropped only after a neutral report completed, and a late
completion is claimed only if it was the expected report: that is what
`ReportInv` keeps through every reset and timeout. Most steps send nothing
(`Calm`) and go to another place (`MovesInv`) or give the lock back (`EndsInv`).
`TypedInv` is inductive beside `IInv`: a press is sent only without a debt, hence with
nothing else in transfer (`NoStuckKey`), so all the host takes is the chord due;
`TypedAsAsked` follows.

`DeviceStoreProofs`. `IInv`: numbers drawn are new (`DrawsInv`), RAM agrees with flash
(`IdentityInv`), restarts and requests belong to their modes (`RestartInv`), and
what the request in hand has written (`RequestInv`). `PromiseKept` needs that
an enrolment never writes a slot that is taken; `RelayAccepts` that a drawn
identity is fresh, and stored before it is used; `SettingsKept` that the request in
hand writes only what it was given, and that nothing is migrated but a copy of the
default or the placeholder. A request changes no identity (`HttpFrame`),
a start happens with no request in hand (`BootFrame`).

The runs do not check the inductive invariants that are proved (`IInv` of each module,
`AnswerInv`, `TrialInv`, `FallbackInv`, `InboxInv`): they were, before they were proved,
and an INVARIANTS line brings them back. The mutants stand for the properties.

Only model-checked: the liveness properties `NetworkConverges`, `LinkRecovers`,
`RequestsSettle`, `AdviceRepeats`, `TrialEnds`, `OfferChecked` and `KeyIsLetGo`
(fairness and ENABLED are out of the prover's reach). Every safety invariant, action
property and refinement that a passing run checks is proved, with the
conditions named above for those of the updater.

## 5. Where the code and its words differ

- `claim_retry_safe`: `reconcile_boot` tells a candidate that failed from one that
  was never booted by the selector of its slot (`fw/ota.c:132`). What an earlier
  rejected release left there condemns a later one whose journal was saved but
  whose boot selection never happened; `ota.c:135` calls that retry safe.

Noted without a run, about commands: `app/src/commands.js:114` and
`app/README.md:107` have the app catch up after a `replay` answer, but the firmware
never sends `lastCtr`. A new key can start above counter 0 (`fw/config.c:479`) when a
counter write lands after the erasure and the enrolment's second write then
fails. A command whose verification straddles a factory reset is compared with an
erased mark (`docs/protocol.md:74`) and runs under the old identity or none, in the half
second before the restart; `strays` keeps these apart. A factory reset that fails
or is cut off, which `fw/main.c:88` does not notice, can erase a slot's counter and
leave its key and the identity: the mark then reads 0 (`fw/config.c:538`) and
envelopes that have run are accepted again, against `docs/security.md:40` ("a power
loss can only skip counters, never allow reuse"); it can as well leave the very key
it was meant to remove (`docs/security.md:61`). `CommandService` allows a new
era after such a reset and after nothing else. A takeover seen before the
serving loop is retried after the current backoff (`fw/relay_client.c:990`).

About updates: `rw_ota_reject_unhealthy` reads `boot_pending()` before it takes
`s_control` (`ota.c:370`), so a confirmation that comes as the deadline passes can
be followed by a rollback below its own floor; `FloorHolds` holds for
`SlowStart = FALSE` and TLC refutes it for `TRUE`. A device without Wi-Fi credentials
in normal mode never confirms (`fw/main.c:187`), so its trial ends. The ring
forgets the first of five failing images. The relay migration of a trial boot
erases an override that equals the candidate's default (`config.c:113`), which
the image rolled back to then no longer has (`docs/updates.md:153`); `SettingsKept`
names it as the one migration that drops an owner's choice.

About the store: a request to `/config` that fails has by then replaced part of what
an earlier one was answered OK to, and an SSID without its passphrase counts as
provisioned (`fw/config.c:572`); a reset torn between token and id
makes the relay refuse the device for good (`torn`); any read error of the
identity draws a new one (`config.c:128`).

About the relay: a clock put forward refills the bucket for time that has not passed
(`relay/src/ratelimit.ts:40`), so an honest phone can then meet `too_many_pending`
(`CapNeverBinds` excepts it). A close event that comes when the device is offline already
dates it offline once more, and a reset leaves the old date (`relay/src/device.ts:307`,
against "last online/offline transition", `docs/protocol.md:151`; `since` here only
says which transition is dated). `RW_ERR_REPLAY` counts towards the lockout
(`fw/relay_client.c:572`), so a phone restored from a backup can lock the device; the
comment above it speaks of signature and identity failures.

## 6. Not modelled

- Wi-Fi recovery policy (`wifi_recovery.c`): a function of three deadlines with
  host tests; what it does to the link, a disconnect and a lease, is in `RelayLink`.
- The classifier of the PC's power LED (`pc_power.c`, `pc_sense.c`): it only reports.
- The app's presence poller, device records and capability cache (`app.js`), beyond
  what commands are signed with; the hazard at `app.js:155` has no property.
- The device object is not composed with phone and device; `CommandProtocol` has a
  network that loses, repeats and reorders, which is weaker than the object.
- Reassembly of fragmented frames, allocation failures, HTTP of the downloads,
  manifest and catalog parsing, the image scan.
- Read errors of NVS, key names, `rw_config_remove_slot` (no caller), the softAP and
  its password, captive DNS, `/info` and the setup page.
- Cryptography and encodings (assumed), views, LED, offline cache, build tools.
  Deleting the phone's data (`wipeAll`) makes a new key, which is another phone in
  these models.
