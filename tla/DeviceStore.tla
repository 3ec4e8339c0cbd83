----------------------------- MODULE DeviceStore -----------------------------
(***************************************************************************)
(* What the device keeps in NVS (config.c), what setup mode tells the      *)
(* phone of it (provisioning.c), and what a start makes of it (main.c).    *)
(* Every entry of NVS is written by itself; power can be lost between any  *)
(* two writes, a write can fail with or without effect, the button's task  *)
(* erases everything while a request is being handled, and any restart may *)
(* bring up another image, whose default relay is another.                 *)
(*                                                                         *)
(* Command counters are in CommandProtocol.  Reading an entry finds it or  *)
(* does not; NVS serialises its calls.                                     *)
(***************************************************************************)
EXTENDS Naturals

CONSTANTS
  Phones,     \* keys that may be enrolled
  Networks,   \* Wi-Fi networks, each an SSID with its passphrase
  Relays,     \* base URLs of relays
  Placeholder,\* the documentation's URL, never a relay
  None,
  NumKids,    \* RW_MAX_KEY_SLOTS
  MaxFaults,  \* bound: failed writes, panics and power losses
  MaxResets,  \* bound: factory resets
  MaxImages   \* bound: restarts that bring up an image with another default

ASSUME DeviceStoreAssumption ==
  /\ None \notin Phones \cup Networks \cup Relays \cup {Placeholder}
  /\ Placeholder \notin Relays
  /\ NumKids \in Nat /\ MaxFaults \in Nat /\ MaxResets \in Nat /\ MaxImages \in Nat

Kids == 1..NumKids

VARIABLES
  \* --- NVS, namespace rw_cfg; 0 and None: no such entry
  devId, devTok,   \* numbered as they are drawn
  ssid, pass,      \* of which network
  relay,           \* the override, or what older setup pages saved
  slot,
  \* --- the image that runs
  default,         \* CONFIG_RW_RELAY_URL
  \* --- RAM, and RTC memory
  id, token,       \* s_device_id, s_device_token; 0: s_ready is false
  mode,            \* the step of app_main(), then "setup" or "normal"
  magic,           \* s_boot_to_setup = SETUP_MAGIC
  softReset,       \* esp_reset_reason() = ESP_RST_SW
  http,            \* the request in the one handler task
  rebooting,       \* /finish: reboot_task() runs
  button,          \* button_task()
  \* --- history
  claimed,         \* the relay: <<device id, token>> of the first to connect
  promise,         \* what /pair answered each phone, while it should hold
  saved,           \* the values each setting may have: what /config answered OK
                   \* to last, and what requests since then tried to store
  asked,           \* the restart under way is one into setup mode
  torn,            \* an erasure took the token and left the id
  draws, faults, resets, images

nvs     == <<devId, devTok, ssid, pass, relay, slot>>
image   == <<default, images>>
ram     == <<id, token, mode, magic, softReset, http, rebooting, button>>
history == <<claimed, promise, saved, asked, torn>>
vars    == <<nvs, image, ram, history, draws, faults, resets>>

Idle      == [op |-> "none", at |-> "-", net |-> None, relay |-> None,
              key |-> None, kid |-> 0]
NoPromise == [id |-> 0, tok |-> 0, kid |-> 0]

Fault == faults < MaxFaults /\ faults' = faults + 1

-----------------------------------------------------------------------------
(* Resets *)

\* The bootloader starts the image it started before, or another: an update, or
\* the one before an update that failed.
BootImage == \/ UNCHANGED image
             \/ /\ images < MaxImages /\ images' = images + 1
                /\ default' \in Relays \ {default}

\* RAM is lost; RTC memory keeps the request for setup only through esp_restart().
Reset(soft) ==
  /\ BootImage
  /\ mode' = "id" /\ id' = 0 /\ token' = 0 /\ softReset' = soft
  /\ http' = Idle /\ rebooting' = FALSE /\ button' = "idle"

\* Also any panic: of a start whose NVS, crypto or updater does not come up
\* (main.c:138-141), or later.
PowerLoss == /\ Fault /\ Reset(FALSE) /\ magic' \in BOOLEAN
             /\ asked' = FALSE
             /\ UNCHANGED <<nvs, claimed, promise, saved, torn, draws, resets>>

\* A start that cannot go on: ESP_ERROR_CHECK() ends in a panic.
Panic == Reset(FALSE) /\ asked' = FALSE /\ UNCHANGED magic

-----------------------------------------------------------------------------
(* The start: app_main() *)

drawFrame == <<ssid, pass, slot, claimed, promise, saved, torn, resets>>
bootFrame == <<drawFrame, image, http, rebooting, button>>

\* Mutant: a token that could not be stored is used all the same.
DrawTokenUnstored ==
  /\ mode = "token" /\ devTok = 0
  /\ draws' = draws + 1 /\ token' = draws' /\ mode' = "migrate"
  /\ \/ devTok' = draws' /\ UNCHANGED faults
     \/ Fault /\ devTok' \in {devTok, draws'}
  /\ UNCHANGED <<bootFrame, devId, relay, id, magic, softReset, asked>>

\* ensure_identity(): an entry that is there is taken, one that is not is drawn
\* and stored before anything uses it.
FindId == /\ mode = "id" /\ devId # 0
          /\ id' = devId /\ mode' = "token"
          /\ UNCHANGED <<bootFrame, devId, devTok, relay, token, magic, softReset,
                         asked, draws, faults>>

DrawId ==
  /\ mode = "id" /\ devId = 0
  /\ draws' = draws + 1
  /\ \/ /\ devId' = draws' /\ id' = draws' /\ mode' = "token"
        /\ UNCHANGED <<image, token, magic, softReset, asked, http, rebooting, button,
                       faults>>
     \/ Fault /\ devId' \in {devId, draws'} /\ Panic
  /\ UNCHANGED <<drawFrame, devTok, relay>>

FindToken == /\ mode = "token" /\ devTok # 0
             /\ token' = devTok /\ mode' = "migrate"
             /\ UNCHANGED <<bootFrame, devId, devTok, relay, id, magic, softReset,
                            asked, draws, faults>>

DrawToken ==
  /\ mode = "token" /\ devTok = 0
  /\ draws' = draws + 1
  /\ \/ /\ devTok' = draws' /\ token' = draws' /\ mode' = "migrate"
        /\ UNCHANGED <<image, id, magic, softReset, asked, http, rebooting, button,
                       faults>>
     \/ Fault /\ devTok' \in {devTok, draws'} /\ Panic
  /\ UNCHANGED <<drawFrame, devId, relay>>

\* Mutant: any stored relay is taken for a leftover.
LeftoverAny(r) == r # None
\* What older setup pages saved without being asked: the placeholder, or a copy
\* of the default of the image that runs now.
Leftover(r) == r \in {default, Placeholder}

\* The owner's relay no longer needs an entry once an image has it as default.
Superseded(relays) ==
  IF relays \cap {default, Placeholder} # {} THEN relays \cup {None} ELSE relays

\* migrate_relay_override(); its failure is only logged.
Migrate ==
  /\ mode = "migrate" /\ mode' = "mode"
  /\ IF Leftover(relay) THEN \/ relay' = None /\ UNCHANGED faults
                             \/ Fault /\ relay' \in {relay, None}
                        ELSE UNCHANGED <<relay, faults>>
  /\ saved' = [saved EXCEPT !.relays = Superseded(@)]
  /\ UNCHANGED <<image, http, rebooting, button, ssid, pass, slot, claimed, promise,
                 torn, resets, devId, devTok, id, token, magic, softReset, asked, draws>>

\* Mutant: the flag in RTC memory is believed after any reset.
RequestedByMagic == magic
Requested == softReset /\ magic

\* rw_config_is_provisioned(); there is always a relay, the default at least.
Provisioned == ssid # None /\ \E k \in Kids : slot[k] # None

ChooseMode ==
  /\ mode = "mode"
  /\ magic' = FALSE /\ asked' = FALSE /\ softReset' = FALSE  \* not read again
  /\ mode' = IF Requested \/ ~Provisioned THEN "setup" ELSE "normal"
  /\ UNCHANGED <<bootFrame, devId, devTok, relay, id, token, draws, faults>>

Start == FindId \/ DrawId \/ FindToken \/ DrawToken \/ Migrate \/ ChooseMode

-----------------------------------------------------------------------------
(* Setup mode: one request at a time *)

httpFrame == <<image, id, token, mode, magic, softReset, button, claimed, asked,
               torn, draws, resets>>
At(op, at) == http.op = op /\ http.at = at
Step(at) == http' = [http EXCEPT !.at = at]
Answered == http' = Idle

\* /config: a network, and a relay unless the stored one is to stay (None)
RelayArgs == Relays \cup {Placeholder, None}

\* rw_config_set_relay_url(): the default is stored as no override.
Stored(r) == IF r = default THEN None ELSE r

\* What the request would store in the entry of the relay; nothing when it keeps
\* the one there is or gives the placeholder, which is refused.
Wanted(r) == IF r \in {None, Placeholder} THEN {} ELSE {Stored(r)}

Config == /\ mode = "setup" /\ http = Idle
          /\ \E n \in Networks, r \in RelayArgs :
               /\ http' = [Idle EXCEPT !.op = "config", !.at = "ssid", !.net = n,
                                       !.relay = r]
               /\ saved' = [nets |-> saved.nets \cup {n},
                            relays |-> saved.relays \cup Wanted(r)]
          /\ UNCHANGED <<nvs, rebooting, httpFrame, promise, faults>>

configFrame == <<devId, devTok, slot, rebooting, httpFrame, promise>>

ConfigSsid == /\ At("config", "ssid")
              /\ \/ ssid' = http.net /\ Step("pass") /\ UNCHANGED faults
                 \/ Fault /\ ssid' \in {ssid, http.net} /\ Answered
              /\ UNCHANGED <<pass, relay, saved, configFrame>>

ConfigPass == /\ At("config", "pass")
              /\ \/ pass' = http.net /\ Step("relay") /\ UNCHANGED faults
                 \/ Fault /\ pass' \in {pass, http.net} /\ Answered
              /\ UNCHANGED <<ssid, relay, saved, configFrame>>

ConfigRelay ==
  /\ At("config", "relay")
  /\ \/ http.relay = None /\ Step("answer") /\ UNCHANGED <<relay, faults>>
     \/ http.relay = Placeholder /\ Answered /\ UNCHANGED <<relay, faults>>
     \/ /\ http.relay \in Relays
        /\ \/ relay' = Stored(http.relay) /\ Step("answer") /\ UNCHANGED faults
           \/ Fault /\ relay' \in {relay, Stored(http.relay)} /\ Answered
  /\ UNCHANGED <<ssid, pass, saved, configFrame>>

\* From now on what was answered OK to is what is stored, unless a factory reset
\* has begun.
ConfigAnswer ==
  /\ At("config", "answer") /\ Answered
  /\ saved' = IF button = "idle"
              THEN [nets |-> {http.net},
                    relays |-> IF http.relay = None THEN saved.relays
                                                    ELSE Wanted(http.relay)]
              ELSE saved
  /\ UNCHANGED <<ssid, pass, relay, faults, configFrame>>

\* /pair
Pair == /\ mode = "setup" /\ http = Idle
        /\ \E p \in Phones : http' = [Idle EXCEPT !.op = "pair", !.at = "scan", !.key = p]
        /\ UNCHANGED <<nvs, rebooting, httpFrame, promise, saved, faults>>

pairFrame == <<devId, devTok, ssid, pass, relay, rebooting, httpFrame, saved>>

\* Mutant: the first slot is free for whoever comes.
FreeKidsAny == Kids
FreeKids == {k \in Kids : slot[k] = None}
\* rw_config_add_key(): the slot the key has, or else the first that is free.
PairScan ==
  /\ At("pair", "scan")
  /\ \/ \E k \in Kids : slot[k] = http.key /\ (\A l \in Kids : slot[l] = http.key => k <= l)
          /\ http' = [http EXCEPT !.at = "answer", !.kid = k]
     \/ \E k \in FreeKids : (\A l \in FreeKids : k <= l) /\ (\A l \in Kids : slot[l] # http.key)
          /\ http' = [http EXCEPT !.at = "key", !.kid = k]
     \/ FreeKids = {} /\ (\A l \in Kids : slot[l] # http.key) /\ Answered  \* no_free_slot
  /\ UNCHANGED <<slot, promise, faults, pairFrame>>

PairKey == /\ At("pair", "key")
           /\ LET next == [slot EXCEPT ![http.kid] = http.key]
              IN  \/ slot' = next /\ Step("counter") /\ UNCHANGED faults
                  \/ Fault /\ slot' \in {slot, next} /\ Answered
           /\ UNCHANGED <<promise, pairFrame>>

PairCounter == /\ At("pair", "counter")
               /\ \/ Step("answer") /\ UNCHANGED faults
                  \/ Fault /\ Answered
               /\ UNCHANGED <<slot, promise, pairFrame>>

PairAnswer ==
  /\ At("pair", "answer") /\ Answered
  /\ promise' = IF button = "idle"
                THEN [promise EXCEPT ![http.key] = [id |-> id, tok |-> token, kid |-> http.kid]]
                ELSE promise
  /\ UNCHANGED <<slot, faults, pairFrame>>

\* /finish answers, then a task restarts the device; it may not be created.
Finish == /\ mode = "setup" /\ http = Idle /\ ~rebooting
          /\ rebooting' = TRUE
          /\ UNCHANGED <<nvs, http, httpFrame, promise, saved, faults>>

FinishRestart ==
  /\ rebooting /\ Reset(TRUE)
  /\ UNCHANGED <<nvs, magic, history, draws, faults, resets>>

Setup == Config \/ ConfigSsid \/ ConfigPass \/ ConfigRelay \/ ConfigAnswer
         \/ Pair \/ PairScan \/ PairKey \/ PairCounter \/ PairAnswer
         \/ Finish \/ FinishRestart

-----------------------------------------------------------------------------
(* Normal mode, and the button *)

Serving == {"setup", "normal"}

\* The relay keeps the token of the first to connect under a device id.
Connect == /\ mode = "normal" /\ id # 0
           /\ ~\E c \in claimed : c[1] = id
           /\ claimed' = claimed \cup {<<id, token>>}
           /\ UNCHANGED <<nvs, image, ram, promise, saved, asked, torn, draws, faults,
                          resets>>

\* The updater restarts into what it installed (ota.c:341), and the relay task
\* when it cannot have a watchdog (relay_client.c:854).
UpdateRestart ==
  /\ mode = "normal" /\ Reset(TRUE)
  /\ UNCHANGED <<nvs, magic, history, draws, faults, resets>>

buttonFrame == <<image, http, rebooting, claimed, draws>>

\* Held for 5 s and let go: reboot_into_setup()
RequestSetup ==
  /\ mode = "normal" /\ button = "idle"
  /\ magic' = TRUE /\ asked' = TRUE /\ button' = "restart"
  /\ UNCHANGED <<nvs, id, token, mode, softReset, promise, saved, torn, faults, resets,
                 buttonFrame>>

\* Held for 15 s: rw_config_factory_reset().  What the erasure has reached when
\* it fails, or the power does, is anyone's guess; if NVS cannot be opened it
\* returns at once (config.c:594).  A request in hand writes on.
Entries == {"id", "token", "ssid", "pass", "relay"}
Left(values, gone, pending) == {None} \cup (IF gone THEN pending ELSE values)
Erase ==
  /\ mode \in Serving /\ button = "idle" /\ resets < MaxResets
  /\ \E gone \in SUBSET Entries, keys \in SUBSET Kids :
       /\ IF gone = Entries /\ keys = Kids THEN UNCHANGED faults ELSE Fault
       /\ devId' = IF "id" \in gone THEN 0 ELSE devId
       /\ devTok' = IF "token" \in gone THEN 0 ELSE devTok
       /\ ssid' = IF "ssid" \in gone THEN None ELSE ssid
       /\ pass' = IF "pass" \in gone THEN None ELSE pass
       /\ relay' = IF "relay" \in gone THEN None ELSE relay
       /\ slot' = [k \in Kids |-> IF k \in keys THEN None ELSE slot[k]]
       /\ torn' = ("id" \notin gone /\ (torn \/ "token" \in gone))
       /\ saved' = [nets |-> Left(saved.nets, {"ssid", "pass"} \subseteq gone,
                                  IF http.op = "config" THEN {http.net} ELSE {}),
                    relays |-> Left(saved.relays, "relay" \in gone, Wanted(http.relay))]
       /\ \/ button' = "erased"
          \/ gone = {} /\ keys = {} /\ button' = "restart"
  /\ resets' = resets + 1
  /\ promise' = [p \in Phones |-> NoPromise]
  /\ UNCHANGED <<id, token, mode, magic, softReset, asked, buttonFrame>>

ForgetIdentity ==
  /\ button = "erased" /\ button' = "restart"
  /\ id' = 0 /\ token' = 0
  /\ UNCHANGED <<nvs, mode, magic, softReset, promise, saved, asked, torn, faults, resets,
                 buttonFrame>>

ButtonRestart ==
  /\ button = "restart" /\ Reset(TRUE)
  /\ UNCHANGED <<nvs, magic, history, draws, faults, resets>>

Button == RequestSetup \/ Erase \/ ForgetIdentity \/ ButtonRestart

-----------------------------------------------------------------------------

\* A device as it was flashed, or with what older firmware has stored.
Init ==
  /\ devId = 0 /\ devTok = 0 /\ ssid = None /\ pass = None
  /\ default \in Relays /\ relay \in Relays \cup {Placeholder, None}
  /\ slot = [k \in Kids |-> None]
  /\ id = 0 /\ token = 0 /\ mode = "id" /\ magic \in BOOLEAN /\ softReset = FALSE
  /\ http = Idle /\ rebooting = FALSE /\ button = "idle"
  /\ claimed = {} /\ promise = [p \in Phones |-> NoPromise]
  /\ saved = [nets |-> {None}, relays |-> {relay}]
  /\ asked = FALSE /\ torn = FALSE
  /\ draws = 0 /\ faults = 0 /\ resets = 0 /\ images = 0

Next == Start \/ Setup \/ Connect \/ UpdateRestart \/ Button \/ PowerLoss

Spec == Init /\ [][Next]_vars

-----------------------------------------------------------------------------
(* What the device owes its owner *)

Booting == {"id", "token", "migrate", "mode"}

Requests == [op : {"none", "config", "pair"},
             at : {"-", "ssid", "pass", "relay", "answer", "scan", "key", "counter"},
             net : Networks \cup {None}, relay : RelayArgs,
             key : Phones \cup {None}, kid : Kids \cup {0}]
Answers  == [id : Nat, tok : Nat, kid : Kids \cup {0}]
Settings == [nets : SUBSET (Networks \cup {None}),
             relays : SUBSET (Relays \cup {Placeholder, None})]

\* The types of the device's state.
TypeOK ==
  /\ devId \in Nat /\ devTok \in Nat /\ id \in Nat /\ token \in Nat
  /\ ssid \in Networks \cup {None} /\ pass \in Networks \cup {None}
  /\ default \in Relays /\ relay \in Relays \cup {Placeholder, None}
  /\ slot \in [Kids -> Phones \cup {None}]
  /\ mode \in Booting \cup Serving /\ button \in {"idle", "erased", "restart"}
  /\ magic \in BOOLEAN /\ softReset \in BOOLEAN /\ rebooting \in BOOLEAN
  /\ asked \in BOOLEAN /\ torn \in BOOLEAN
  /\ http \in Requests /\ saved \in Settings
  /\ promise \in [Phones -> Answers]
  /\ claimed \subseteq Nat \X Nat /\ draws \in Nat

\* What is drawn is new.
DrawsInv ==
  /\ devId <= draws /\ devTok <= draws /\ id <= draws /\ token <= draws
  /\ \A c \in claimed : c[1] # 0 /\ c[1] <= draws /\ c[2] # 0

\* RAM agrees with flash until a factory reset begins; after that only an
\* identity that outlived its token disagrees.
IdentityInv ==
  /\ mode = "token" => id # 0 /\ id = devId
  /\ mode \in {"migrate", "mode"} \/ (mode \in Serving /\ button = "idle") =>
       id # 0 /\ token # 0 /\ id = devId /\ token = devTok
  /\ mode \in Serving /\ id # 0 =>
       token # 0 /\ (~torn /\ devId = id => devTok = token)

\* Requests and restarts belong to the modes that make them, and the request
\* for setup mode to the restart that honours it.
RestartInv ==
  /\ mode # "setup" => http = Idle /\ ~rebooting
  /\ mode \in Booting => button = "idle"
  /\ asked => /\ magic
              /\ mode \in Booting => softReset
              /\ mode \in Serving => button = "restart"
  /\ magic /\ (mode \in Serving \/ softReset) => asked

\* What the request in hand has written so far.
RequestInv ==
  /\ \A p \in Phones : promise[p] # NoPromise =>
       promise[p].id # 0 /\ promise[p].tok # 0 /\ promise[p].kid \in Kids
  /\ http.op = "config" =>
       /\ http.net \in saved.nets /\ Wanted(http.relay) \subseteq saved.relays
       /\ http.at \in {"pass", "relay", "answer"} /\ button = "idle" => ssid = http.net
       /\ http.at \in {"relay", "answer"} /\ button = "idle" => pass = http.net
       /\ http.at = "answer" => http.relay # Placeholder
       /\ http.at = "answer" /\ http.relay # None /\ button = "idle" =>
            relay = Stored(http.relay)
  /\ http.op = "pair" =>
       /\ http.key \in Phones
       /\ http.at # "scan" => http.kid \in Kids
       /\ http.at = "key" => slot[http.kid] = None
       /\ http.at \in {"counter", "answer"} /\ button = "idle" => slot[http.kid] = http.key

\* What /pair told a phone (identity, token and slot) is what flash holds, across
\* power losses, failed writes and restarts, until a factory reset begins.
PromiseKept ==
  \A p \in Phones : promise[p] # NoPromise =>
    /\ promise[p].id = devId /\ promise[p].tok = devTok
    /\ slot[promise[p].kid] = p

\* The settings stored are those /config last answered OK to, or what a later
\* request, not answered OK, has put in their place entry by entry; nothing else
\* changes them but a factory reset and, for the relay, an image that has the
\* owner's choice as its default and drops the override (config.c:113; whether
\* it is rolled back afterwards or not).
SettingsKept ==
  /\ ssid \in saved.nets /\ pass \in saved.nets
  /\ relay \in saved.relays

\* The relay accepts the token the device has for its identity, unless a factory
\* reset was torn between the two (config.c:597).
RelayAccepts ==
  ~torn => \A c \in claimed : c[1] = devId => c[2] = devTok

\* The inductive invariant: what is above, together.
IInv == TypeOK /\ DrawsInv /\ IdentityInv /\ RestartInv /\ RequestInv
        /\ PromiseKept /\ SettingsKept /\ RelayAccepts

\* A start goes into setup mode when the button asked for it and power was not
\* lost since, and never on its own once /config and /pair have answered OK,
\* whatever later requests failed at, until a factory reset.
ModeAsAsked ==
  [][mode = "mode" /\ mode' \in {"setup", "normal"} =>
       /\ asked => mode' = "setup"
       /\ mode' = "setup" => \/ asked \/ None \in saved.nets
                             \/ \A p \in Phones : promise[p] = NoPromise]_vars
=============================================================================
