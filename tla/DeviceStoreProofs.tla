-------------------------- MODULE DeviceStoreProofs --------------------------
(***************************************************************************)
(* Proofs about what the device keeps, for any phones, networks, relays,   *)
(* slots and number of faults, resets and images: what setup mode promised *)
(* is kept, the relay and the device agree on the token, and a start goes  *)
(* where it was asked to.  IInv is inductive; the requests in setup mode   *)
(* change little of it (HttpFrame), the steps of a start change nothing a  *)
(* request could be in the middle of (BootFrame).                          *)
(***************************************************************************)
EXTENDS DeviceStore, TLAPS

\* TypeOK in two: what is on or off, and everything else.
Switches == /\ magic \in BOOLEAN /\ softReset \in BOOLEAN /\ rebooting \in BOOLEAN
            /\ asked \in BOOLEAN /\ torn \in BOOLEAN

Kinds ==
  /\ devId \in Nat /\ devTok \in Nat /\ id \in Nat /\ token \in Nat
  /\ ssid \in Networks \cup {None} /\ pass \in Networks \cup {None}
  /\ default \in Relays /\ relay \in Relays \cup {Placeholder, None}
  /\ slot \in [Kids -> Phones \cup {None}]
  /\ mode \in Booting \cup Serving /\ button \in {"idle", "erased", "restart"}
  /\ http \in Requests /\ saved \in Settings
  /\ promise \in [Phones -> Answers]
  /\ claimed \subseteq Nat \X Nat /\ draws \in Nat

LEMMA TypeParts == TypeOK <=> Switches /\ Kinds
BY DEF TypeOK, Switches, Kinds

LEMMA Parts ==
  ASSUME Switches', Kinds', DrawsInv', IdentityInv', RestartInv', RequestInv',
         PromiseKept', SettingsKept', RelayAccepts'
  PROVE  IInv'
BY DEF IInv, TypeOK, Switches, Kinds

LEMMA IdleType ==
  /\ Idle \in Requests /\ Idle.op = "none" /\ Idle.relay = None /\ NoPromise \in Answers
BY DEF Idle, Requests, RelayArgs, NoPromise, Answers

LEMMA SettingsType ==
  ASSUME NEW nets \in SUBSET (Networks \cup {None}),
         NEW relays \in SUBSET (Relays \cup {Placeholder, None})
  PROVE  [nets |-> nets, relays |-> relays] \in Settings
BY DEF Settings

LEMMA WantedType ==
  ASSUME NEW r \in RelayArgs, default \in Relays
  PROVE  /\ Wanted(r) \subseteq Relays \cup {None}
         /\ r \in Relays => Wanted(r) = {Stored(r)}
         /\ r \in {None, Placeholder} => Wanted(r) = {}
BY DeviceStoreAssumption DEF Wanted, Stored, RelayArgs

-----------------------------------------------------------------------------
(* Requests in setup mode *)

LEMMA HttpFrame ==
  ASSUME IInv, UNCHANGED <<httpFrame, devId, devTok>>, mode = "setup"
  PROVE  DrawsInv' /\ IdentityInv' /\ RestartInv' /\ RelayAccepts'
<1>1. DrawsInv'
  BY DEF IInv, DrawsInv, httpFrame
<1>2. IdentityInv'
  BY DEF IInv, IdentityInv, httpFrame
<1>3. RestartInv'
  BY DEF IInv, RestartInv, httpFrame, Booting
<1>4. RelayAccepts'
  BY DEF IInv, RelayAccepts, httpFrame
<1> QED BY <1>1, <1>2, <1>3, <1>4

LEMMA ConfigInv ==
  ASSUME IInv, Config
  PROVE  IInv'
<1> USE DEF Config, nvs, image, configFrame, pairFrame, At, Step, Answered, Fault
<1>1. mode = "setup"
  BY IdleType DEF IInv, RestartInv, At
<1>2. DrawsInv' /\ IdentityInv' /\ RestartInv' /\ RelayAccepts'
  BY <1>1, HttpFrame
<1>3. Switches'
  BY Zenon DEF Switches, IInv, TypeOK, httpFrame
<1>4. Kinds'
  <2>1. PICK n \in Networks, r \in RelayArgs :
          /\ http' = [Idle EXCEPT !.op = "config", !.at = "ssid", !.net = n, !.relay = r]
          /\ saved' = [nets |-> saved.nets \cup {n},
                       relays |-> saved.relays \cup Wanted(r)]
    OBVIOUS
  <2>2. saved \in Settings /\ Wanted(r) \subseteq Relays \cup {None}
    BY WantedType, TypeParts DEF IInv, Kinds
  <2>3. saved' \in Settings
    BY <2>1, <2>2, SettingsType DEF Settings
  <2>4. http' \in Requests
    BY <2>1, IdleType DEF Requests
  <2> QED BY <2>3, <2>4, TypeParts DEF Kinds, IInv, httpFrame
<1>5. RequestInv'
  BY IdleType, TypeParts DEF IInv, RequestInv, Kinds, Requests, httpFrame, Wanted, Stored
<1>6. PromiseKept'
  BY TypeParts DEF IInv, PromiseKept, RequestInv, Kinds
<1>7. SettingsKept'
  BY IdleType DEF IInv, SettingsKept, RequestInv
<1> QED BY <1>1, <1>2, <1>3, <1>4, <1>5, <1>6, <1>7, Parts

LEMMA ConfigSsidInv ==
  ASSUME IInv, ConfigSsid
  PROVE  IInv'
<1> USE DEF ConfigSsid, nvs, image, configFrame, pairFrame, At, Step, Answered, Fault
<1>1. mode = "setup"
  BY IdleType DEF IInv, RestartInv, At
<1>2. DrawsInv' /\ IdentityInv' /\ RestartInv' /\ RelayAccepts'
  BY <1>1, HttpFrame
<1>3. Switches'
  BY Zenon DEF Switches, IInv, TypeOK, httpFrame
<1>4. Kinds'
  BY IdleType, TypeParts DEF Kinds, IInv, httpFrame, Requests, RelayArgs
<1>5. RequestInv'
  BY IdleType, TypeParts DEF IInv, RequestInv, Kinds, Requests, httpFrame, Wanted, Stored
<1>6. PromiseKept'
  BY TypeParts DEF IInv, PromiseKept, RequestInv, Kinds
<1>7. SettingsKept'
  BY IdleType DEF IInv, SettingsKept, RequestInv
<1> QED BY <1>1, <1>2, <1>3, <1>4, <1>5, <1>6, <1>7, Parts

LEMMA ConfigPassInv ==
  ASSUME IInv, ConfigPass
  PROVE  IInv'
<1> USE DEF ConfigPass, nvs, image, configFrame, pairFrame, At, Step, Answered, Fault
<1>1. mode = "setup"
  BY IdleType DEF IInv, RestartInv, At
<1>2. DrawsInv' /\ IdentityInv' /\ RestartInv' /\ RelayAccepts'
  BY <1>1, HttpFrame
<1>3. Switches'
  BY Zenon DEF Switches, IInv, TypeOK, httpFrame
<1>4. Kinds'
  BY IdleType, TypeParts DEF Kinds, IInv, httpFrame, Requests, RelayArgs
<1>5. RequestInv'
  BY IdleType, TypeParts DEF IInv, RequestInv, Kinds, Requests, httpFrame, Wanted, Stored
<1>6. PromiseKept'
  BY TypeParts DEF IInv, PromiseKept, RequestInv, Kinds
<1>7. SettingsKept'
  BY IdleType DEF IInv, SettingsKept, RequestInv
<1> QED BY <1>1, <1>2, <1>3, <1>4, <1>5, <1>6, <1>7, Parts

LEMMA ConfigRelayInv ==
  ASSUME IInv, ConfigRelay
  PROVE  IInv'
<1> USE DEF ConfigRelay, nvs, image, configFrame, pairFrame, At, Step, Answered, Fault, Stored
<1>a. http \in Requests /\ http.relay \in RelayArgs /\ http.op = "config"
      /\ default \in Relays /\ default' = default
  BY TypeParts DEF IInv, Kinds, Requests, httpFrame
<1>b. http.relay \in Relays => Stored(http.relay) \in saved.relays
  BY <1>a, WantedType DEF IInv, RequestInv
<1>1. mode = "setup"
  BY IdleType DEF IInv, RestartInv, At
<1>2. DrawsInv' /\ IdentityInv' /\ RestartInv' /\ RelayAccepts'
  BY <1>1, HttpFrame
<1>3. Switches'
  BY Zenon DEF Switches, IInv, TypeOK, httpFrame
<1>4. Kinds'
  BY IdleType, TypeParts DEF Kinds, IInv, httpFrame, Requests, RelayArgs, Stored
<1>5. RequestInv'
  <2>1. CASE http.relay \in {None, Placeholder}
    BY <2>1, <1>a, IdleType, TypeParts, DeviceStoreAssumption
       DEF IInv, RequestInv, Kinds, Requests, httpFrame, Wanted, Stored
  <2>2. CASE http.relay \in Relays
    BY <2>2, <1>a, IdleType, TypeParts, DeviceStoreAssumption
       DEF IInv, RequestInv, Kinds, Requests, httpFrame, Wanted, Stored
  <2> QED BY <1>a, <2>1, <2>2 DEF RelayArgs
<1>6. PromiseKept'
  BY TypeParts DEF IInv, PromiseKept, RequestInv, Kinds
<1>7. SettingsKept'
  BY <1>b DEF IInv, SettingsKept
<1> QED BY <1>1, <1>2, <1>3, <1>4, <1>5, <1>6, <1>7, Parts

LEMMA ConfigAnswerInv ==
  ASSUME IInv, ConfigAnswer
  PROVE  IInv'
<1> USE DEF ConfigAnswer, nvs, image, configFrame, pairFrame, At, Step, Answered, Fault, Stored, Settings
<1>1. mode = "setup"
  BY IdleType DEF IInv, RestartInv, At
<1>2. DrawsInv' /\ IdentityInv' /\ RestartInv' /\ RelayAccepts'
  BY <1>1, HttpFrame
<1>3. Switches'
  BY Zenon DEF Switches, IInv, TypeOK, httpFrame
<1>4. Kinds'
  <2>1. /\ http.net \in Networks \cup {None} /\ Wanted(http.relay) \subseteq Relays \cup {None}
        /\ saved \in Settings
    BY TypeParts, WantedType DEF IInv, Kinds, Requests
  <2>2. saved' \in Settings
    BY <2>1, SettingsType DEF Settings
  <2> QED BY <2>2, IdleType, TypeParts DEF Kinds, IInv, httpFrame
<1>5. RequestInv'
  BY IdleType, TypeParts DEF IInv, RequestInv, Kinds, Requests, httpFrame, Wanted, Stored
<1>6. PromiseKept'
  BY TypeParts DEF IInv, PromiseKept, RequestInv, Kinds
<1>7. SettingsKept'
  <2>1. http.relay \in RelayArgs /\ default \in Relays /\ http.op = "config"
    BY TypeParts DEF IInv, Kinds, Requests
  <2>2. CASE button # "idle"
    BY <2>2 DEF IInv, SettingsKept
  <2>3. CASE button = "idle"
    <3>1. ssid = http.net /\ pass = http.net /\ http.relay # Placeholder
      BY <2>1, <2>3 DEF IInv, RequestInv
    <3>2. http.relay = None => relay \in saved.relays
      BY DEF IInv, SettingsKept
    <3>3. http.relay # None => relay \in Wanted(http.relay)
      BY <2>1, <2>3, <3>1, WantedType DEF IInv, RequestInv, RelayArgs
    <3> QED BY <2>3, <3>1, <3>2, <3>3 DEF SettingsKept
  <2> QED BY <2>2, <2>3
<1> QED BY <1>1, <1>2, <1>3, <1>4, <1>5, <1>6, <1>7, Parts

LEMMA PairInv ==
  ASSUME IInv, Pair
  PROVE  IInv'
<1> USE DEF Pair, nvs, image, configFrame, pairFrame, At, Step, Answered, Fault
<1>1. mode = "setup"
  BY IdleType DEF IInv, RestartInv, At
<1>2. DrawsInv' /\ IdentityInv' /\ RestartInv' /\ RelayAccepts'
  BY <1>1, HttpFrame
<1>3. Switches'
  BY Zenon DEF Switches, IInv, TypeOK, httpFrame
<1>4. Kinds'
  BY IdleType, TypeParts DEF Kinds, IInv, httpFrame, Requests, RelayArgs
<1>5. RequestInv'
  BY IdleType, TypeParts DEF IInv, RequestInv, Kinds, Requests, httpFrame, Wanted, Stored
<1>6. PromiseKept'
  BY TypeParts DEF IInv, PromiseKept, RequestInv, Kinds
<1>7. SettingsKept'
  BY IdleType DEF IInv, SettingsKept, RequestInv
<1> QED BY <1>1, <1>2, <1>3, <1>4, <1>5, <1>6, <1>7, Parts

LEMMA PairScanInv ==
  ASSUME IInv, PairScan
  PROVE  IInv'
<1> USE DEF PairScan, nvs, image, configFrame, pairFrame, At, Step, Answered, Fault, FreeKids
<1>1. mode = "setup"
  BY IdleType DEF IInv, RestartInv, At
<1>2. DrawsInv' /\ IdentityInv' /\ RestartInv' /\ RelayAccepts'
  BY <1>1, HttpFrame
<1>3. Switches'
  BY Zenon DEF Switches, IInv, TypeOK, httpFrame
<1>4. Kinds'
  BY IdleType, TypeParts DEF Kinds, IInv, httpFrame, Requests, RelayArgs, FreeKids
<1>5. RequestInv'
  BY IdleType, TypeParts DEF IInv, RequestInv, Kinds, Requests, httpFrame, Wanted, Stored
<1>6. PromiseKept'
  BY TypeParts DEF IInv, PromiseKept, RequestInv, Kinds
<1>7. SettingsKept'
  BY IdleType DEF IInv, SettingsKept, RequestInv
<1> QED BY <1>1, <1>2, <1>3, <1>4, <1>5, <1>6, <1>7, Parts

LEMMA PairKeyInv ==
  ASSUME IInv, PairKey
  PROVE  IInv'
<1> USE DEF PairKey, nvs, image, configFrame, pairFrame, At, Step, Answered, Fault
<1>1. mode = "setup"
  BY IdleType DEF IInv, RestartInv, At
<1>2. DrawsInv' /\ IdentityInv' /\ RestartInv' /\ RelayAccepts'
  BY <1>1, HttpFrame
<1>3. Switches'
  BY Zenon DEF Switches, IInv, TypeOK, httpFrame
<1>4. Kinds'
  BY IdleType, TypeParts DEF Kinds, IInv, httpFrame, Requests, RelayArgs
<1>5. RequestInv'
  BY IdleType, TypeParts DEF IInv, RequestInv, Kinds, Requests, httpFrame, Wanted, Stored
<1>6. PromiseKept'
  BY TypeParts, DeviceStoreAssumption DEF IInv, PromiseKept, RequestInv, Kinds
<1>7. SettingsKept'
  BY IdleType DEF IInv, SettingsKept, RequestInv
<1> QED BY <1>1, <1>2, <1>3, <1>4, <1>5, <1>6, <1>7, Parts

LEMMA PairCounterInv ==
  ASSUME IInv, PairCounter
  PROVE  IInv'
<1> USE DEF PairCounter, nvs, image, configFrame, pairFrame, At, Step, Answered, Fault
<1>1. mode = "setup"
  BY IdleType DEF IInv, RestartInv, At
<1>2. DrawsInv' /\ IdentityInv' /\ RestartInv' /\ RelayAccepts'
  BY <1>1, HttpFrame
<1>3. Switches'
  BY Zenon DEF Switches, IInv, TypeOK, httpFrame
<1>4. Kinds'
  BY IdleType, TypeParts DEF Kinds, IInv, httpFrame, Requests, RelayArgs
<1>5. RequestInv'
  BY IdleType, TypeParts DEF IInv, RequestInv, Kinds, Requests, httpFrame, Wanted, Stored
<1>6. PromiseKept'
  BY TypeParts DEF IInv, PromiseKept, RequestInv, Kinds
<1>7. SettingsKept'
  BY IdleType DEF IInv, SettingsKept, RequestInv
<1> QED BY <1>1, <1>2, <1>3, <1>4, <1>5, <1>6, <1>7, Parts

LEMMA PairAnswerInv ==
  ASSUME IInv, PairAnswer
  PROVE  IInv'
<1> USE DEF PairAnswer, nvs, image, configFrame, pairFrame, At, Step, Answered, Fault, Answers
<1> DEFINE answer == [id |-> id, tok |-> token, kid |-> http.kid]
<1>0. /\ http \in Requests /\ http.key \in Phones /\ http.kid \in Kids /\ answer \in Answers
      /\ promise \in [Phones -> Answers]
  BY TypeParts DEF IInv, Kinds, RequestInv, Answers
<1>a. \/ button # "idle" /\ promise' = promise
      \/ button = "idle" /\ promise' = [promise EXCEPT ![http.key] = answer]
  OBVIOUS
<1>1. mode = "setup"
  BY IdleType DEF IInv, RestartInv, At
<1>b. button = "idle" => answer.id = devId /\ answer.tok = devTok /\ id # 0 /\ token # 0
                         /\ slot[http.kid] = http.key
  BY <1>1 DEF IInv, IdentityInv, RequestInv, Serving
<1>2. DrawsInv' /\ IdentityInv' /\ RestartInv' /\ RelayAccepts'
  BY <1>1, HttpFrame
<1>3. Switches'
  BY Zenon DEF Switches, IInv, TypeOK, httpFrame
<1>4. Kinds'
  BY <1>0, <1>a, IdleType, TypeParts DEF Kinds, IInv, httpFrame
<1>5. RequestInv'
  BY <1>0, <1>a, <1>b, IdleType DEF IInv, RequestInv
<1>6. PromiseKept'
  BY <1>0, <1>a, <1>b DEF IInv, PromiseKept
<1>7. SettingsKept'
  BY IdleType DEF IInv, SettingsKept, RequestInv
<1> QED BY <1>1, <1>2, <1>3, <1>4, <1>5, <1>6, <1>7, Parts

LEMMA FinishInv ==
  ASSUME IInv, Finish
  PROVE  IInv'
<1> USE DEF Finish, nvs, image, configFrame, pairFrame, At, Step, Answered, Fault
<1>1. mode = "setup"
  BY IdleType DEF IInv, RestartInv, At
<1>2. DrawsInv' /\ IdentityInv' /\ RestartInv' /\ RelayAccepts'
  BY <1>1, HttpFrame
<1>3. Switches'
  BY Zenon DEF Switches, IInv, TypeOK, httpFrame
<1>4. Kinds'
  BY IdleType, TypeParts DEF Kinds, IInv, httpFrame, Requests, RelayArgs
<1>5. RequestInv'
  BY IdleType, TypeParts DEF IInv, RequestInv, Kinds, Requests, httpFrame, Wanted, Stored
<1>6. PromiseKept'
  BY TypeParts DEF IInv, PromiseKept, RequestInv, Kinds
<1>7. SettingsKept'
  BY IdleType DEF IInv, SettingsKept, RequestInv
<1> QED BY <1>1, <1>2, <1>3, <1>4, <1>5, <1>6, <1>7, Parts

-----------------------------------------------------------------------------
(* A start *)

LEMMA BootFrame ==
  ASSUME IInv, UNCHANGED <<http, slot, ssid, pass, promise>>, mode \in Booting
  PROVE  /\ http = Idle /\ ~rebooting /\ button = "idle"
         /\ RequestInv'
         /\ devId' = devId /\ devTok' = devTok => PromiseKept'
         /\ relay' = relay /\ saved' = saved => SettingsKept'
<1>1. http = Idle /\ ~rebooting /\ button = "idle"
  BY DEF IInv, RestartInv, Booting
<1>2. RequestInv'
  BY <1>1, IdleType DEF IInv, RequestInv
<1>3. devId' = devId /\ devTok' = devTok => PromiseKept'
  BY DEF IInv, PromiseKept
<1>4. relay' = relay /\ saved' = saved => SettingsKept'
  BY DEF IInv, SettingsKept
<1> QED BY <1>1, <1>2, <1>3, <1>4

LEMMA FindIdInv ==
  ASSUME IInv, FindId
  PROVE  IInv'
<1> USE DEF FindId, bootFrame, drawFrame, image, Fault, Panic, Reset, BootImage, BootImage
<1>1. mode \in Booting /\ UNCHANGED <<http, slot, ssid, pass, promise>>
  BY DEF Booting, IInv, RestartInv
<1>2. RequestInv' /\ http = Idle /\ ~rebooting /\ button = "idle"
  BY <1>1, BootFrame
<1>3. Switches'
  BY <1>2, Zenon DEF Switches, IInv, TypeOK
<1>4. Kinds'
  BY IdleType, TypeParts DEF Kinds, IInv, Booting, Serving
<1>5. DrawsInv'
  BY TypeParts DEF IInv, DrawsInv, Kinds
<1>6. IdentityInv'
  BY <1>2, TypeParts DEF IInv, IdentityInv, Kinds, Serving, Booting
<1>7. RestartInv'
  BY <1>2 DEF IInv, RestartInv, Booting, Serving
<1>8. PromiseKept'
  BY <1>1, BootFrame
<1>9. SettingsKept'
  BY <1>1, BootFrame
<1>10. RelayAccepts'
  BY TypeParts DEF IInv, RelayAccepts, DrawsInv, IdentityInv, Kinds, Serving
<1> QED BY <1>1, <1>2, <1>3, <1>4, <1>5, <1>6, <1>7, <1>8, <1>9, <1>10, Parts

LEMMA DrawIdInv ==
  ASSUME IInv, DrawId
  PROVE  IInv'
<1> USE DEF DrawId, bootFrame, drawFrame, image, Fault, Panic, Reset, BootImage, BootImage
<1>1. mode \in Booting /\ UNCHANGED <<http, slot, ssid, pass, promise>>
  BY DEF Booting, IInv, RestartInv
<1>2. RequestInv' /\ http = Idle /\ ~rebooting /\ button = "idle"
  BY <1>1, BootFrame
<1>3. Switches'
  BY <1>2, Zenon DEF Switches, IInv, TypeOK
<1>4. Kinds'
  BY IdleType, TypeParts DEF Kinds, IInv, Booting, Serving
<1>5. DrawsInv'
  BY TypeParts DEF IInv, DrawsInv, Kinds
<1>6. IdentityInv'
  BY <1>2, TypeParts DEF IInv, IdentityInv, Kinds, Serving, Booting
<1>7. RestartInv'
  BY <1>2 DEF IInv, RestartInv, Booting, Serving
<1>8. PromiseKept'
  BY <1>1 DEF IInv, PromiseKept, RequestInv
<1>9. SettingsKept'
  BY <1>1, BootFrame
<1>10. RelayAccepts'
  BY TypeParts DEF IInv, RelayAccepts, DrawsInv, IdentityInv, Kinds, Serving
<1> QED BY <1>1, <1>2, <1>3, <1>4, <1>5, <1>6, <1>7, <1>8, <1>9, <1>10, Parts

LEMMA FindTokenInv ==
  ASSUME IInv, FindToken
  PROVE  IInv'
<1> USE DEF FindToken, bootFrame, drawFrame, image, Fault, Panic, Reset, BootImage, BootImage
<1>1. mode \in Booting /\ UNCHANGED <<http, slot, ssid, pass, promise>>
  BY DEF Booting, IInv, RestartInv
<1>2. RequestInv' /\ http = Idle /\ ~rebooting /\ button = "idle"
  BY <1>1, BootFrame
<1>3. Switches'
  BY <1>2, Zenon DEF Switches, IInv, TypeOK
<1>4. Kinds'
  BY IdleType, TypeParts DEF Kinds, IInv, Booting, Serving
<1>5. DrawsInv'
  BY TypeParts DEF IInv, DrawsInv, Kinds
<1>6. IdentityInv'
  BY <1>2, TypeParts DEF IInv, IdentityInv, Kinds, Serving, Booting
<1>7. RestartInv'
  BY <1>2 DEF IInv, RestartInv, Booting, Serving
<1>8. PromiseKept'
  BY <1>1, BootFrame
<1>9. SettingsKept'
  BY <1>1, BootFrame
<1>10. RelayAccepts'
  BY TypeParts DEF IInv, RelayAccepts, DrawsInv, IdentityInv, Kinds, Serving
<1> QED BY <1>1, <1>2, <1>3, <1>4, <1>5, <1>6, <1>7, <1>8, <1>9, <1>10, Parts

LEMMA DrawTokenInv ==
  ASSUME IInv, DrawToken
  PROVE  IInv'
<1> USE DEF DrawToken, bootFrame, drawFrame, image, Fault, Panic, Reset, BootImage, BootImage
<1>1. mode \in Booting /\ UNCHANGED <<http, slot, ssid, pass, promise>>
  BY DEF Booting, IInv, RestartInv
<1>2. RequestInv' /\ http = Idle /\ ~rebooting /\ button = "idle"
  BY <1>1, BootFrame
<1>3. Switches'
  BY <1>2, Zenon DEF Switches, IInv, TypeOK
<1>4. Kinds'
  BY IdleType, TypeParts DEF Kinds, IInv, Booting, Serving
<1>5. DrawsInv'
  BY TypeParts DEF IInv, DrawsInv, Kinds
<1>6. IdentityInv'
  BY <1>2, TypeParts DEF IInv, IdentityInv, Kinds, Serving, Booting
<1>7. RestartInv'
  BY <1>2 DEF IInv, RestartInv, Booting, Serving
<1>8. PromiseKept'
  BY <1>1 DEF IInv, PromiseKept, RequestInv
<1>9. SettingsKept'
  BY <1>1, BootFrame
<1>10. RelayAccepts'
  BY TypeParts DEF IInv, RelayAccepts, DrawsInv, IdentityInv, Kinds, Serving
<1> QED BY <1>1, <1>2, <1>3, <1>4, <1>5, <1>6, <1>7, <1>8, <1>9, <1>10, Parts

LEMMA MigrateInv ==
  ASSUME IInv, Migrate
  PROVE  IInv'
<1> USE DEF Migrate, bootFrame, drawFrame, image, Fault, Panic, Reset, BootImage, Leftover
<1>1. mode \in Booting /\ UNCHANGED <<http, slot, ssid, pass, promise>>
  BY DEF Booting, IInv, RestartInv
<1>2. RequestInv' /\ http = Idle /\ ~rebooting /\ button = "idle"
  BY <1>1, BootFrame
<1>3. Switches'
  BY <1>2, Zenon DEF Switches, IInv, TypeOK
<1>a. saved \in Settings /\ saved.relays \subseteq Superseded(saved.relays)
      /\ Superseded(saved.relays) \subseteq Relays \cup {Placeholder, None}
  BY TypeParts DEF IInv, Kinds, Settings, Superseded
<1>b. saved' = [nets |-> saved.nets, relays |-> Superseded(saved.relays)]
  BY <1>a DEF Settings
<1>4. Kinds'
  <2>1. saved' \in Settings
    BY <1>a, <1>b, SettingsType DEF Settings
  <2> QED BY <2>1, TypeParts DEF Kinds, IInv, Booting, Serving
<1>5. DrawsInv'
  BY TypeParts DEF IInv, DrawsInv, Kinds
<1>6. IdentityInv'
  BY <1>2, TypeParts DEF IInv, IdentityInv, Kinds, Serving, Booting
<1>7. RestartInv'
  BY <1>2 DEF IInv, RestartInv, Booting, Serving
<1>8. PromiseKept'
  BY <1>1, BootFrame
<1>9. SettingsKept'
  <2>1. relay \in saved.relays
    BY DEF IInv, SettingsKept
  <2>2. Leftover(relay) => None \in Superseded(saved.relays)
    BY <2>1 DEF Superseded
  <2> QED BY <1>a, <1>b, <2>1, <2>2 DEF IInv, SettingsKept
<1>10. RelayAccepts'
  BY TypeParts DEF IInv, RelayAccepts, DrawsInv, IdentityInv, Kinds, Serving
<1> QED BY <1>1, <1>2, <1>3, <1>4, <1>5, <1>6, <1>7, <1>8, <1>9, <1>10, Parts

LEMMA ChooseModeInv ==
  ASSUME IInv, ChooseMode
  PROVE  IInv'
<1> USE DEF ChooseMode, bootFrame, drawFrame, image, Fault, Panic, Reset, BootImage, Requested, Provisioned
<1>1. mode \in Booting /\ UNCHANGED <<http, slot, ssid, pass, promise>>
  BY DEF Booting, IInv, RestartInv
<1>2. RequestInv' /\ http = Idle /\ ~rebooting /\ button = "idle"
  BY <1>1, BootFrame
<1>3. Switches'
  BY <1>2, Zenon DEF Switches, IInv, TypeOK
<1>4. Kinds'
  BY IdleType, TypeParts DEF Kinds, IInv, Booting, Serving
<1>5. DrawsInv'
  BY TypeParts DEF IInv, DrawsInv, Kinds
<1>6. IdentityInv'
  BY <1>2, TypeParts DEF IInv, IdentityInv, Kinds, Serving, Booting
<1>7. RestartInv'
  BY <1>2 DEF IInv, RestartInv, Booting, Serving
<1>8. PromiseKept'
  BY <1>1, BootFrame
<1>9. SettingsKept'
  BY <1>1, BootFrame
<1>10. RelayAccepts'
  BY TypeParts DEF IInv, RelayAccepts, DrawsInv, IdentityInv, Kinds, Serving
<1> QED BY <1>1, <1>2, <1>3, <1>4, <1>5, <1>6, <1>7, <1>8, <1>9, <1>10, Parts

-----------------------------------------------------------------------------
(* Restarts and the button *)

LEMMA ResetInv ==
  ASSUME IInv, NEW soft \in BOOLEAN, Reset(soft), magic' \in BOOLEAN, asked' \in BOOLEAN,
         UNCHANGED <<nvs, claimed, promise, saved, torn, draws>>,
         asked' => magic' /\ soft, magic' /\ soft => asked'
  PROVE  IInv'
<1> USE DEF Reset, BootImage, image, nvs
<1>1. Switches'
  BY Zenon DEF Switches, IInv, TypeOK
<1>2. Kinds'
  BY IdleType, TypeParts DEF Kinds, IInv, Booting
<1>3. DrawsInv'
  BY TypeParts DEF IInv, DrawsInv, Kinds
<1>4. IdentityInv'
  BY DEF IdentityInv, Serving
<1>5. RestartInv'
  BY DEF RestartInv, Booting, Serving
<1>6. RequestInv'
  BY IdleType DEF IInv, RequestInv
<1>7. PromiseKept' /\ SettingsKept' /\ RelayAccepts'
  BY DEF IInv, PromiseKept, SettingsKept, RelayAccepts
<1> QED BY <1>1, <1>2, <1>3, <1>4, <1>5, <1>6, <1>7, Parts

LEMMA PowerLossInv ==
  ASSUME IInv, PowerLoss
  PROVE  IInv'
BY ResetInv DEF PowerLoss

LEMMA FinishRestartInv ==
  ASSUME IInv, FinishRestart
  PROVE  IInv'
<1>1. mode = "setup" /\ mode \in Serving
  BY DEF FinishRestart, IInv, RestartInv, Serving
<1>2. magic' = magic /\ asked' = asked /\ UNCHANGED <<nvs, claimed, promise, saved, torn, draws>>
  BY DEF FinishRestart, history
<1>3. magic \in BOOLEAN /\ asked \in BOOLEAN /\ (asked => magic) /\ (magic => asked)
  BY <1>1 DEF IInv, RestartInv, TypeOK
<1>4. magic' \in BOOLEAN /\ asked' \in BOOLEAN /\ (asked' => magic') /\ (magic' => asked')
  BY <1>2, <1>3, Zenon
<1> QED BY <1>2, <1>4, ResetInv DEF FinishRestart

LEMMA ButtonRestartInv ==
  ASSUME IInv, ButtonRestart
  PROVE  IInv'
<1>1. mode \in Serving
  BY TypeParts DEF ButtonRestart, IInv, RestartInv, Kinds
<1>2. magic' = magic /\ asked' = asked /\ UNCHANGED <<nvs, claimed, promise, saved, torn, draws>>
  BY DEF ButtonRestart, history
<1>3. magic \in BOOLEAN /\ asked \in BOOLEAN /\ (asked => magic) /\ (magic => asked)
  BY <1>1 DEF IInv, RestartInv, TypeOK
<1>4. magic' \in BOOLEAN /\ asked' \in BOOLEAN /\ (asked' => magic') /\ (magic' => asked')
  BY <1>2, <1>3, Zenon
<1> QED BY <1>2, <1>4, ResetInv DEF ButtonRestart

LEMMA UpdateRestartInv ==
  ASSUME IInv, UpdateRestart
  PROVE  IInv'
<1>1. mode \in Serving
  BY DEF UpdateRestart, Serving
<1>2. magic' = magic /\ asked' = asked /\ UNCHANGED <<nvs, claimed, promise, saved, torn, draws>>
  BY DEF UpdateRestart, history
<1>3. magic \in BOOLEAN /\ asked \in BOOLEAN /\ (asked => magic) /\ (magic => asked)
  BY <1>1 DEF IInv, RestartInv, TypeOK
<1>4. magic' \in BOOLEAN /\ asked' \in BOOLEAN /\ (asked' => magic') /\ (magic' => asked')
  BY <1>2, <1>3, Zenon
<1> QED BY <1>2, <1>4, ResetInv DEF UpdateRestart

LEMMA ConnectInv ==
  ASSUME IInv, Connect
  PROVE  IInv'
<1> USE DEF Connect, nvs, image, ram, buttonFrame
<1>1. Switches'
  BY Zenon DEF Switches, IInv, TypeOK
<1>2. Kinds'
  BY IdleType, TypeParts DEF Kinds, IInv
<1>3. DrawsInv'
  BY TypeParts DEF IInv, DrawsInv, IdentityInv, Kinds, Serving
<1>4. IdentityInv'
  BY TypeParts DEF IInv, IdentityInv, RestartInv, Kinds, Serving, Booting
<1>5. RestartInv'
  BY TypeParts DEF IInv, RestartInv, Kinds, Booting, Serving
<1>6. RequestInv'
  BY TypeParts, IdleType DEF IInv, RequestInv, RestartInv, Kinds
<1>7. PromiseKept'
  BY DEF IInv, PromiseKept
<1>8. SettingsKept'
  BY IdleType DEF IInv, SettingsKept
<1>9. RelayAccepts'
  BY TypeParts DEF IInv, RelayAccepts, DrawsInv, IdentityInv, Kinds, Serving
<1> QED BY <1>1, <1>2, <1>3, <1>4, <1>5, <1>6, <1>7, <1>8, <1>9, Parts

LEMMA RequestSetupInv ==
  ASSUME IInv, RequestSetup
  PROVE  IInv'
<1> USE DEF RequestSetup, nvs, image, ram, buttonFrame
<1>1. Switches'
  BY Zenon DEF Switches, IInv, TypeOK
<1>2. Kinds'
  BY IdleType, TypeParts DEF Kinds, IInv
<1>3. DrawsInv'
  BY TypeParts DEF IInv, DrawsInv, Kinds
<1>4. IdentityInv'
  BY TypeParts DEF IInv, IdentityInv, RestartInv, Kinds, Serving, Booting
<1>5. RestartInv'
  BY TypeParts DEF IInv, RestartInv, Kinds, Booting, Serving
<1>6. RequestInv'
  BY TypeParts, IdleType DEF IInv, RequestInv, RestartInv, Kinds
<1>7. PromiseKept'
  BY DEF IInv, PromiseKept
<1>8. SettingsKept'
  BY IdleType DEF IInv, SettingsKept
<1>9. RelayAccepts'
  BY TypeParts DEF IInv, RelayAccepts, DrawsInv, IdentityInv, Kinds, Serving
<1> QED BY <1>1, <1>2, <1>3, <1>4, <1>5, <1>6, <1>7, <1>8, <1>9, Parts

LEMMA EraseInv ==
  ASSUME IInv, Erase
  PROVE  IInv'
<1> USE DEF Erase, nvs, image, ram, buttonFrame, Entries, Fault
<1>0. /\ http \in Requests /\ saved \in Settings /\ http.net \in Networks \cup {None}
      /\ http.op = "config" => http.net \in saved.nets /\ Wanted(http.relay) \subseteq saved.relays
      /\ Wanted(http.relay) \subseteq Relays \cup {None}
      /\ ssid \in saved.nets /\ pass \in saved.nets /\ relay \in saved.relays
  BY TypeParts, WantedType DEF IInv, Kinds, RequestInv, SettingsKept, Requests
<1> DEFINE pending == IF http.op = "config" THEN {http.net} ELSE {}
<1>a. PICK gone \in SUBSET Entries :
        /\ ssid' = IF "ssid" \in gone THEN None ELSE ssid
        /\ pass' = IF "pass" \in gone THEN None ELSE pass
        /\ relay' = IF "relay" \in gone THEN None ELSE relay
        /\ saved' = [nets |-> Left(saved.nets, {"ssid", "pass"} \subseteq gone, pending),
                     relays |-> Left(saved.relays, "relay" \in gone, Wanted(http.relay))]
  OBVIOUS
<1>b. saved' \in Settings
  BY <1>0, <1>a, SettingsType DEF Settings, Left
<1>c. Wanted(http.relay)' = Wanted(http.relay) /\ http' = http /\ button' # "idle"
  BY DEF Wanted, Stored
<1>d. http.op = "config" => http.net \in saved'.nets /\ Wanted(http.relay) \subseteq saved'.relays
  BY <1>0, <1>a DEF Left
<1>1. Switches'
  BY Zenon DEF Switches, IInv, TypeOK
<1>2. Kinds'
  BY <1>b, IdleType, TypeParts DEF Kinds, IInv
<1>3. DrawsInv'
  BY TypeParts DEF IInv, DrawsInv, Kinds
<1>4. IdentityInv'
  BY TypeParts DEF IInv, IdentityInv, RestartInv, Kinds, Serving, Booting
<1>5. RestartInv'
  BY TypeParts DEF IInv, RestartInv, Kinds, Booting, Serving
<1>6. RequestInv'
  BY <1>c, <1>d, TypeParts, IdleType, DeviceStoreAssumption DEF IInv, RequestInv, RestartInv, Kinds
<1>7. PromiseKept'
  BY DEF IInv, PromiseKept
<1>8. SettingsKept'
  BY <1>0, <1>a DEF SettingsKept, Left
<1>9. RelayAccepts'
  BY TypeParts DEF IInv, RelayAccepts, DrawsInv, IdentityInv, Kinds, Serving
<1> QED BY <1>1, <1>2, <1>3, <1>4, <1>5, <1>6, <1>7, <1>8, <1>9, Parts

LEMMA ForgetIdentityInv ==
  ASSUME IInv, ForgetIdentity
  PROVE  IInv'
<1> USE DEF ForgetIdentity, nvs, image, ram, buttonFrame
<1>1. Switches'
  BY Zenon DEF Switches, IInv, TypeOK
<1>2. Kinds'
  BY IdleType, TypeParts DEF Kinds, IInv
<1>3. DrawsInv'
  BY TypeParts DEF IInv, DrawsInv, Kinds
<1>4. IdentityInv'
  BY TypeParts DEF IInv, IdentityInv, RestartInv, Kinds, Serving, Booting
<1>5. RestartInv'
  BY TypeParts DEF IInv, RestartInv, Kinds, Booting, Serving
<1>6. RequestInv'
  BY TypeParts, IdleType DEF IInv, RequestInv, RestartInv, Kinds, Wanted, Stored
<1>7. PromiseKept'
  BY DEF IInv, PromiseKept
<1>8. SettingsKept'
  BY IdleType DEF IInv, SettingsKept
<1>9. RelayAccepts'
  BY TypeParts DEF IInv, RelayAccepts, DrawsInv, IdentityInv, Kinds, Serving
<1> QED BY <1>1, <1>2, <1>3, <1>4, <1>5, <1>6, <1>7, <1>8, <1>9, Parts

-----------------------------------------------------------------------------
(* The invariant and what follows *)

LEMMA InitInv == Init => IInv
<1> SUFFICES ASSUME Init PROVE IInv
  OBVIOUS
<1> USE DEF Init
<1>1. Switches
  BY Zenon DEF Switches
<1>2. Kinds
  BY IdleType, SettingsType DEF Kinds, Booting
<1>3. DrawsInv /\ IdentityInv /\ RelayAccepts
  BY DEF DrawsInv, IdentityInv, RelayAccepts, Serving
<1>4. RestartInv
  BY DEF RestartInv, Booting, Serving
<1>5. RequestInv /\ PromiseKept /\ SettingsKept
  BY IdleType DEF RequestInv, PromiseKept, SettingsKept
<1> QED BY <1>1, <1>2, <1>3, <1>4, <1>5, TypeParts DEF IInv

LEMMA StepInv == IInv /\ [Next]_vars => IInv'
<1> SUFFICES ASSUME IInv, [Next]_vars PROVE IInv'
  OBVIOUS
<1>1. CASE Start
  BY <1>1, FindIdInv, DrawIdInv, FindTokenInv, DrawTokenInv, MigrateInv, ChooseModeInv DEF Start
<1>2. CASE Setup
  BY <1>2, ConfigInv, ConfigSsidInv, ConfigPassInv, ConfigRelayInv, ConfigAnswerInv,
     PairInv, PairScanInv, PairKeyInv, PairCounterInv, PairAnswerInv, FinishInv,
     FinishRestartInv DEF Setup
<1>3. CASE Connect
  BY <1>3, ConnectInv
<1>7. CASE UpdateRestart
  BY <1>7, UpdateRestartInv
<1>4. CASE Button
  BY <1>4, RequestSetupInv, EraseInv, ForgetIdentityInv, ButtonRestartInv DEF Button
<1>5. CASE PowerLoss
  BY <1>5, PowerLossInv
<1>6. CASE UNCHANGED vars
  <2> USE <1>6 DEF vars, nvs, image, ram, history
  <2>1. Switches'
    BY Zenon DEF Switches, IInv, TypeOK
  <2>2. Kinds'
    BY TypeParts DEF Kinds, IInv
  <2>3. DrawsInv' /\ IdentityInv' /\ RestartInv'
    BY DEF IInv, DrawsInv, IdentityInv, RestartInv
  <2>4. RequestInv'
    BY DEF IInv, RequestInv, Wanted, Stored
  <2>5. PromiseKept' /\ SettingsKept' /\ RelayAccepts'
    BY DEF IInv, PromiseKept, SettingsKept, RelayAccepts
  <2> QED BY <2>1, <2>2, <2>3, <2>4, <2>5, Parts
<1> QED BY <1>1, <1>2, <1>3, <1>4, <1>5, <1>6, <1>7 DEF Next

\* Types, the drawn numbers, identity in RAM and flash, the request in hand and
\* the restart under way, for any phones, networks, slots and faults.
THEOREM Inductive == Spec => []IInv
<1>1. Init => IInv
  BY InitInv
<1>2. IInv /\ [Next]_vars => IInv'
  BY StepInv
<1> QED BY <1>1, <1>2, PTL DEF Spec

\* What /pair answered stays true until a factory reset begins.
THEOREM PairingKept == Spec => []PromiseKept
<1>1. IInv => PromiseKept
  BY DEF IInv
<1> QED BY <1>1, Inductive, PTL

\* What is stored of network and relay is what /config last answered OK to or
\* what a later request put in its place; restarts and power losses change none of
\* it, and a change of image only drops a relay that became the default.
THEOREM ConfigKept == Spec => []SettingsKept
<1>1. IInv => SettingsKept
  BY DEF IInv
<1> QED BY <1>1, Inductive, PTL

\* Only a factory reset torn between identity and token locks the device out.
THEOREM TokenAccepted == Spec => []RelayAccepts
<1>1. IInv => RelayAccepts
  BY DEF IInv
<1> QED BY <1>1, Inductive, PTL

LEMMA ModeStep ==
  ASSUME IInv, Next, mode = "mode", mode' \in {"setup", "normal"}
  PROVE  /\ asked => mode' = "setup"
         /\ mode' = "setup" => \/ asked \/ None \in saved.nets
                               \/ \A p \in Phones : promise[p] = NoPromise
<1>1. ChooseMode
  <2>1. ~Setup
    BY IdleType DEF IInv, RestartInv, Setup, Config, ConfigSsid, ConfigPass, ConfigRelay,
       ConfigAnswer, Pair, PairScan, PairKey, PairCounter, PairAnswer, Finish, FinishRestart, At
  <2>2. ~PowerLoss /\ ~Connect /\ ~UpdateRestart /\ ~Button
    BY DEF PowerLoss, Connect, UpdateRestart, Button, RequestSetup, Erase, ForgetIdentity, ButtonRestart, Reset,
       IInv, RestartInv, Booting
  <2>3. ~FindId /\ ~DrawId /\ ~FindToken /\ ~DrawToken /\ ~Migrate
    BY DEF FindId, DrawId, FindToken, DrawToken, Migrate
  <2> QED BY <2>1, <2>2, <2>3 DEF Next, Start
<1>2. Requested <=> asked
  BY DEF Requested, IInv, RestartInv, Booting
<1>3. asked => mode' = "setup"
  BY <1>1, <1>2 DEF ChooseMode
<1>4. ASSUME mode' = "setup", ~asked, None \notin saved.nets,
             NEW p \in Phones, promise[p] # NoPromise
      PROVE  FALSE
  <2>1. ssid # None
    BY <1>4 DEF IInv, SettingsKept
  <2>2. slot[promise[p].kid] = p /\ promise[p].kid \in Kids
    BY <1>4 DEF IInv, PromiseKept, RequestInv
  <2>3. Provisioned
    BY <2>1, <2>2, DeviceStoreAssumption DEF Provisioned
  <2> QED BY <1>1, <1>2, <1>4, <2>3 DEF ChooseMode
<1> QED BY <1>3, <1>4

\* The owner's button is obeyed, and a paired device does not fall back into
\* setup mode, whatever later requests failed at.
THEOREM ModeObeyed == Spec => ModeAsAsked
<1>1. IInv /\ [Next]_vars
      => [mode = "mode" /\ mode' \in {"setup", "normal"} =>
            /\ asked => mode' = "setup"
            /\ mode' = "setup" => \/ asked \/ None \in saved.nets
                                  \/ \A p \in Phones : promise[p] = NoPromise]_vars
  BY ModeStep
<1> QED BY <1>1, Inductive, PTL DEF Spec, ModeAsAsked
=============================================================================
