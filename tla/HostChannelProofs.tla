------------------------- MODULE HostChannelProofs -------------------------
(***************************************************************************)
(* Theorems about HostChannel, for every number of profiles and every      *)
(* bound on users, failures, connections and losses of power: what the     *)
(* menu shows, what is in flash, what the USB driver does and what the     *)
(* radio advertises agree.                                                 *)
(***************************************************************************)
EXTENDS HostChannel, TLAPS

-----------------------------------------------------------------------------
(* Types.                                                                  *)

Modes == [volume : {0, 1}, profile : Nat, usb : BOOLEAN]
Places == {"menu", "write", "usb", "pend", "stop", "connected?", "terminate", "advertise",
           "forget"}
Reasons == {"none", "service", "usb", "profile", "rollback"}
Jobs == [at : Places, why : Reasons, key : 1..4, undo : Nat]

SettingsTyped ==
  /\ s \in Modes /\ nvs \in Modes
  /\ {dirty, ripe, ready, unsaved} \subseteq BOOLEAN
DriverTyped ==
  /\ usb \in [enabled : BOOLEAN, installed : BOOLEAN] /\ usb.enabled = usb.installed
  /\ usbFailed \in BOOLEAN
Kinds == {"connect", "disconnect"}
Radios == [identity : Nat, adv : BOOLEAN, gap : BOOLEAN, hid : BOOLEAN]
RadioTyped ==
  /\ radio \in Radios
  /\ pending \in Nat \cup {None} /\ event \in Nat \cup {None, Quiet}
  /\ hidEvents \in Seq(Kinds)
  /\ closing \in BOOLEAN /\ dropped \in BOOLEAN

Typed == SettingsTyped /\ job \in Jobs /\ DriverTyped /\ RadioTyped

-----------------------------------------------------------------------------
(* The settings in flash.  Outside a write they are those in use, marked   *)
(* to be written, or could not be read; a write has put the keys before    *)
(* its own there.                                                          *)

InFlash == \A k \in DOMAIN s : s[k] = nvs[k] \/ k \in unread

Saved ==
  /\ job.at # "write" /\ ~dirty => InFlash
  /\ job.at = "write" => dirty /\ \A i \in 1..3 : i < job.key => nvs[Keys[i]] = s[Keys[i]]

-----------------------------------------------------------------------------
(* USB.  While its new mode is written the driver is still in the old one; *)
(* an undo that is written already has flash in the mode that was refused. *)

Driven(mode) == IF mode THEN usb.enabled \/ usbFailed ELSE ~usb.enabled
ModeInFlash == nvs.usb = s.usb \/ unsaved \/ "usb" \in unread

Switching == job.at = "write" /\ job.why = "usb"
Undoing == job.at = "write" /\ job.why = "rollback"

UsbGood ==
  /\ Switching => Driven(~s.usb)
  /\ job.at = "usb" => nvs.usb = s.usb
  /\ ~Switching /\ job.at # "usb" => Driven(s.usb)
  /\ ~Switching /\ ~Undoing /\ job.at # "usb" => ModeInFlash

-----------------------------------------------------------------------------
(* The radio, unless a switch was given up.                                *)

\* The profile the radio is to have until a new one is saved.
Wanted == IF job.at = "write" /\ job.why = "profile" THEN job.undo ELSE s.profile

Disconnected == \E i \in DOMAIN hidEvents : hidEvents[i] = "disconnect"

\* The profile is advertised, waits for the end of a connection, is about to be
\* advertised by event_callback(), or is left to the watchdog.
Settled ==
  \/ radio.identity = Wanted
  \/ pending # None
  \/ event >= 0
  \/ ~radio.adv /\ ~radio.gap /\ event = Quiet /\ ~Disconnected

AtRest ==
  /\ pending \in {None, Wanted} /\ event \in {Quiet, None, Wanted}
  /\ pending # None => closing \/ Disconnected
  /\ Settled

\* companion_ble_select_profile() has stored the profile and nobody took it.
Chosen == pending = s.profile /\ event \in {Quiet, None}

\* Nobody has connected since event_callback() took a profile over, or it is
\* in the queue of events.
TakenOver == event >= 0 /\ hidEvents = <<>> => ~radio.gap

ChannelGood ==
  ~dropped =>
    /\ job.at \in {"menu", "write", "usb", "forget"} => AtRest
    /\ job.at \in {"stop", "connected?", "terminate"} => Chosen
    /\ job.at = "forget" => pending = None
    /\ job.at = "advertise" => pending = None /\ event \in {Quiet, None, s.profile}
    /\ TakenOver

ChannelInv == Typed /\ Saved /\ UsbGood /\ ChannelGood

-----------------------------------------------------------------------------
(* Types are kept.                                                         *)

LEMMA SettingsFacts ==
  ASSUME SettingsTyped
  PROVE  /\ s.volume \in {0, 1} /\ s.profile \in Nat /\ s.usb \in BOOLEAN
         /\ nvs.volume \in {0, 1} /\ nvs.profile \in Nat /\ nvs.usb \in BOOLEAN
  BY DEF SettingsTyped, Modes

\* What a change of one setting leaves.
LEMMA Toggled ==
  ASSUME NEW m \in Modes, NEW n, n = [m EXCEPT !.usb = ~@]
  PROVE  n \in Modes /\ n.usb = ~m.usb /\ n.volume = m.volume /\ n.profile = m.profile
  BY DEF Modes

LEMMA Chose ==
  ASSUME NEW m \in Modes, NEW p \in Nat, NEW n, n = [m EXCEPT !.profile = p]
  PROVE  n \in Modes /\ n.usb = m.usb /\ n.volume = m.volume /\ n.profile = p
  BY DEF Modes

LEMMA Tuned ==
  ASSUME NEW m \in Modes, NEW n, n = [m EXCEPT !.volume = 1 - @]
  PROVE  n \in Modes /\ n.usb = m.usb /\ n.profile = m.profile
  BY DEF Modes

LEMMA JobFacts ==
  ASSUME job \in Jobs
  PROVE  /\ job.at \in Places /\ job.why \in Reasons /\ job.key \in 1..4 /\ job.undo \in Nat
         /\ Menu \in Jobs
  BY DEF Jobs, Menu, Places, Reasons

\* A write begins, or the job goes on at another place.
LEMMA WriteTyped ==
  ASSUME NEW why \in Reasons, NEW undo \in Nat, Write(why, undo)
  PROVE  /\ job' \in Jobs /\ dirty' = TRUE
         /\ job'.at = "write" /\ job'.why = why /\ job'.key = 1 /\ job'.undo = undo
  BY DEF Write, Jobs, Places

LEMMA LeaveTyped ==
  ASSUME job \in Jobs, NEW place \in Places, Leave(place)
  PROVE  /\ job' \in Jobs
         /\ job'.at = place /\ job'.why = job.why /\ job'.key = job.key /\ job'.undo = job.undo
  BY DEF Leave, Jobs

LEMMA ThenTyped ==
  ASSUME job \in Jobs, job' = Then(job.why)
  PROVE  /\ job' \in Jobs
         /\ \/ job.why = "usb" /\ job'.at = "usb" /\ job'.why = "usb"
            \/ job.why = "profile" /\ job'.at = "pend" /\ job'.why = "profile"
            \/ job.why \notin {"usb", "profile"} /\ job' = Menu
  <1>1. CASE job.why = "usb"
    BY <1>1 DEF Then, Jobs, Places
  <1>2. CASE job.why = "profile"
    BY <1>2 DEF Then, Jobs, Places
  <1>3. CASE job.why \notin {"usb", "profile"}
    BY <1>3, JobFacts DEF Then
  <1> QED BY <1>1, <1>2, <1>3

\* Menu is the record it is.
LEMMA MenuFacts == Menu.at = "menu" /\ Menu.why = "none" /\ Menu \in Jobs
  BY DEF Menu, Jobs, Places, Reasons

\* The undo of a switch of USB is written.
LEMMA UndoWritten ==
  ASSUME job \in Jobs, job' = SaveUndo
  PROVE  job' \in Jobs /\ job'.at = "write" /\ job'.why = "rollback" /\ job'.key = 1
  <1>1. job.undo \in Nat
    BY DEF Jobs
  <1>2. job' = [at |-> "write", why |-> "rollback", key |-> 1, undo |-> job.undo]
    BY DEF SaveUndo, Jobs
  <1> QED BY <1>1, <1>2 DEF Jobs, Places, Reasons

\* What a write that fails makes of the settings.
LEMMA UndoneTyped ==
  ASSUME SettingsTyped, job \in Jobs, s' = Undone
  PROVE  /\ s' \in Modes /\ s'.volume = s.volume
         /\ s'.usb = (IF job.why = "usb" THEN ~s.usb ELSE s.usb)
         /\ s'.profile = (IF job.why = "profile" THEN job.undo ELSE s.profile)
  <1> USE DEF SettingsTyped
  <1>1. CASE job.why = "usb"
    <2>1. s' = [s EXCEPT !.usb = ~@]
      BY <1>1 DEF Undone
    <2> QED BY <2>1, <1>1, Toggled
  <1>2. CASE job.why = "profile"
    <2>1. s' = [s EXCEPT !.profile = job.undo]
      BY <1>2 DEF Undone
    <2> QED BY <2>1, <1>2, Chose, JobFacts
  <1>3. CASE job.why \notin {"usb", "profile"}
    BY <1>3 DEF Undone
  <1> QED BY <1>1, <1>2, <1>3

\* One key more in flash.
LEMMA KeyTyped ==
  ASSUME SettingsTyped, job \in Jobs, WriteKey
  PROVE  /\ nvs' \in Modes /\ job' \in Jobs /\ job.key \in 1..3
         /\ job'.at = "write" /\ job'.why = job.why /\ job'.undo = job.undo
         /\ job'.key = job.key + 1
         /\ nvs'[Keys[job.key]] = s[Keys[job.key]]
         /\ \A i \in 1..3 : i # job.key => nvs'[Keys[i]] = nvs[Keys[i]]
  <1> USE DEF SettingsTyped, Keys, Modes
  <1>1. job.key \in 1..3
    BY DEF WriteKey, Jobs
  <1>2. /\ job' \in Jobs
        /\ job'.at = "write" /\ job'.why = job.why /\ job'.undo = job.undo
        /\ job'.key = job.key + 1
    BY <1>1 DEF WriteKey, Jobs
  <1>3. CASE job.key = 1
    BY <1>3, <1>2 DEF WriteKey
  <1>4. CASE job.key = 2
    BY <1>4, <1>2 DEF WriteKey
  <1>5. CASE job.key = 3
    BY <1>5, <1>2 DEF WriteKey
  <1> QED BY <1>1, <1>3, <1>4, <1>5

\* The driver is on or off as a whole.
LEMMA Drives ==
  ASSUME NEW on \in BOOLEAN, NEW u, u = [enabled |-> on, installed |-> on]
  PROVE  u \in [enabled : BOOLEAN, installed : BOOLEAN] /\ u.enabled = on /\ u.installed = on
  OBVIOUS

\* The settings and the job of a step that leaves the radio alone.
LEMMA SettingsStep ==
  ASSUME Typed,
         \/ Adjust \/ Ripen \/ Service \/ WriteKey \/ WriteDone \/ WriteFails
         \/ ToggleUsb \/ SwitchUsb \/ SwitchUsbFails
  PROVE  Typed'
  <1> USE DEF Typed, SettingsTyped
  <1>1. CASE Adjust
    <2>1. s' \in Modes
      BY <1>1, Tuned DEF Adjust
    <2> QED BY <2>1, <1>1 DEF Adjust, DriverTyped, RadioTyped, ble, store
  <1>2. CASE Ripen
    BY <1>2 DEF Ripen, DriverTyped, RadioTyped, ble, store
  <1>3. CASE Service
    <2>1. job' \in Jobs /\ dirty' = TRUE
      BY <1>3, WriteTyped DEF Service, Reasons
    <2> QED BY <2>1, <1>3 DEF Service, DriverTyped, RadioTyped, ble, store
  <1>4. CASE WriteKey
    BY <1>4, KeyTyped DEF WriteKey, DriverTyped, RadioTyped, ble, store
  <1>5. CASE WriteDone
    BY <1>5, ThenTyped DEF WriteDone, DriverTyped, RadioTyped, ble, store
  <1>6. CASE WriteFails
    BY <1>6, UndoneTyped, MenuFacts DEF WriteFails, StillDirty, DriverTyped, RadioTyped, ble, store
  <1>7. CASE ToggleUsb
    <2>1. s' \in Modes
      BY <1>7, Toggled DEF ToggleUsb
    <2>2. job' \in Jobs /\ dirty' = TRUE
      BY <1>7, WriteTyped DEF ToggleUsb, SaveFirst, Reasons
    <2> QED BY <2>1, <2>2, <1>7 DEF ToggleUsb, DriverTyped, RadioTyped, ble, store
  <1>8. CASE SwitchUsb
    <2>1. s.usb \in BOOLEAN
      BY SettingsFacts
    <2>2. usb' \in [enabled : BOOLEAN, installed : BOOLEAN] /\ usb'.enabled = usb'.installed
      BY <2>1, <1>8, Drives DEF SwitchUsb
    <2> QED BY <2>2, <1>8, MenuFacts DEF SwitchUsb, DriverTyped, RadioTyped, ble, settings, store
  <1>9. CASE SwitchUsbFails
    <2>1. s' \in Modes
      BY <1>9, Toggled DEF SwitchUsbFails
    <2>2. job' \in Jobs
      BY <1>9, UndoWritten DEF SwitchUsbFails
    <2> QED BY <2>1, <2>2, <1>9 DEF SwitchUsbFails, DriverTyped, RadioTyped, ble, store
  <1> QED BY <1>1, <1>2, <1>3, <1>4, <1>5, <1>6, <1>7, <1>8, <1>9

LEMMA AdvertiseTyped ==
  ASSUME RadioTyped, NEW p \in Nat, AdvertiseWorks(p) \/ AdvertiseFails(p)
  PROVE  /\ radio' \in Radios
         /\ radio'.gap = radio.gap /\ radio'.hid = radio.hid
         /\ \/ radio'.adv = TRUE /\ radio'.identity = p
            \/ radio'.adv = radio.adv /\ radio'.identity \in {radio.identity, p}
  BY DEF RadioTyped, Radios, AdvertiseWorks, AdvertiseFails, Advertised

\* A flag of the radio.
LEMMA Flagged ==
  ASSUME NEW r \in Radios, NEW n
  PROVE  /\ n = [r EXCEPT !.adv = FALSE] =>
              /\ n \in Radios /\ n.identity = r.identity /\ n.adv = FALSE /\ n.gap = r.gap
              /\ n.hid = r.hid
         /\ n = [r EXCEPT !.adv = FALSE, !.gap = TRUE] =>
              /\ n \in Radios /\ n.identity = r.identity /\ n.adv = FALSE /\ n.gap = TRUE
         /\ n = [r EXCEPT !.gap = FALSE] =>
              /\ n \in Radios /\ n.identity = r.identity /\ n.adv = r.adv /\ n.gap = FALSE
         /\ \A on \in BOOLEAN : n = [r EXCEPT !.hid = on] =>
              /\ n \in Radios /\ n.identity = r.identity /\ n.adv = r.adv /\ n.gap = r.gap
  BY DEF Radios

\* The queue of HID events.
LEMMA NoEvents == <<>> \in Seq(Kinds) /\ Len(<<>>) = 0 /\ DOMAIN <<>> = {}
  OBVIOUS

LEMMA EventAdded ==
  ASSUME NEW q \in Seq(Kinds), NEW e \in Kinds, NEW r, r = Append(q, e)
  PROVE  /\ r \in Seq(Kinds) /\ r # <<>>
         /\ \A i \in DOMAIN q : i \in DOMAIN r /\ r[i] = q[i]
         /\ \E i \in DOMAIN r : r[i] = e
         /\ \A i \in DOMAIN r : i \in DOMAIN q \/ r[i] = e
  BY DEF Kinds

LEMMA EventTaken ==
  ASSUME NEW q \in Seq(Kinds), q # <<>>, NEW r, r = Tail(q)
  PROVE  /\ Head(q) \in Kinds /\ r \in Seq(Kinds)
         /\ \A i \in DOMAIN r : i + 1 \in DOMAIN q /\ r[i] = q[i + 1]
         /\ \A i \in DOMAIN q : q[i] = Head(q) \/ (i - 1 \in DOMAIN r /\ r[i - 1] = q[i])
         /\ Len(q) > 1 <=> r # <<>>
  <1>1. Len(q) \in Nat \ {0} /\ DOMAIN q = 1..Len(q) /\ \A i \in 1..Len(q) : q[i] \in Kinds
    OBVIOUS
  <1>2. Head(q) = q[1] /\ r \in Seq(Kinds) /\ Len(r) = Len(q) - 1
    BY <1>1
  <1>3. DOMAIN r = 1..(Len(q) - 1) /\ \A i \in DOMAIN r : r[i] = q[i + 1]
    BY <1>1, <1>2
  <1>4. Len(q) > 1 <=> r # <<>>
    BY <1>1, <1>2
  <1>5. ASSUME NEW i \in DOMAIN q, i # 1
        PROVE  i - 1 \in DOMAIN r /\ r[i - 1] = q[i]
    BY <1>1, <1>3, <1>5
  <1> QED BY <1>1, <1>2, <1>3, <1>4, <1>5

\* The handlers of the main task that set the radio.
LEMMA RadioStep ==
  ASSUME Typed,
         \/ Pend \/ StopAdvertising \/ LookConnected \/ Terminate \/ TerminateFails
         \/ AdvertiseChosen \/ ForgetBonds \/ ForgetConnection \/ ForgetAndAdvertise \/ Watchdog
         \/ \E d \in {1, Profiles - 1} : ChooseProfile(d)
  PROVE  Typed'
  <1> USE DEF Typed
  <1>s. s.profile \in Nat
    BY SettingsFacts
  <1>1. CASE Pend
    <2>1. job' \in Jobs
      BY <1>1, LeaveTyped DEF Pend, Places
    <2> QED BY <2>1, <1>1, <1>s DEF Pend, SettingsTyped, DriverTyped, RadioTyped, settings, store
  <1>2. CASE StopAdvertising
    <2>1. job' \in Jobs
      BY <1>2, LeaveTyped DEF StopAdvertising, Places
    <2>2. radio' \in Radios
      BY <1>2, Flagged DEF StopAdvertising, RadioTyped
    <2> QED BY <2>1, <2>2, <1>2 DEF StopAdvertising, SettingsTyped, DriverTyped, RadioTyped, settings, store
  <1>3. CASE LookConnected
    <2>1. job' \in Jobs
      BY <1>3, LeaveTyped DEF LookConnected, Places
    <2> QED BY <2>1, <1>3 DEF LookConnected, Unpend, SettingsTyped, DriverTyped, RadioTyped, settings, store
  <1>4. CASE Terminate
    BY <1>4, MenuFacts DEF Terminate, KeepPending, SettingsTyped, DriverTyped, RadioTyped, settings, store
  <1>5. CASE TerminateFails
    BY <1>5, MenuFacts
    DEF TerminateFails, Unpend, Dropped, SettingsTyped, DriverTyped, RadioTyped, settings, store
  <1>6. CASE AdvertiseChosen
    BY <1>6, <1>s, MenuFacts, AdvertiseTyped
    DEF AdvertiseChosen, Dropped, SettingsTyped, DriverTyped, RadioTyped, settings, store
  <1>7. CASE ForgetBonds
    <2>1. job' \in Jobs
      BY <1>7, LeaveTyped DEF ForgetBonds, Places
    <2> QED BY <2>1, <1>7 DEF ForgetBonds, Unpend, SettingsTyped, DriverTyped, RadioTyped, settings, store
  <1>8. CASE ForgetConnection
    BY <1>8, MenuFacts DEF ForgetConnection, SettingsTyped, DriverTyped, RadioTyped, settings, store
  <1>9. CASE ForgetAndAdvertise
    <2>1. job' \in Jobs
      BY <1>9, LeaveTyped DEF ForgetAndAdvertise, Places
    <2>2. radio' \in Radios
      BY <1>9, Flagged DEF ForgetAndAdvertise, RadioTyped
    <2> QED BY <2>1, <2>2, <1>9 DEF ForgetAndAdvertise, SettingsTyped, DriverTyped, RadioTyped, settings, store
  <1>10. CASE Watchdog
    BY <1>10, <1>s, AdvertiseTyped DEF Watchdog, SettingsTyped, DriverTyped, RadioTyped, settings, store
  <1>11. ASSUME NEW d \in {1, Profiles - 1}, ChooseProfile(d)
         PROVE  Typed'
    <2>1. Turned(d) \in Nat
      BY <1>s, ChannelConstants DEF Turned
    <2>2. s' \in Modes
      BY <2>1, <1>11, Chose DEF ChooseProfile, SettingsTyped
    <2>3. job' \in Jobs /\ dirty' = TRUE
      BY <1>11, <1>s, WriteTyped DEF ChooseProfile, Reasons
    <2> QED BY <2>2, <2>3, <1>11 DEF ChooseProfile, SettingsTyped, DriverTyped, RadioTyped, ble, store
  <1> QED BY <1>1, <1>2, <1>3, <1>4, <1>5, <1>6, <1>7, <1>8, <1>9, <1>10, <1>11

\* The callbacks, and a start.
LEMMA CallbackStep ==
  ASSUME Typed, GapConnect \/ GapDisconnect \/ HidConnect \/ HidDisconnect \/ AfterDisconnect
  PROVE  Typed'
  <1> USE DEF Typed
  <1>1. CASE GapConnect
    <2>1. radio' \in Radios
      BY <1>1, Flagged DEF GapConnect, RadioTyped
    <2>2. hidEvents' \in Seq(Kinds)
      BY <1>1, EventAdded DEF GapConnect, RadioTyped, Kinds
    <2> QED BY <2>1, <2>2, <1>1 DEF GapConnect, SettingsTyped, DriverTyped, RadioTyped, settings, store
  <1>2. CASE GapDisconnect
    <2>1. radio' \in Radios
      BY <1>2, Flagged DEF GapDisconnect, RadioTyped
    <2>2. hidEvents' \in Seq(Kinds)
      BY <1>2, EventAdded DEF GapDisconnect, RadioTyped, Kinds
    <2> QED BY <2>1, <2>2, <1>2 DEF GapDisconnect, SettingsTyped, DriverTyped, RadioTyped, settings, store
  <1>3. CASE HidConnect
    <2>1. radio' \in Radios
      BY <1>3, Flagged DEF HidConnect, RadioTyped
    <2>2. hidEvents' \in Seq(Kinds)
      BY <1>3, EventTaken DEF HidConnect, RadioTyped
    <2> QED BY <2>1, <2>2, <1>3 DEF HidConnect, SettingsTyped, DriverTyped, RadioTyped, settings, store
  <1>4. CASE HidDisconnect
    <2>1. radio' \in Radios
      BY <1>4, Flagged DEF HidDisconnect, RadioTyped
    <2>2. hidEvents' \in Seq(Kinds)
      BY <1>4, EventTaken DEF HidDisconnect, RadioTyped
    <2>3. dropped' \in BOOLEAN
      BY <1>4, Zenon DEF HidDisconnect
    <2> QED BY <2>1, <2>2, <2>3, <1>4
            DEF HidDisconnect, TakePending, SettingsTyped, DriverTyped, RadioTyped, settings, store
  <1>5. CASE AfterDisconnect
    <2> DEFINE p == IF event = None THEN radio.identity ELSE event
    <2>1. p \in Nat
      BY <1>5 DEF AfterDisconnect, RadioTyped, Radios
    <2>2. AdvertiseWorks(p) \/ AdvertiseFails(p)
      BY <1>5 DEF AfterDisconnect
    <2> HIDE DEF p
    <2> QED BY <2>1, <2>2, <1>5, AdvertiseTyped
            DEF AfterDisconnect, SettingsTyped, DriverTyped, RadioTyped, settings, store
  <1> QED BY <1>1, <1>2, <1>3, <1>4, <1>5

\* What a start makes of the settings in flash.
LEMMA LoadedTyped ==
  ASSUME nvs \in Modes, NEW failed, NEW found, found = Loaded(failed)
  PROVE  found \in Modes
  BY DEF Loaded, Modes, Defaults

LEMMA PowerStep ==
  ASSUME Typed, PowerLoss
  PROVE  /\ Typed' /\ nvs' = nvs /\ dirty' = FALSE /\ job' = Menu
         /\ \A k \in DOMAIN nvs : s'[k] = nvs[k] \/ k \in unread'
         /\ radio'.identity = s'.profile /\ ~radio'.gap /\ pending' = None /\ event' = Quiet
         /\ hidEvents' = <<>>
         /\ Driven(s.usb)'
  <1>1. PICK failed \in SUBSET DOMAIN nvs :
          ready' \in {TRUE, failed # DOMAIN nvs} /\ Boot(Loaded(failed))
    BY DEF PowerLoss
  <1>n. nvs \in Modes /\ UNCHANGED nvs
    BY DEF PowerLoss, Typed, SettingsTyped
  <1>2. s' \in Modes /\ s'.profile \in Nat /\ s'.usb \in BOOLEAN
    <2>1. s' = Loaded(failed)
      BY <1>1 DEF Boot
    <2>2. s' \in Modes
      BY <2>1, <1>n, LoadedTyped
    <2> QED BY <2>2 DEF Modes
  <1>3. /\ dirty' = FALSE /\ ripe' = FALSE /\ unsaved' = FALSE /\ job' = Menu
        /\ unread' = {k \in DOMAIN nvs : s'[k] # nvs[k]}
        /\ pending' = None /\ closing' = FALSE /\ hidEvents' = <<>> /\ event' = Quiet
        /\ dropped' = FALSE
    BY <1>1 DEF Boot
  <1>4. PICK up \in BOOLEAN, started \in BOOLEAN :
          /\ radio' = [Silent EXCEPT !.identity = s'.profile, !.adv = up]
          /\ usb' = [enabled |-> s'.usb /\ started, installed |-> s'.usb /\ started]
          /\ usbFailed' = ~started
    BY <1>1 DEF Boot
  <1>5. radio' \in Radios /\ radio'.identity = s'.profile /\ ~radio'.gap
    BY <1>2, <1>4 DEF Silent, Radios
  <1>6. DriverTyped' /\ Driven(s.usb)'
    <2>1. (s'.usb /\ started) \in BOOLEAN /\ (~started) \in BOOLEAN
      OBVIOUS
    <2>2. /\ usb'.enabled = (s'.usb /\ started) /\ usb'.installed = usb'.enabled
          /\ usb' \in [enabled : BOOLEAN, installed : BOOLEAN]
      BY <1>4, <2>1, Drives
    <2> QED BY <1>4, <2>1, <2>2 DEF DriverTyped, Driven
  <1>7. SettingsTyped'
    BY <1>1, <1>2, <1>3, <1>n DEF SettingsTyped
  <1>8. RadioTyped'
    BY <1>3, <1>5, NoEvents DEF RadioTyped
  <1> QED BY <1>3, <1>5, <1>6, <1>7, <1>8, <1>n, MenuFacts DEF Typed

-----------------------------------------------------------------------------
(* The steps, by what they leave alone.                                    *)

SettingsAction ==
  \/ Adjust \/ Ripen \/ Service \/ WriteKey \/ WriteDone \/ WriteFails
  \/ ToggleUsb \/ SwitchUsb \/ SwitchUsbFails
SwitchAction ==
  \/ Pend \/ StopAdvertising \/ LookConnected \/ Terminate \/ TerminateFails
  \/ AdvertiseChosen \/ ForgetBonds \/ ForgetConnection \/ ForgetAndAdvertise \/ Watchdog
Callback == GapConnect \/ GapDisconnect \/ HidConnect \/ HidDisconnect \/ AfterDisconnect
Choice == \E d \in {1, Profiles - 1} : ChooseProfile(d)

LEMMA NextCases ==
  ASSUME [Next]_vars
  PROVE  SettingsAction \/ SwitchAction \/ Callback \/ Choice \/ PowerLoss \/ UNCHANGED vars
  BY DEF Next, MainStep, User, EventTask, NothingDue,
         SettingsAction, SwitchAction, Callback, Choice

LEMMA TypedStep ==
  ASSUME Typed, [Next]_vars
  PROVE  Typed'
  <1>1. CASE UNCHANGED vars
    BY <1>1
    DEF vars, settings, store, ble, Typed, SettingsTyped, DriverTyped, RadioTyped
  <1>2. CASE SettingsAction
    BY <1>2, SettingsStep DEF SettingsAction
  <1>3. CASE SwitchAction \/ Choice
    BY <1>3, RadioStep DEF SwitchAction, Choice
  <1>4. CASE Callback
    BY <1>4, CallbackStep DEF Callback
  <1> QED BY <1>1, <1>2, <1>3, <1>4, NextCases, PowerStep

\* The switch of a profile moves between places of its own, outside the store and
\* the driver.
LEMMA SwitchLeaves ==
  ASSUME Typed, SwitchAction
  PROVE  /\ UNCHANGED <<settings, usb, usbFailed>>
         /\ job.at \notin {"write", "usb"} /\ job'.at \notin {"write", "usb"}
  <1> USE JobFacts, MenuFacts, LeaveTyped DEF Typed, Places
  <1>1. CASE Pend
    BY <1>1 DEF Pend
  <1>2. CASE StopAdvertising
    BY <1>2 DEF StopAdvertising
  <1>3. CASE LookConnected
    BY <1>3 DEF LookConnected
  <1>4. CASE Terminate \/ TerminateFails \/ AdvertiseChosen
    BY <1>4 DEF Terminate, TerminateFails, AdvertiseChosen
  <1>5. CASE ForgetBonds
    BY <1>5 DEF ForgetBonds, Idle
  <1>6. CASE ForgetConnection
    BY <1>6 DEF ForgetConnection
  <1>7. CASE ForgetAndAdvertise
    BY <1>7 DEF ForgetAndAdvertise
  <1>8. CASE Watchdog
    BY <1>8 DEF Watchdog, Idle
  <1> QED BY <1>1, <1>2, <1>3, <1>4, <1>5, <1>6, <1>7, <1>8 DEF SwitchAction

LEMMA CallbackLeaves ==
  ASSUME Callback
  PROVE  UNCHANGED <<settings, job, usb, usbFailed>>
  BY DEF Callback, GapConnect, GapDisconnect, HidConnect, HidDisconnect, AfterDisconnect

\* A profile is chosen: its write begins, with the old one to go back to.
LEMMA ChoiceBegins ==
  ASSUME Typed, Choice
  PROVE  /\ job.at = "menu" /\ job'.at = "write" /\ job'.why = "profile" /\ job'.key = 1
         /\ job'.undo = s.profile /\ s'.usb = s.usb /\ dirty' = TRUE
         /\ UNCHANGED <<nvs, store, usb, usbFailed, ble>>
  <1>1. PICK d \in {1, Profiles - 1} : ChooseProfile(d)
    BY DEF Choice
  <1>2. s.profile \in Nat /\ s \in Modes
    BY SettingsFacts DEF Typed, SettingsTyped
  <1>3. Turned(d) \in Nat
    BY <1>2, ChannelConstants DEF Turned
  <1>4. s' = [s EXCEPT !.profile = Turned(d)]
    BY <1>1 DEF ChooseProfile
  <1>5. s'.usb = s.usb
    BY <1>2, <1>3, <1>4, Chose
  <1>6. Write("profile", s.profile)
    BY <1>1 DEF ChooseProfile
  <1>7. /\ job'.at = "write" /\ job'.why = "profile" /\ job'.key = 1 /\ job'.undo = s.profile
        /\ dirty' = TRUE
    BY <1>2, <1>6, WriteTyped DEF Reasons
  <1> QED BY <1>1, <1>5, <1>7 DEF ChooseProfile, Idle

-----------------------------------------------------------------------------
(* The settings in flash.                                                  *)

LEMMA SameKeys ==
  ASSUME SettingsTyped, \A i \in 1..3 : nvs[Keys[i]] = s[Keys[i]]
  PROVE  s = nvs
  <1>1. nvs[Keys[1]] = s[Keys[1]] /\ nvs[Keys[2]] = s[Keys[2]] /\ nvs[Keys[3]] = s[Keys[3]]
    OBVIOUS
  <1>2. nvs.volume = s.volume /\ nvs.profile = s.profile /\ nvs.usb = s.usb
    BY <1>1 DEF Keys
  <1> QED BY <1>2 DEF SettingsTyped, Modes

LEMMA SavedStep ==
  ASSUME Typed, Saved, [Next]_vars
  PROVE  Saved'
  <1> USE DEF Saved, InFlash
  <1>t. SettingsTyped /\ job \in Jobs
    BY DEF Typed
  <1>1. CASE UNCHANGED vars
    BY <1>1 DEF vars, settings, store
  <1>2. CASE Adjust \/ Ripen
    BY <1>2 DEF Adjust, Ripen, Idle, store
  <1>3. CASE Service \/ ToggleUsb
    <2>1. job'.at = "write" /\ job'.key = 1 /\ dirty' = TRUE
      BY <1>3, WriteTyped DEF Service, ToggleUsb, SaveFirst, Reasons
    <2> QED BY <2>1
  <1>4. CASE WriteKey
    <2>1. job.at = "write" /\ dirty /\ UNCHANGED <<s, dirty>>
      BY <1>4 DEF WriteKey
    <2>2. ASSUME NEW i \in 1..3, i < job.key + 1
          PROVE  nvs'[Keys[i]] = s[Keys[i]]
      BY <2>1, <2>2, <1>4, <1>t, KeyTyped
    <2> QED BY <2>1, <2>2, <1>4, <1>t, KeyTyped
  <1>5. CASE WriteDone
    <2>1. \A i \in 1..3 : i < job.key
      BY <1>5, <1>t, JobFacts DEF WriteDone, Keys
    <2>2. s = nvs
      BY <2>1, <1>5, <1>t, SameKeys DEF WriteDone
    <2>3. job'.at # "write"
      BY <1>5, <1>t, ThenTyped, MenuFacts DEF WriteDone
    <2> QED BY <2>2, <2>3, <1>5 DEF WriteDone
  <1>6. CASE WriteFails
    BY <1>6, MenuFacts DEF WriteFails, StillDirty
  <1>7. CASE SwitchUsb
    BY <1>7, MenuFacts DEF SwitchUsb, settings, store
  <1>8. CASE SwitchUsbFails
    BY <1>8, <1>t, UndoWritten DEF SwitchUsbFails
  <1>9. CASE SwitchAction
    BY <1>9, SwitchLeaves DEF settings, store
  <1>10. CASE Callback
    BY <1>10, CallbackLeaves DEF settings, store
  <1>11. CASE Choice
    BY <1>11, ChoiceBegins
  <1>12. CASE PowerLoss
    <2>1. DOMAIN s' = DOMAIN nvs
      BY <1>12, <1>t, PowerStep DEF Typed, SettingsTyped, Modes
    <2> QED BY <2>1, <1>12, PowerStep, MenuFacts
  <1> QED BY <1>1, <1>2, <1>3, <1>4, <1>5, <1>6, <1>7, <1>8, <1>9, <1>10, <1>11, <1>12, NextCases
          DEF SettingsAction

-----------------------------------------------------------------------------
(* USB.                                                                    *)

\* What a step that writes nothing to the driver and keeps the mode keeps.
LEMMA UsbKept ==
  ASSUME UsbGood, UNCHANGED <<usb, usbFailed, nvs, unsaved, unread>>, s'.usb = s.usb,
         job.at \notin {"write", "usb"},
         job'.at # "usb", job'.at = "write" => job'.why \notin {"usb", "rollback"}
  PROVE  UsbGood'
  BY DEF UsbGood, Switching, Undoing, Driven, ModeInFlash

LEMMA UsbStep ==
  ASSUME Typed, Saved, UsbGood, [Next]_vars
  PROVE  UsbGood'
  <1>t. SettingsTyped /\ job \in Jobs /\ DriverTyped
    BY DEF Typed
  <1>m. s \in Modes /\ s.usb \in BOOLEAN /\ nvs.usb \in BOOLEAN
    BY <1>t, SettingsFacts DEF SettingsTyped
  <1>1. CASE UNCHANGED vars
    BY <1>1 DEF vars, settings, store, UsbGood, Switching, Undoing, Driven, ModeInFlash
  <1>2. CASE Adjust
    <2>1. s'.usb = s.usb
      BY <1>2, <1>m, Tuned DEF Adjust
    <2> QED BY <2>1, <1>2, UsbKept DEF Adjust, Idle, store
  <1>3. CASE Ripen
    BY <1>3 DEF Ripen, store, UsbGood, Switching, Undoing, Driven, ModeInFlash
  <1>4. CASE Service
    <2>1. job'.at = "write" /\ job'.why = "service"
      BY <1>4, WriteTyped DEF Service, Reasons
    <2> QED BY <2>1, <1>4, UsbKept DEF Service, Idle, store
  <1>5. CASE WriteKey
    <2>1. /\ job.at = "write" /\ UNCHANGED <<s, unsaved, unread, usb, usbFailed>>
      BY <1>5 DEF WriteKey, store
    <2>2. job'.at = "write" /\ job'.why = job.why
      BY <1>5, <1>t, KeyTyped
    <2>3. nvs'.usb = nvs.usb \/ nvs'.usb = s.usb
      <3>1. job.key \in 1..3 /\ nvs'[Keys[job.key]] = s[Keys[job.key]]
            /\ \A i \in 1..3 : i # job.key => nvs'[Keys[i]] = nvs[Keys[i]]
        BY <1>5, <1>t, KeyTyped
      <3>2. Keys[3] = "usb"
        BY DEF Keys
      <3> QED BY <3>1, <3>2
    <2> QED BY <2>1, <2>2, <2>3 DEF UsbGood, Switching, Undoing, Driven, ModeInFlash
  <1>6. CASE WriteDone
    <2>1. \A i \in 1..3 : i < job.key
      BY <1>6, <1>t, JobFacts DEF WriteDone, Keys
    <2>2. s = nvs
      BY <2>1, <1>6, <1>t, SameKeys DEF WriteDone, Saved
    <2>3. job.at = "write" /\ unsaved' = FALSE /\ UNCHANGED <<s, nvs, usb, usbFailed>>
      BY <1>6 DEF WriteDone
    <2>4. \/ job.why = "usb" /\ job'.at = "usb"
          \/ job.why # "usb" /\ job'.at \notin {"usb", "write"}
      BY <1>6, <1>t, ThenTyped, MenuFacts DEF WriteDone
    <2>5. CASE job.why = "usb"
      BY <2>2, <2>3, <2>4, <2>5 DEF UsbGood, Switching, Undoing
    <2>6. CASE job.why # "usb"
      BY <2>2, <2>3, <2>4, <2>6 DEF UsbGood, Switching, Undoing, Driven, ModeInFlash
    <2> QED BY <2>5, <2>6
  <1>7. CASE WriteFails
    <2>1. /\ job.at = "write" /\ unsaved' = TRUE /\ job'.at = "menu"
          /\ UNCHANGED <<nvs, usb, usbFailed>>
      BY <1>7, MenuFacts DEF WriteFails
    <2>2. s'.usb = (IF job.why = "usb" THEN ~s.usb ELSE s.usb)
      BY <1>7, <1>t, UndoneTyped DEF WriteFails
    <2>3. CASE job.why = "usb"
      <3>1. s'.usb = ~s.usb /\ Driven(~s.usb)
        BY <2>1, <2>2, <2>3 DEF UsbGood, Switching
      <3>2. Driven(s.usb)'
        BY <2>1, <3>1 DEF Driven
      <3> QED BY <2>1, <3>2 DEF UsbGood, Switching, Undoing, ModeInFlash
    <2>4. CASE job.why # "usb"
      BY <2>1, <2>2, <2>4 DEF UsbGood, Switching, Undoing, Driven, ModeInFlash
    <2> QED BY <2>3, <2>4
  <1>8. CASE ToggleUsb
    <2>1. job'.at = "write" /\ job'.why = "usb"
      BY <1>8, WriteTyped DEF ToggleUsb, SaveFirst, Reasons
    <2>2. s'.usb = ~s.usb
      BY <1>8, <1>m, Toggled DEF ToggleUsb
    <2>3. Driven(s.usb) /\ UNCHANGED <<usb, usbFailed>>
      BY <1>8 DEF ToggleUsb, Idle, UsbGood, Switching
    <2>4. Driven(~s.usb)'
      BY <2>2, <2>3, <1>m DEF Driven
    <2> QED BY <2>1, <2>4 DEF UsbGood, Switching, Undoing
  <1>9. CASE SwitchUsb
    <2>1. usb'.enabled = s.usb
      BY <1>9, <1>m, Drives DEF SwitchUsb
    <2>2. job'.at = "menu" /\ UNCHANGED <<s, nvs>> /\ nvs.usb = s.usb
      BY <1>9, MenuFacts DEF SwitchUsb, settings, UsbGood
    <2> QED BY <2>1, <2>2 DEF UsbGood, Switching, Undoing, Driven, ModeInFlash
  <1>10. CASE SwitchUsbFails
    <2>1. job'.at = "write" /\ job'.why = "rollback"
      BY <1>10, <1>t, UndoWritten DEF SwitchUsbFails
    <2>2. s'.usb = ~s.usb
      BY <1>10, <1>m, Toggled DEF SwitchUsbFails
    <2>3. usb.enabled # s.usb /\ usb.enabled \in BOOLEAN /\ UNCHANGED <<usb, usbFailed>>
      BY <1>10, <1>t DEF SwitchUsbFails, DriverTyped
    <2>4. usb.enabled = ~s.usb
      BY <2>3, <1>m
    <2>5. Driven(s.usb)'
      BY <2>2, <2>3, <2>4, <1>m DEF Driven
    <2> QED BY <2>1, <2>5 DEF UsbGood, Switching, Undoing
  <1>11. CASE SwitchAction
    BY <1>11, SwitchLeaves, UsbKept DEF settings, store
  <1>12. CASE Callback
    BY <1>12, CallbackLeaves DEF settings, store, UsbGood, Switching, Undoing, Driven, ModeInFlash
  <1>13. CASE Choice
    BY <1>13, ChoiceBegins, UsbKept DEF store
  <1>14. CASE PowerLoss
    <2>1. nvs' = nvs /\ job'.at = "menu" /\ Driven(s.usb)'
      BY <1>14, PowerStep, MenuFacts
    <2>2. s'.usb = nvs.usb \/ "usb" \in unread'
      BY <1>14, <1>t, PowerStep DEF SettingsTyped, Modes
    <2> QED BY <2>1, <2>2 DEF UsbGood, Switching, Undoing, ModeInFlash
  <1> QED BY <1>1, <1>2, <1>3, <1>4, <1>5, <1>6, <1>7, <1>8, <1>9, <1>10, <1>11, <1>12, <1>13,
             <1>14, NextCases DEF SettingsAction

-----------------------------------------------------------------------------
(* The radio.                                                              *)

Resting == {"menu", "write", "usb", "forget"}

\* Without the radio a step keeps what holds between switches, if the profile that
\* is wanted stays; nothing is asked of a profile that is about to be pending.
LEMMA RadioKept ==
  ASSUME ChannelGood, UNCHANGED ble,
         job.at \in Resting,
         (job'.at \in {"menu", "write", "usb"} /\ Wanted' = Wanted) \/ job'.at = "pend"
  PROVE  ChannelGood'
  BY DEF ChannelGood, Resting, AtRest, Settled, Disconnected, Chosen, TakenOver, ble

LEMMA SettingsKeepRadio ==
  ASSUME Typed, ChannelGood, SettingsAction \/ Choice
  PROVE  ChannelGood'
  <1>t. SettingsTyped /\ job \in Jobs
    BY DEF Typed
  <1>m. s \in Modes
    BY <1>t DEF SettingsTyped
  <1>1. CASE Adjust
    <2>1. s'.profile = s.profile
      BY <1>1, <1>m, Tuned DEF Adjust
    <2> QED BY <2>1, <1>1, RadioKept DEF Adjust, Idle, Wanted, Resting
  <1>2. CASE Ripen
    BY <1>2 DEF Ripen, ChannelGood, AtRest, Settled, Disconnected, Chosen, TakenOver, Wanted, ble
  <1>3. CASE Service
    <2>1. job'.at = "write" /\ job'.why = "service"
      BY <1>3, WriteTyped DEF Service, Reasons
    <2> QED BY <2>1, <1>3, RadioKept DEF Service, Idle, Wanted, Resting
  <1>4. CASE WriteKey
    <2>1. job'.at = "write" /\ job'.why = job.why /\ job'.undo = job.undo
      BY <1>4, <1>t, KeyTyped
    <2> QED BY <2>1, <1>4, RadioKept DEF WriteKey, Wanted, Resting
  <1>5. CASE WriteDone
    BY <1>5, <1>t, ThenTyped, MenuFacts, RadioKept DEF WriteDone, Wanted, Resting, ble
  <1>6. CASE WriteFails
    <2>1. s'.profile = (IF job.why = "profile" THEN job.undo ELSE s.profile)
      BY <1>6, <1>t, UndoneTyped DEF WriteFails
    <2> QED BY <2>1, <1>6, MenuFacts, RadioKept DEF WriteFails, Wanted, Resting
  <1>7. CASE ToggleUsb
    <2>1. job'.at = "write" /\ job'.why = "usb" /\ s'.profile = s.profile
      BY <1>7, <1>m, Toggled, WriteTyped DEF ToggleUsb, SaveFirst, Reasons
    <2> QED BY <2>1, <1>7, RadioKept DEF ToggleUsb, Idle, Wanted, Resting
  <1>8. CASE SwitchUsb
    BY <1>8, MenuFacts, RadioKept DEF SwitchUsb, Wanted, Resting, settings
  <1>9. CASE SwitchUsbFails
    <2>1. job'.at = "write" /\ job'.why = "rollback" /\ s'.profile = s.profile
      BY <1>9, <1>m, <1>t, Toggled, UndoWritten DEF SwitchUsbFails
    <2> QED BY <2>1, <1>9, RadioKept DEF SwitchUsbFails, Wanted, Resting
  <1>10. CASE Choice
    BY <1>10, ChoiceBegins, RadioKept DEF Wanted, Resting
  <1> QED BY <1>1, <1>2, <1>3, <1>4, <1>5, <1>6, <1>7, <1>8, <1>9, <1>10 DEF SettingsAction

LEMMA SwitchGood ==
  ASSUME Typed, ChannelGood, SwitchAction
  PROVE  ChannelGood'
  <1>t. job \in Jobs /\ RadioTyped /\ s.profile \in Nat
    BY SettingsFacts DEF Typed
  <1>s. UNCHANGED <<s>>
    BY SwitchLeaves DEF settings
  <1>1. CASE Pend
    <2>1. job'.at = "stop"
      BY <1>1, <1>t, LeaveTyped DEF Pend, Places
    <2>2. ~dropped' => event \in {Quiet, None}
      <3>1. event \in Nat => event >= 0
        OBVIOUS
      <3>2. event >= 0 => dropped'
        BY <1>1, Zenon DEF Pend
      <3> QED BY <3>1, <3>2, <1>t DEF RadioTyped
    <2> QED BY <2>1, <2>2, <1>1, <1>s DEF Pend, ChannelGood, Chosen, TakenOver, Quiet, None
  <1>2. CASE StopAdvertising
    <2>1. job'.at = "connected?" /\ job.at = "stop"
      BY <1>2, <1>t, LeaveTyped DEF StopAdvertising, Places
    <2>2. radio'.gap = radio.gap
      BY <1>2, <1>t, Flagged DEF StopAdvertising, RadioTyped
    <2> QED BY <2>1, <2>2, <1>2, <1>s DEF StopAdvertising, ChannelGood, Chosen, TakenOver
  <1>3. CASE LookConnected
    <2>1. CASE radio.hid
      <3>1. job'.at = "terminate" /\ UNCHANGED pending
        BY <2>1, <1>3, <1>t, LeaveTyped DEF LookConnected, Places
      <3> QED BY <3>1, <1>3, <1>s DEF LookConnected, ChannelGood, Chosen, TakenOver
    <2>2. CASE ~radio.hid
      <3>1. job'.at = "advertise" /\ pending' = None
        BY <2>2, <1>3, <1>t, LeaveTyped DEF LookConnected, Places, Unpend
      <3> QED BY <3>1, <1>3, <1>s DEF LookConnected, ChannelGood, Chosen, TakenOver
    <2> QED BY <2>1, <2>2
  <1>4. CASE Terminate
    <2>1. job'.at = "menu" /\ job.at = "terminate" /\ closing' = TRUE /\ UNCHANGED pending
      BY <1>4, MenuFacts DEF Terminate, KeepPending
    <2>2. Wanted' = s.profile
      BY <2>1, <1>s DEF Wanted
    <2>3. s.profile # None /\ (dropped' = dropped)
      BY <1>4, <1>t DEF Terminate, None
    <2>4. ~dropped => pending = s.profile /\ event \in {Quiet, None} /\ TakenOver
      BY <2>1 DEF ChannelGood, Chosen
    <2>5. ~dropped => AtRest'
      BY <2>1, <2>2, <2>3, <2>4, <1>4, <1>s DEF Terminate, AtRest, Settled, Disconnected
    <2> QED BY <2>1, <2>3, <2>4, <2>5, <1>4 DEF Terminate, ChannelGood, TakenOver
  <1>5. CASE TerminateFails
    BY <1>5 DEF TerminateFails, Dropped, ChannelGood
  <1>6. CASE AdvertiseChosen
    <2>1. CASE AdvertiseFails(s.profile) /\ Dropped
      BY <2>1 DEF Dropped, ChannelGood
    <2>2. CASE AdvertiseWorks(s.profile) /\ UNCHANGED dropped
      <3>1. radio'.identity = s.profile /\ radio'.gap = radio.gap
        BY <2>2, <1>t DEF AdvertiseWorks, Advertised, RadioTyped, Radios
      <3>2. job'.at = "menu" /\ job.at = "advertise" /\ UNCHANGED <<pending, event, hidEvents>>
        BY <1>6, MenuFacts DEF AdvertiseChosen
      <3>3. Wanted' = s.profile
        BY <3>2, <1>s DEF Wanted
      <3> QED BY <3>1, <3>2, <3>3, <2>2
              DEF ChannelGood, AtRest, Settled, TakenOver
    <2> QED BY <2>1, <2>2, <1>6 DEF AdvertiseChosen
  <1>7. CASE ForgetBonds
    <2>1. job'.at = "forget" /\ job.at = "menu" /\ pending' = None
      BY <1>7, <1>t, LeaveTyped DEF ForgetBonds, Places, Unpend, Idle
    <2>2. Wanted' = Wanted
      BY <2>1, <1>s DEF Wanted
    <2>3. ~dropped' => ~dropped /\ pending = None
      BY <1>7 DEF ForgetBonds
    <2> QED BY <2>1, <2>2, <2>3, <1>7
            DEF ForgetBonds, ChannelGood, AtRest, Settled, Disconnected, TakenOver
  <1>8. CASE ForgetConnection
    <2>1. job'.at = "menu" /\ job.at = "forget" /\ (closing => closing')
      BY <1>8, <1>t, MenuFacts DEF ForgetConnection, RadioTyped
    <2>2. Wanted' = Wanted
      BY <2>1, <1>s DEF Wanted
    <2> QED BY <2>1, <2>2, <1>8
            DEF ForgetConnection, ChannelGood, AtRest, Settled, Disconnected, TakenOver
  <1>9. CASE ForgetAndAdvertise
    <2>1. job'.at = "advertise" /\ job.at = "forget"
      BY <1>9, <1>t, LeaveTyped DEF ForgetAndAdvertise, Places
    <2>2. Wanted = s.profile
      BY <2>1 DEF Wanted
    <2> QED BY <2>1, <2>2, <1>9, <1>s DEF ForgetAndAdvertise, ChannelGood, AtRest, TakenOver
  <1>10. CASE Watchdog
    <2>1. /\ ~radio.gap /\ job.at = "menu" /\ pending = None
          /\ UNCHANGED <<job, pending, closing, hidEvents, event, dropped>>
      BY <1>10 DEF Watchdog, Idle
    <2>2. radio'.gap = radio.gap
          /\ \/ radio'.identity = s.profile
             \/ radio'.identity = radio.identity /\ radio'.adv = radio.adv
      BY <1>10, <1>t, AdvertiseTyped DEF Watchdog
    <2>3. Wanted = s.profile /\ Wanted' = s.profile
      BY <2>1, <1>s DEF Wanted
    <2> QED BY <2>1, <2>2, <2>3
            DEF ChannelGood, AtRest, Settled, Disconnected, TakenOver
  <1> QED BY <1>1, <1>2, <1>3, <1>4, <1>5, <1>6, <1>7, <1>8, <1>9, <1>10 DEF SwitchAction

LEMMA CallbackGood ==
  ASSUME Typed, ChannelGood, Callback
  PROVE  ChannelGood'
  <1>t. RadioTyped /\ s.profile \in Nat /\ job \in Jobs
    BY SettingsFacts DEF Typed
  <1>s. UNCHANGED <<s, job>>
    BY CallbackLeaves DEF settings
  <1>w. Wanted' = Wanted
    BY <1>s DEF Wanted
  <1>1. CASE GapConnect
    <2>1. radio.adv /\ ~radio.gap /\ UNCHANGED <<pending, closing, event, dropped>>
      BY <1>1 DEF GapConnect
    <2>2. radio'.identity = radio.identity
      BY <1>1, <1>t, Flagged DEF GapConnect, RadioTyped
    <2>3. hidEvents' # <<>> /\ (Disconnected => Disconnected')
      BY <1>1, <1>t, EventAdded DEF GapConnect, RadioTyped, Kinds, Disconnected
    <2>4. AtRest => AtRest'
      BY <2>1, <2>2, <2>3, <1>w DEF AtRest, Settled
    <2> QED BY <2>1, <2>3, <2>4, <1>s DEF ChannelGood, Chosen, TakenOver
  <1>2. CASE GapDisconnect
    <2>1. radio.gap /\ UNCHANGED <<pending, event, dropped>>
      BY <1>2 DEF GapDisconnect
    <2>2. radio'.identity = radio.identity
      BY <1>2, <1>t, Flagged DEF GapDisconnect, RadioTyped
    <2>3. hidEvents' # <<>> /\ Disconnected'
      BY <1>2, <1>t, EventAdded DEF GapDisconnect, RadioTyped, Kinds, Disconnected
    <2>4. AtRest => AtRest'
      BY <2>1, <2>2, <2>3, <1>w DEF AtRest, Settled
    <2> QED BY <2>1, <2>3, <2>4, <1>s DEF ChannelGood, Chosen, TakenOver
  <1>3. CASE HidConnect
    <2>1. event = Quiet /\ UNCHANGED <<pending, closing, event, dropped>>
      BY <1>3 DEF HidConnect
    <2>2. /\ radio'.identity = radio.identity /\ radio'.adv = radio.adv
          /\ radio'.gap = radio.gap
      BY <1>3, <1>t, Flagged DEF HidConnect, RadioTyped
    <2>q. /\ hidEvents \in Seq(Kinds) /\ hidEvents # <<>> /\ hidEvents' = Tail(hidEvents)
          /\ Head(hidEvents) # "disconnect"
      BY <1>3, <1>t DEF HidConnect, RadioTyped
    <2>3. Disconnected' <=> Disconnected
      <3>1. /\ \A i \in DOMAIN hidEvents' :
                  i + 1 \in DOMAIN hidEvents /\ hidEvents'[i] = hidEvents[i + 1]
            /\ \A i \in DOMAIN hidEvents :
                 \/ hidEvents[i] = Head(hidEvents)
                 \/ i - 1 \in DOMAIN hidEvents' /\ hidEvents'[i - 1] = hidEvents[i]
        BY <2>q, EventTaken
      <3>2. ASSUME NEW i \in DOMAIN hidEvents', hidEvents'[i] = "disconnect"
            PROVE  Disconnected
        BY <3>1, <3>2 DEF Disconnected
      <3>3. ASSUME NEW i \in DOMAIN hidEvents, hidEvents[i] = "disconnect"
            PROVE  Disconnected'
        BY <3>1, <3>3, <2>q DEF Disconnected
      <3> QED BY <3>2, <3>3, Zenon DEF Disconnected
    <2>4. AtRest => AtRest'
      BY <2>1, <2>2, <2>3, <1>w DEF AtRest, Settled
    <2> QED BY <2>1, <2>4, <1>s DEF ChannelGood, Chosen, TakenOver, Quiet
  <1>4. CASE HidDisconnect
    <2>1. event = Quiet /\ event' = pending /\ pending' = None
      BY <1>4 DEF HidDisconnect, TakePending
    <2>2. radio'.identity = radio.identity /\ radio'.gap = radio.gap
      BY <1>4, <1>t, Flagged DEF HidDisconnect, RadioTyped
    <2>3. Disconnected
      BY <1>4, <1>t DEF HidDisconnect, RadioTyped, Disconnected, Kinds
    <2>4. ~dropped' => ~dropped /\ (pending = None \/ (Idle /\ ~radio.gap))
      BY <1>4 DEF HidDisconnect, Older
    <2>5. pending = None \/ (pending \in Nat /\ pending >= 0)
      BY <1>t DEF RadioTyped
    <2>6. ~dropped' /\ AtRest => AtRest'
      BY <2>1, <2>2, <2>3, <2>5, <1>w DEF AtRest, Settled, None, Quiet
    <2>7. ~dropped' => TakenOver'
      BY <2>1, <2>2, <2>4 DEF TakenOver, None
    <2>8. ~dropped' /\ job.at # "menu" => pending = None
      BY <2>4 DEF Idle
    <2>9. s.profile # None
      BY <1>t DEF None
    <2> QED BY <2>1, <2>4, <2>6, <2>7, <2>8, <2>9, <1>s DEF ChannelGood, Chosen
  <1>5. CASE AfterDisconnect
    <2> DEFINE p == IF event = None THEN radio.identity ELSE event
    <2>1. event # Quiet /\ event' = Quiet /\ UNCHANGED <<pending, closing, hidEvents>>
      BY <1>5 DEF AfterDisconnect
    <2>2. p \in Nat /\ (AdvertiseWorks(p) \/ AdvertiseFails(p))
      BY <1>5, <1>t DEF AfterDisconnect, RadioTyped, Radios
    <2>3. /\ radio'.gap = radio.gap
          /\ \/ radio'.identity = p
             \/ radio'.adv = radio.adv /\ radio'.identity = radio.identity
      <3> HIDE DEF p
      <3> QED BY <2>2, <1>t, AdvertiseTyped
    <2>4. ~dropped' => /\ ~dropped
                       /\ \/ event = None \/ radio'.identity = event
                          \/ ~radio.adv /\ hidEvents = <<>>
      BY <1>5 DEF AfterDisconnect
    <2>5. CASE event = None
      <3>1. radio'.identity = radio.identity
        BY <2>3, <2>5
      <3>2. AtRest => AtRest'
        BY <2>1, <2>5, <3>1, <1>w DEF AtRest, Settled, Disconnected, None
      <3> QED BY <2>1, <2>4, <3>2, <1>s DEF ChannelGood, Chosen, TakenOver, Quiet
    <2>6. CASE event # None
      <3>1. event \in Nat /\ event >= 0
        BY <2>1, <2>6, <1>t DEF RadioTyped
      <3>2. \/ radio'.identity = event
            \/ radio'.adv = radio.adv /\ radio'.identity = radio.identity
        BY <2>3, <2>6
      <3>3. AtRest => event = Wanted
        BY <2>1, <2>6 DEF AtRest
      <3>4. CASE radio'.identity = event
        <4>1. AtRest => AtRest'
          BY <2>1, <3>3, <3>4, <1>w DEF AtRest, Settled, Disconnected
        <4> QED BY <2>1, <2>4, <4>1, <1>s DEF ChannelGood, Chosen, TakenOver, Quiet
      <3>5. CASE radio'.identity # event
        <4>1. ~dropped' => ~radio'.adv /\ hidEvents = <<>>
          BY <2>4, <2>6, <3>2, <3>5
        <4>2. ~dropped' /\ TakenOver => ~radio'.gap
          BY <2>3, <3>1, <4>1 DEF TakenOver
        <4>3. ~dropped' => ~Disconnected'
          BY <2>1, <4>1, NoEvents DEF Disconnected
        <4>4. ~dropped' /\ TakenOver /\ AtRest => AtRest'
          BY <2>1, <4>1, <4>2, <4>3, <1>w DEF AtRest, Settled, Disconnected
        <4> QED BY <2>1, <2>4, <4>4, <1>s DEF ChannelGood, Chosen, TakenOver, Quiet
      <3> QED BY <3>4, <3>5
    <2> QED BY <2>5, <2>6
  <1> QED BY <1>1, <1>2, <1>3, <1>4, <1>5 DEF Callback

LEMMA ChannelStep ==
  ASSUME Typed, ChannelGood, [Next]_vars
  PROVE  ChannelGood'
  <1>1. CASE UNCHANGED vars
    BY <1>1 DEF vars, settings, ble, ChannelGood, AtRest, Settled, Disconnected, Chosen,
                TakenOver, Wanted
  <1>2. CASE PowerLoss
    <2>1. /\ job'.at = "menu" /\ radio'.identity = s'.profile /\ pending' = None
          /\ event' = Quiet
      BY <1>2, PowerStep, MenuFacts
    <2> QED BY <2>1 DEF ChannelGood, AtRest, Settled, Wanted, TakenOver, Quiet, None
  <1> QED BY <1>1, <1>2, NextCases, SettingsKeepRadio, SwitchGood, CallbackGood

-----------------------------------------------------------------------------

LEMMA ChannelInit ==
  ASSUME Init
  PROVE  ChannelInv
  <1>1. s = Defaults /\ nvs = Defaults /\ Defaults \in Modes /\ Defaults.usb = TRUE
        /\ Defaults.profile = 0
    BY DEF Init, Defaults, Modes
  <1>2. radio \in Radios /\ radio.identity = 0
    BY DEF Init, Silent, Radios
  <1>3. usb \in [enabled : BOOLEAN, installed : BOOLEAN] /\ usb.enabled = TRUE
        /\ usb.installed = TRUE
    BY DEF Init
  <1>4. job = Menu /\ pending = None /\ event = Quiet /\ hidEvents = <<>>
        /\ dirty = FALSE /\ ripe = FALSE /\ ready = TRUE /\ unsaved = FALSE
        /\ unread = {} /\ usbFailed = FALSE /\ closing = FALSE /\ dropped = FALSE
    BY DEF Init
  <1>5. Typed
    BY <1>1, <1>2, <1>3, <1>4, MenuFacts, NoEvents
    DEF Typed, SettingsTyped, DriverTyped, RadioTyped
  <1>6. Saved /\ UsbGood
    BY <1>1, <1>3, <1>4, MenuFacts
    DEF Saved, InFlash, UsbGood, Switching, Undoing, Driven, ModeInFlash
  <1>7. ChannelGood
    BY <1>1, <1>2, <1>4, MenuFacts
    DEF ChannelGood, AtRest, Settled, Wanted, TakenOver, Quiet, None
  <1> QED BY <1>5, <1>6, <1>7 DEF ChannelInv

THEOREM ChannelInvCorrect == Spec => []ChannelInv
  <1>1. Init => ChannelInv
    BY ChannelInit
  <1>2. ChannelInv /\ [Next]_vars => ChannelInv'
    BY TypedStep, SavedStep, UsbStep, ChannelStep DEF ChannelInv
  <1> QED BY <1>1, <1>2, PTL DEF Spec

-----------------------------------------------------------------------------
(* The properties of the runs.                                             *)

\* Between two handlers of the main task, a setting that differs from flash is marked
\* to be written, after a write that failed (commit_dirty()) and the undo of a refused
\* mode alike, or the start could not read it (load_settings()).
THEOREM NothingUnsavedCorrect == Spec => []NothingUnsaved
  <1>1. ChannelInv => NothingUnsaved
    BY DEF ChannelInv, Saved, InFlash, NothingUnsaved, Idle
  <1> QED BY <1>1, ChannelInvCorrect, PTL

\* A start that can read the USB mode finds the one the menu shows, unless the device
\* has reported that it could not be saved or could not be read itself, and the driver
\* does what the menu shows: the mode is saved before the driver changes, and taken
\* back when the driver refuses.
THEOREM UsbStaysOffCorrect == Spec => []UsbStaysOff
  <1>1. ChannelInv => UsbStaysOff
    BY DEF ChannelInv, UsbGood, UsbStaysOff, Idle, Switching, Undoing, Driven, ModeInFlash
  <1> QED BY <1>1, ChannelInvCorrect, PTL

\* Once the callbacks and the main task are at rest, a device that advertises has
\* the profile of the menu, unless it gave the switch up, however the disconnects,
\* new hosts and failures of companion_ble_select_profile() fell.
THEOREM ChannelAgreesCorrect == Spec => []ChannelAgrees
  <1>1. ASSUME Typed, ChannelGood
        PROVE  ChannelAgrees
    <2>1. SUFFICES ASSUME Idle, event = Quiet, ~closing,
                          \A i \in DOMAIN hidEvents : hidEvents[i] # "disconnect",
                          radio.adv, ~dropped
                   PROVE  radio.identity = s.profile
      BY DEF ChannelAgrees
    <2>2. AtRest /\ Wanted = s.profile
      BY <1>1, <2>1 DEF ChannelGood, Idle, Wanted
    <2>3. pending = None
      BY <2>1, <2>2 DEF AtRest, Disconnected
    <2> QED BY <2>1, <2>2, <2>3 DEF AtRest, Settled, Quiet
  <1>2. ChannelInv => ChannelAgrees
    BY <1>1 DEF ChannelInv
  <1> QED BY <1>2, ChannelInvCorrect, PTL

=============================================================================
