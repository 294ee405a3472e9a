---------------------------- MODULE HostChannel -----------------------------
(***************************************************************************)
(* The settings that decide how the device is reached, and what follows    *)
(* from changing them: the local menus, the settings store with its delay, *)
(* the USB driver, the three BLE profiles and their advertising.           *)
(*                                                                         *)
(* The main task runs the menus, the store and the advertising watchdog,   *)
(* one handler at a time; the NimBLE and HID callbacks run between any two *)
(* of its steps, and the power may go at any of them.                      *)
(***************************************************************************)
EXTENDS Integers, Sequences

CONSTANTS
  Profiles,  \* the BLE identities: 3
  MaxUser,   \* bound on what the user asks for
  MaxFaults, \* bound on the calls of NVS and of the drivers that fail
  MaxLinks,  \* bound on the BLE connections
  MaxCuts    \* bound on the losses of power

ASSUME ChannelConstants ==
  /\ Profiles \in Nat \ {0, 1}
  /\ {MaxUser, MaxFaults, MaxLinks, MaxCuts} \subseteq Nat

None == -1
Quiet == -2   \* event_callback() has nothing to advertise

VARIABLES
  s,         \* model::state: the settings in use
  nvs,       \* the same settings in flash
  dirty,     \* settings_dirty
  ripe,      \* dirty for kWriteDebounceMs
  ready,     \* ready: init() has opened the partition
  job,       \* the main task: where it is, for what, the key it writes, the undo
  usb,       \* usb_transport: enabled, installed
  radio,     \* the address in use, advertising, connection_handle, connected
  pending,   \* pending_profile
  closing,   \* the stack has taken a disconnect that is not reported yet
  hidEvents, \* HID events on their way to event_callback()
  event,     \* event_callback() after a disconnect: the profile it took over
  spent,     \* what has happened so far, see the bounds
  unsaved,   \* history: the last write of the settings failed
  unread,    \* history: settings in use by default, for the start did not find the stored ones
  usbFailed, \* history: USB could not be started with the device
  dropped    \* history: a switch of profile was given up, see Dropped

store == <<ready, unsaved, unread>>
settings == <<s, nvs, dirty, ripe, store>>
ble == <<radio, pending, closing, hidEvents, event, dropped>>
vars == <<settings, job, usb, usbFailed, ble, spent>>

\* The keys write_settings() writes, in its order; "volume" stands for the five
\* settings that nothing but the menu looks at.
Keys == <<"volume", "profile", "usb">>
Defaults == [volume |-> 1, profile |-> 0, usb |-> TRUE]

Menu == [at |-> "menu", why |-> "none", key |-> 1, undo |-> 0]
Idle == job.at = "menu"
Silent == [identity |-> 0, adv |-> FALSE, gap |-> FALSE, hid |-> FALSE]

Spend(what) == spent' = [spent EXCEPT ![what] = @ + 1]
May(what) == spent[what] < (CASE what = "user" -> MaxUser [] what = "faults" -> MaxFaults
                              [] what = "links" -> MaxLinks [] what = "cuts" -> MaxCuts)
Works == UNCHANGED spent
Fails == May("faults") /\ Spend("faults")

-----------------------------------------------------------------------------
(* The settings store.                                                     *)

\* A setting of its own, saved with a delay: adjust_volume(), toggle_sound(), ...
Adjust ==
  /\ Idle /\ May("user") /\ Spend("user")
  /\ s' = [s EXCEPT !.volume = 1 - @]
  /\ dirty' = TRUE /\ ripe' = FALSE
  /\ UNCHANGED <<nvs, store, job, usb, usbFailed, ble>>

Ripen ==
  /\ dirty /\ ~ripe /\ ripe' = TRUE
  /\ UNCHANGED <<s, nvs, dirty, store, job, usb, usbFailed, ble, spent>>

\* flush(), or service() when the delay is over.
Write(why, undo) ==
  /\ job' = [at |-> "write", why |-> why, key |-> 1, undo |-> undo]
  /\ dirty' = TRUE

Due == dirty /\ ripe

Service ==
  /\ Idle /\ Due
  /\ Write("service", 0)
  /\ UNCHANGED <<s, nvs, ripe, store, usb, usbFailed, ble, spent>>

\* service() before the delay is over, and a watchdog with nothing to do.
NothingDue == Idle /\ UNCHANGED vars

\* write_settings(), one key at a time,
WriteKey ==
  /\ job.at = "write" /\ job.key <= Len(Keys) /\ ready
  /\ nvs' = [nvs EXCEPT ![Keys[job.key]] = s[Keys[job.key]]]
  /\ job' = [job EXCEPT !.key = @ + 1]
  /\ UNCHANGED <<s, dirty, ripe, store, usb, usbFailed, ble, spent>>

\* the commit, and what the caller does next,
Then(why) == CASE why = "usb" -> [job EXCEPT !.at = "usb"]
               [] why = "profile" -> [job EXCEPT !.at = "pend"]
               [] OTHER -> Menu

WriteDone ==
  /\ job.at = "write" /\ job.key > Len(Keys)
  /\ dirty' = FALSE /\ unsaved' = FALSE /\ unread' = {}
  /\ job' = Then(job.why)
  /\ UNCHANGED <<s, nvs, ripe, ready, usb, usbFailed, ble, spent>>

\* or a failure at any of them, and at once without the partition: the settings stay
\* dirty and will be written again later, and the caller takes the change back.
Forgotten == dirty' = FALSE
StillDirty == dirty' = TRUE

Undone == CASE job.why = "usb" -> [s EXCEPT !.usb = ~@]
            [] job.why = "profile" -> [s EXCEPT !.profile = job.undo]
            [] OTHER -> s

WriteFails ==
  /\ job.at = "write" /\ (IF ready THEN Fails ELSE Works)
  /\ StillDirty /\ ripe' = FALSE /\ unsaved' = TRUE
  /\ s' = Undone
  /\ job' = Menu
  /\ UNCHANGED <<nvs, ready, unread, usb, usbFailed, ble>>

-----------------------------------------------------------------------------
(* USB HID, from the debug menu.                                           *)

\* The mode is saved before it changes.
SaveLater == job' = [Menu EXCEPT !.at = "usb", !.why = "usb"] /\ dirty' = TRUE
SaveFirst == Write("usb", 0)

ToggleUsb ==
  /\ Idle /\ May("user") /\ Spend("user")
  /\ s' = [s EXCEPT !.usb = ~@]
  /\ SaveFirst
  /\ UNCHANGED <<nvs, ripe, store, usb, usbFailed, ble>>

\* companion_usb_set_enabled() succeeds,
SwitchUsb ==
  /\ job.at = "usb"
  /\ usb' = [enabled |-> s.usb, installed |-> s.usb]
  /\ usbFailed' = FALSE
  /\ job' = Menu
  /\ UNCHANGED <<settings, ble, spent>>

\* or the driver refuses: an uninstall that fails enables it again, and the old
\* mode is saved.
SaveUndo == [job EXCEPT !.at = "write", !.why = "rollback", !.key = 1]

SwitchUsbFails ==
  /\ job.at = "usb" /\ usb.installed # s.usb /\ Fails
  /\ s' = [s EXCEPT !.usb = ~@]
  /\ dirty' = TRUE
  /\ job' = SaveUndo
  /\ UNCHANGED <<nvs, ripe, store, usb, usbFailed, ble>>

-----------------------------------------------------------------------------
(* BLE: advertise_profile() and the callbacks.                             *)

\* ble_hs_id_set_rnd() and esp_hid_ble_gap_adv_start(): either may fail, and both
\* may while the device advertises already (on the other task's account).
Advertised(p) == [radio EXCEPT !.identity = p, !.adv = TRUE]
AdvertiseWorks(p) == radio' = Advertised(p) /\ Works
AdvertiseFails(p) ==
  /\ (radio.adv /\ Works) \/ Fails
  /\ radio' \in {radio, [radio EXCEPT !.identity = p]}

\* observe_gap_event(): the connection handle.
GapConnect ==
  /\ radio.adv /\ ~radio.gap /\ May("links") /\ Spend("links")
  /\ radio' = [radio EXCEPT !.adv = FALSE, !.gap = TRUE]
  /\ hidEvents' = Append(hidEvents, "connect")
  /\ UNCHANGED <<settings, job, usb, usbFailed, pending, closing, event, dropped>>

\* A disconnect that was asked for, or the host that leaves.
GapDisconnect ==
  /\ radio.gap
  /\ radio' = [radio EXCEPT !.gap = FALSE]
  /\ closing' = FALSE
  /\ hidEvents' = Append(hidEvents, "disconnect")
  /\ UNCHANGED <<settings, job, usb, usbFailed, pending, event, dropped, spent>>

\* ESP_HIDD_CONNECT_EVENT
HidConnect ==
  /\ event = Quiet /\ hidEvents # <<>> /\ Head(hidEvents) = "connect"
  /\ radio' = [radio EXCEPT !.hid = TRUE]
  /\ hidEvents' = Tail(hidEvents)
  /\ UNCHANGED <<settings, job, usb, usbFailed, pending, closing, event, dropped, spent>>

\* ESP_HIDD_DISCONNECT_EVENT takes the profile that waits for it,
LeavePending == UNCHANGED pending
TakePending == pending' = None

\* The disconnect is that of an older connection than the one a switch ends.
Older == ~Idle \/ radio.gap \/ Len(hidEvents) > 1

HidDisconnect ==
  /\ event = Quiet /\ hidEvents # <<>> /\ Head(hidEvents) = "disconnect"
  /\ radio' = [radio EXCEPT !.hid = FALSE]
  /\ hidEvents' = Tail(hidEvents)
  /\ event' = pending
  /\ TakePending
  /\ dropped' = (dropped \/ (pending # None /\ Older))
  /\ UNCHANGED <<settings, job, usb, usbFailed, closing, spent>>

\* and advertises it, or goes on with the address in use.  If the address cannot be
\* changed, a device that advertises already, or has another host by now, keeps the old
\* one; else the watchdog tries again.
AfterDisconnect ==
  /\ event # Quiet
  /\ LET p == IF event = None THEN radio.identity ELSE event
     IN AdvertiseWorks(p) \/ AdvertiseFails(p)
  /\ dropped' = \/ dropped
                \/ /\ event # None /\ radio'.identity # event
                   /\ radio.adv \/ hidEvents # <<>>
  /\ event' = Quiet
  /\ UNCHANGED <<settings, job, usb, usbFailed, pending, closing, hidEvents>>

-----------------------------------------------------------------------------
(* The choice of a profile, from the menu: companion_ble_select_profile(). *)

\* One step to the right, or to the left, round the profiles.
Turned(d) == (s.profile + d) % Profiles

ChooseProfile(d) ==
  /\ Idle /\ May("user") /\ Spend("user")
  /\ s' = [s EXCEPT !.profile = Turned(d)]
  /\ Write("profile", s.profile)
  /\ UNCHANGED <<nvs, ripe, store, usb, usbFailed, ble>>

\* A switch that is given up: the user is told so ("BLE SWITCH FAILED", "Try
\* again"), a reset of the bonds cancels it, or the callback of an older connection
\* was about to advertise, took the profile over while the switch began, or found
\* the device advertising or connected already and its address not to be changed.
Dropped == dropped' = TRUE
Leave(at) == job' = [job EXCEPT !.at = at]

Pend ==
  /\ job.at = "pend"
  /\ pending' = s.profile
  /\ dropped' = (event >= 0)
  /\ Leave("stop")
  /\ UNCHANGED <<settings, usb, usbFailed, radio, closing, hidEvents, event, spent>>

StopAdvertising ==
  /\ job.at = "stop"
  /\ radio' = [radio EXCEPT !.adv = FALSE]
  /\ Leave("connected?")
  /\ UNCHANGED <<settings, usb, usbFailed, pending, closing, hidEvents, event, dropped, spent>>

Unpend == pending' = None

LookConnected ==
  /\ job.at = "connected?"
  /\ IF radio.hid THEN Leave("terminate") /\ UNCHANGED pending
     ELSE Leave("advertise") /\ Unpend
  /\ UNCHANGED <<settings, usb, usbFailed, radio, closing, hidEvents, event, dropped, spent>>

\* ble_gap_terminate(): the switch goes on when the disconnect is reported.
KeepPending == UNCHANGED pending

Terminate ==
  /\ job.at = "terminate" /\ radio.gap /\ ~closing
  /\ closing' = TRUE
  /\ KeepPending
  /\ job' = Menu
  /\ UNCHANGED <<settings, usb, usbFailed, radio, hidEvents, event, dropped, spent>>

\* No handle any more, or the disconnect is refused, as it is when one is under way.
TerminateFails ==
  /\ job.at = "terminate"
  /\ ((~radio.gap \/ closing) /\ Works) \/ Fails
  /\ Unpend /\ Dropped
  /\ job' = Menu
  /\ UNCHANGED <<settings, usb, usbFailed, radio, closing, hidEvents, event>>

\* Without a connection the profile is advertised at once.
AdvertiseChosen ==
  /\ job.at = "advertise"
  /\ \/ AdvertiseWorks(s.profile) /\ UNCHANGED dropped
     \/ AdvertiseFails(s.profile) /\ Dropped
  /\ job' = Menu
  /\ UNCHANGED <<settings, usb, usbFailed, pending, closing, hidEvents, event>>

\* companion_ble_forget_bonds(), once the store has erased them (see BondStore).
ForgetBonds ==
  /\ Idle /\ May("user") /\ Spend("user")
  /\ Unpend
  /\ dropped' = (dropped \/ pending # None)
  /\ Leave("forget")
  /\ UNCHANGED <<settings, usb, usbFailed, radio, closing, hidEvents, event>>

ForgetConnection ==
  /\ job.at = "forget" /\ radio.gap
  /\ closing' \in {closing, TRUE}
  /\ job' = Menu
  /\ UNCHANGED <<settings, usb, usbFailed, radio, pending, hidEvents, event, dropped, spent>>

ForgetAndAdvertise ==
  /\ job.at = "forget" /\ ~radio.gap
  /\ radio' = [radio EXCEPT !.adv = FALSE]
  /\ Leave("advertise")
  /\ UNCHANGED <<settings, usb, usbFailed, pending, closing, hidEvents, event, dropped, spent>>

\* companion_ble_service(): without a connection the device advertises.
Watchdog ==
  /\ Idle /\ ~radio.gap /\ ~radio.adv /\ pending = None
  /\ AdvertiseWorks(s.profile) \/ AdvertiseFails(s.profile)
  /\ UNCHANGED <<settings, job, usb, usbFailed, pending, closing, hidEvents, event, dropped>>

-----------------------------------------------------------------------------

\* load_settings(): what cannot be read keeps its default; nothing can if the partition
\* or the namespace does not open.
Loaded(failed) == [k \in DOMAIN nvs |-> IF k \in failed THEN Defaults[k] ELSE nvs[k]]

\* app_main(): the settings, then BLE and, if it is wanted, USB.
Boot(found) ==
  /\ s' = found /\ dirty' = FALSE /\ ripe' = FALSE
  /\ unsaved' = FALSE /\ unread' = {k \in DOMAIN nvs : found[k] # nvs[k]}
  /\ job' = Menu
  /\ pending' = None /\ closing' = FALSE /\ hidEvents' = <<>> /\ event' = Quiet
  /\ dropped' = FALSE
  /\ \E up, started \in BOOLEAN :
       /\ radio' = [Silent EXCEPT !.identity = found.profile, !.adv = up]
       /\ usb' = [enabled |-> found.usb /\ started, installed |-> found.usb /\ started]
       /\ usbFailed' = ~started

PowerLoss ==
  /\ May("cuts")
  /\ \E failed \in SUBSET DOMAIN nvs :
       /\ failed = {} \/ May("faults")
       /\ spent' = [spent EXCEPT !.cuts = @ + 1, !.faults = IF failed = {} THEN @ ELSE @ + 1]
       /\ ready' \in {TRUE, failed # DOMAIN nvs}
       /\ Boot(Loaded(failed))
  /\ UNCHANGED nvs

Init ==
  /\ s = Defaults /\ nvs = Defaults
  /\ dirty = FALSE /\ ripe = FALSE /\ ready = TRUE /\ unsaved = FALSE /\ unread = {}
  /\ job = Menu
  /\ usb = [enabled |-> TRUE, installed |-> TRUE] /\ usbFailed = FALSE
  /\ radio = [Silent EXCEPT !.adv = TRUE]
  /\ pending = None /\ closing = FALSE /\ hidEvents = <<>> /\ event = Quiet
  /\ dropped = FALSE
  /\ spent = [user |-> 0, faults |-> 0, links |-> 0, cuts |-> 0]

MainStep ==
  \/ Service \/ WriteKey \/ WriteDone \/ WriteFails
  \/ SwitchUsb \/ SwitchUsbFails
  \/ Pend \/ StopAdvertising \/ LookConnected \/ Terminate \/ TerminateFails
  \/ AdvertiseChosen \/ ForgetConnection \/ ForgetAndAdvertise
  \/ Watchdog \/ NothingDue

User == Adjust \/ ToggleUsb \/ ForgetBonds \/ \E d \in {1, Profiles - 1} : ChooseProfile(d)

EventTask == HidConnect \/ HidDisconnect \/ AfterDisconnect

Next == MainStep \/ User \/ EventTask \/ GapConnect \/ GapDisconnect \/ Ripen \/ PowerLoss

Spec == Init /\ [][Next]_vars

\* The main loop goes on and comes to the watchdog every turn, whatever the store does
\* before it; the events are delivered, a disconnect under way ends, and time passes.
\* Users, hosts and the power owe nothing.
FairSpec ==
  /\ Spec
  /\ WF_vars(MainStep) /\ SF_vars(Watchdog) /\ WF_vars(EventTask)
  /\ WF_vars(closing /\ GapDisconnect) /\ WF_vars(Ripen)

-----------------------------------------------------------------------------
(* Properties.                                                             *)

\* "Neither path can lose the last change" (CHANGELOG.md:647-648): between two
\* handlers, a setting that is not in flash as it is in use is marked to be written,
\* whichever write, undo or start left it so.  The exception is a setting that the
\* start could not read: it is in use by default, and the first save of any setting
\* writes that default over the stored value.
NothingUnsaved == Idle /\ ~dirty => \A k \in DOMAIN s : s[k] = nvs[k] \/ k \in unread

\* "Persist before removing USB so an unexpected cable event or reset cannot
\* resurrect a mode the user explicitly disabled" (main.cpp:591): a start that can
\* read the mode finds the one the menu shows, off or on, unless the device has
\* reported that the settings could not be saved, or shows a default already because
\* it could not read the mode itself; and the driver does what the menu shows.
UsbStaysOff ==
  Idle => /\ IF s.usb THEN usb.enabled \/ usbFailed ELSE ~usb.enabled
          /\ nvs.usb = s.usb \/ unsaved \/ "usb" \in unread

\* "A change of channel is saved and switches the BLE session" (SCENARIOS.ru.md:22):
\* once the callbacks and the main task are at rest, the device advertises the
\* profile that the menu shows, unless it gave the switch up.
ChannelAgrees ==
  /\ Idle /\ event = Quiet /\ ~closing
  /\ \A i \in DOMAIN hidEvents : hidEvents[i] # "disconnect"
  /\ radio.adv /\ ~dropped
  => radio.identity = s.profile

\* Without a connection the device can be found again, whatever failed on the
\* way (the watchdog of companion_ble_service()).
ComesBack == ~radio.gap ~> radio.gap \/ radio.adv

=============================================================================
