# Verification of the codex-micro firmware

TLA+ modules, TLC configurations and TLAPS proofs for the firmware in `main/`: an
ESP32-S3 macro pad with a round panel that speaks the Codex RPC protocol over USB HID
and BLE HID, shows the state of six chats, announces their changes with an animation and
a sound, and sends key, dial and joystick events back.

Paths below are relative to the repository; line numbers are those of the modelled commit.

1. [Inventory](#1-inventory) – the parts of the system
2. [Plan](#2-plan) – modules written and to be written
3. [Modules](#3-modules) – how each one corresponds to the code
4. [Runs](#4-runs) – what TLC checks, on which instances, under which fairness
5. [Proofs](#5-proofs) – what TLAPS proves
6. [Where code and documents disagree](#6-where-code-and-documents-disagree)
7. [What is left out](#7-what-is-left-out)

## How to run

    tlc -workers 2 -config StatusEvents.cfg MCStatusEvents      # a run
    tlapm StatusEventsProofs.tla                                # a proof module

`PROJECT.json` lists every run with its module, configuration and properties, the source
lines of every definition, a mutant of the code for every property, and the hazards.

## 1. Inventory

Tasks. `app_main` ends in one loop (`main.cpp:1132-1262`): it polls the serial link, runs
`companion_ble_service()` (which drains the outbound rings of both transports and the
retries), `codex_micro::service()`, the offline grace, the keys and the microphone
button, the deferred settings, `ui::service()` and the puzzle unit. TinyUSB and the
Bluetooth host run callbacks on tasks of their own; `synth_task` renders scores on the
second core. Everything else is called from the main loop.

| Part | State | Operations | Talks to | Hard behaviour | Correct when |
|---|---|---|---|---|---|
| **Codex session** (`codex_micro_protocol.cpp`, `session_sync.h`) | per transport: epoch, liveness stamp, reset flag, assembler, handshake mask, settle hold; the inbound queue; `presentation_owner` | enqueue on a callback task, `reset_transport`, `service`, `handle`, `note_valid_rpc`, `begin_session_sync` | callbacks of both transports (atomics, FreeRTOS queue), reducer, UI | resets between any two steps of the main task; 32-bit clock; fragments | the live, preferred transport owns the presentation; nothing of one connection acts in the next; the first frame of a session is a baseline |
| **RPC framing** (`rpc_framer.h`) | buffer of 4096 bytes | `feed`, `reset` | session | overflow and resynchronisation | a line is a whole JSON object of one connection |
| **Status reducer and takeover player** (`status_reducer.h`, `model.h`, `ui.cpp`) | six task records, selection, queue of announcements, the animation | `apply_thread_lights`, `queue_announcement`, `ui::service`, finaliser, settling, `mark_done_viewed` | session (frames), audio (scores), keys (selection, menus) | four writers of the unread mark, replaced and interrupted announcements, restorations | announcements are current, in turn and all played; green means unread |
| **Status scores** (`audio.cpp`) | request, published score, armed and playing buffer, two PCM buffers | `request_status`, `synth_task`, `status_ready`, `arm_status`, `play_prepared_status`, `boot_music` | player, speaker DMA | two cores over single atomics | what is heard is the score of the takeover, whole |
| **Outbound reports** (`usb_transport.cpp`, `ble_transport.cpp`) | per transport a ring with generations; one list of retries | `transmit`, `*_send_rpc`, `*_service`, `companion_codex_key`, callbacks | host, session | a busy endpoint, reconnection in the middle of a message | nothing twice, nothing torn, nothing of an old connection, in order |
| **Keys to controls** (`keys.cpp`, `input_event_queue.h`, `main.cpp`) | memory of held keys, queue of 24 events, per-control transport, voice gesture | scan, push and evict, wake swallow, gates, `send_key_to` | outbound, UI, power | full queue, ghosted matrix, a transport that changes between press and release | every control a host sees held is held, or its release is on the way to that host |
| **Host selection** (`host_select.h`, `codex_micro_protocol.cpp`) | previous lamps, guard deadline | `infer`, the picker guard | reducer, UI | several cues in one frame, a guard around the dial | a frame of the chats is never taken for a picker |
| **Composer and stick pages** (`ui.cpp`, `main.cpp`) | page, its timeouts, quarantine, saved screen | open, dial, click, Esc, `composer_overlay`, screenshot scenes | reducer, keys, host | frames, keys and timeouts close it in any order; nothing in a frame says what it is | the deck shows the chats of the host; Esc ends the page |
| **Serial link** (`link.cpp`, `main.cpp`) | line buffer, staged tasks | `poll`, HOST/TASK/TASKS | model | lost and refused lines, a restarted sender | what is committed is one batch; unread marks move with their threads |
| **Settings store** (`store.cpp`) | settings, dirty deadline, NVS | deferred save, immediate save, load, USB switch with rollback | NVS, USB driver | power loss between two keys, one call of several failing | a change is in flash or will be; a failed switch is undone |
| **Bond store** (`ble_store_apps_nvs.cpp`) | bonds in RAM and NVS | read, write, delete, reset, migration | Bluetooth host | power loss between count and record, two tasks without a lock | what was confirmed survives, what was removed never comes back |
| **BLE profiles** (`ble_transport.cpp`) | wanted and pending profile, advertising | switch, forget, watchdog | Bluetooth callbacks | callback against a failed disconnect | the radio has the profile the menu shows; the device can always be found |
| **Offline grace, joystick, voice** (`main.cpp`) | deadlines, remembered transports | loop steps | session, outbound | a deadline against a late answer | no stuck stick, no open microphone |
| **Display power** (`ui.cpp`) | power state, deadlines | `service_power`, `wake` | keys | a wake against a held key | never dark while something is announced |
| **Adaptive BLE power** (`adaptive_ble_power.h`) | tier, average | `sample` | BLE | hysteresis at the edges | no oscillation, tier within limits |
| **Puzzle unit** (`puzzle_unit.cpp`) | presence, back-off | probe, publish | model (read only) | an I2C failure between probe and publish | the matrix mirrors the table |
| Drawing, fonts, synthesis, start-up, host tools | – | – | – | – | not a matter of states |

The hazards, each at the line where it bites, are in `PROJECT.json`, with the properties
that would notice.

## 2. Plan

The modules in the order they were written, with what is left at the end.

| Module | Subject | State |
|---|---|---|
| `CodexSession` | sessions and ownership | modelled, checked, six theorems |
| `StatusEvents` | lamps to announcements | modelled, checked, seven theorems |
| `OutboundReports` | rings and retries | modelled, checked, four theorems |
| `StatusAudio` | scores on two cores | modelled, checked, three theorems |
| `InputEdges`, `EdgeQueue` | keys to controls held by a host; the abstract queue | modelled, checked, two theorems, one of them the refinement |
| `BondStore` | bonds across failures and restarts | modelled, checked, two theorems |
| `HostChannel` | settings store, USB switch, profiles, advertising | modelled, checked, three theorems |
| `StagedDeck` | the deck sent over the serial line | modelled, checked, four theorems |
| `HostSurface` | control page against the surface of the host | modelled, checked, one theorem |
| `HostSelect`, `RpcFramer` | `infer()` and the scan for an object: pure operators against a reference definition | left |
| `DisplayPower`, `AdaptivePower`, `PuzzleUnit` | small controllers that compare an age or an average with thresholds | left, see section 7 |

How they compose. Each module takes from the others the least it needs, as an
action or a premise: `StatusEvents` takes the baseline of `CodexSession` as an action
(a new session may come at any time), `StatusAudio` the queue of `StatusEvents` with the part the
sound sees, `OutboundReports` and `InputEdges` the `active_transport` of `CodexSession`, and
`InputEdges` a send that may be refused from `OutboundReports`. `StagedDeck` writes the
task table that `StatusEvents` writes when a session is up; only one of them is the
writer at a time. `HostChannel` composes four parts that are one in the code:
the menu, the store, the USB driver and the radio. `EdgeQueue` is the only abstract
specification; `InputEdges` implements it.

Every safety property of the runs is stated by a theorem; what is left is liveness (section 5).
None of the modules declares a RECURSIVE operator.

## 3. Modules

Every module keeps the names of the source where TLA+ allows it. An operator before the
operator it resembles (`QueuedUnbounded` before `Queued`) is a mutant: what the code would
be with a plausible slip. It is not used by the specification.

### `CodexSession` – who owns the presentation

Source: `codex_micro_protocol.cpp`, `session_sync.h`, the assembler of `rpc_framer.h`, and
the callbacks of both transports as far as they reach it.

| Code | Model |
|---|---|
| `epoch`, `last_valid_ms`, `reset_pending` (atomics of `TransportState`) | `epoch`, `lastValid`, `resetPending` |
| the FreeRTOS queue of reports | `queue`, with the drop of a report that does not fit |
| `Assembler` | `buffer`, a sequence of fragments: a message is `whole`, or `head` and `tail` |
| `Tracker` | `mask`, `holdUntil` |
| `presentation_owner` | `owner` |
| a program counter per task | `pc`, `cbPc` |

`reset_transport()` is three stores, and each is a step: `LinkChange`, `LinkChangeStamp`,
`LinkChangeFlag` on a callback task, and on the main task `ToggleUsb` (the switch of USB) or
`ForgetBonds` (the reset of the BLE bonds, with the link up or not), each followed by the two steps of
`FinishReset`. `service()` is eight
steps, so that a callback can run between any two reads of shared state: two
`ApplyPendingReset`, `TakeReport`, `FeedReport` (epoch check, assembler), `StampValid`
(the store of `note_valid_rpc`), `ClaimPresentation`, `ApplyMethod`, `ElectOwner`. The clock
has `ClockModulus` values and comparisons are the modular ones of the code; in the run `session` it
goes round without end. `heard`,
`stampEpoch` and `raced` are history: they record which connection an effect came from.

`FastReconnect = FALSE` is an assumption on the environment: a new connection delivers no
report before `service()` has seen the reset of the old one. A finished reset leaves no other
way into this state (`codex_micro_protocol.cpp:573-580`, `106-117`). The main loop turns in
milliseconds and an enumeration or a BLE encryption takes longer, but no code enforces it; with
`TRUE`, `BaselineBeforeEvents` and `NoSplicedLine` do not hold.

### `StatusEvents` – from lamps to announcements

Source: `status_reducer.h`, `model.h`, `lamp.h`, `status_timing.h`, the handlers of
`codex_micro_protocol.cpp` that write the model, and the player in `ui.cpp`.

| Code | Model |
|---|---|
| `model::state.tasks[i]` | `tasks[s]`: status, lamp, `unseen`, `hold`, `viewed`, `interrupted`, `seen` |
| `model::state.announcements` | `queue`, of at most one event per slot |
| `ready_at_ms` passed | `ripe` |
| the score of an event is ready | `cued` |
| `announce_*` | `anim` |
| screen, voice takeover, composer page | `surface` |
| `session.baseline()` | `baseline`; its truth is the subject of `CodexSession` |

The whole of `apply_thread_lights()` is one action per outcome: `AllOffFrame`,
`PickerFrame`, `TaskFrame`. A frame is a function from the slots it mentions to lamps;
`overlay_thstatus()` completes it with the old lamps. `TaskFrame` contains the reduction
of each slot, the replacement or appending of their events, the inferred selection and
the view marking. `host_select::infer()` may return any lit slot or none. `ResetPresentation`,
`HandshakeComplete`, `SelectSlot`, `ChangeSurface`, `PreviewStatus`, `Ripen`, `PrepareScore`,
`StartAnnouncement`, `FinishAnnouncement` and `SettleFrame` are the other handlers. Events
ripen in any order: the debounce window is a setting, and a replaced event keeps its place
but not its time. `HandshakeComplete` needs a frame that was applied, as `handle()` notes no
other. A reset keeps the statuses and drops queue, animation and holds.

`unannounced[s]` is history: the last change of the slot was adopted without an event.

A hold is ended by an event that will be played, by an animation under way (`HoldOwner`), or, in
the selected slot once it is viewed, by the failsafe of `ui::service()` (`ui.cpp:2546-2556`,
`SettleFrame`, `FailsafeOwner`). `AnnouncedHoldHasOwner` does without the failsafe; `HoldHasOwner`, which
is violated, counts it.

### `OutboundReports` – rings and retries

Source: `transmit()`, `companion_usb_send_rpc()`, `companion_ble_send_rpc()`, both service
functions, `companion_codex_key()`, and the connection callbacks.

Each transport has a `ring` of reports that carry the `generation` they were queued
under; one list of `retries` serves both. The main task is at a step (`at`) on a transport
(`on`); a drain is reset, check, comparison of generations, write, pop; a send is reset, check,
stamp. A USB callback bumps the generation, asks for a reset of the ring and ends the session;
the BLE callback also asks for a reset of the retries. Each of these is a step. `free` is
the USB endpoint. `issued`, `retried`, `cut` and `got` are history: what was sent, what had to
wait, what was cut off, and what the host has received in which connection (`session`).

Keys are one report and are retried; `direct` messages (dial, joystick, the actions sent by
`send_key_to`) are one report and are not; responses are two reports.

`Quotas` is a set of bounds: each behaviour has one of them, how often each transport is
connected. So one run has the behaviours of USB alone and those of BLE alone. Connections are
numbered from their end: `LastSession` is the number of the last one of every transport, which makes
states with the same connections to come the same.

Assumptions: a transport that was lost is back only between two calls of the main task
into it (`BetweenCalls`), i.e. a reconnection takes longer than a call of some
microseconds. The switch of USB by the user is in `HostChannel`.

Two simplifications narrow what may be sent. `Issue` asks for a live session of the transport; the code sends the
release of a control to the transport it remembers, live or not (`main.cpp:260-267`, `519-533`,
`1143`), which adds messages of the kind `direct` to a transport that is connected but idle. `EndSession` ends
connection and session together; the one stamp that can outlive its connection (the race of
`codex_micro_protocol.cpp:416`) is a matter of `CodexSession`. Neither touches the generations, rings and
retries the properties are about.

### `StatusAudio` – scores on two cores

Source: `audio.cpp` (requests, worker, arming, playing, the boot chime) and the calls of
`ui.cpp` that drive them.

Every atomic is a variable (`requested`, `prepared`, `armed`, `playing`) and every load or store a
step of its task; `status_ready()` is one step, because the worker stores last what it loads
first. `pcm` holds the score of each buffer, or `torn` while it is written. `speaker` is the
buffer the DMA reads with the score it was started for. A frame of the UI is request,
take, arm, age, play. Tokens are unique here; what a token of zero does is a matter of
`StatusEvents`. The chime lab renders on the main task, into buffer 0, while the worker may
be writing it: the result is `torn`.

`overtaken` and `rehearsed` are history for the premises of `HeardWhole` and `ArmsOwnScore`: a score
was asked for, or rendered again, between arming and playing; the chime lab wrote a
buffer since the score was asked for. A chime that plays is itself something that must be
heard whole.

`skipped` is the premise of `NoSilentTakeover`: a takeover started with the sound off, so it did
not wait for its score, and another event was waiting then or since. With three events TLC finds
a takeover without a sound otherwise. The score of the first event is rendered and the
one of the second is asked for; the sound is switched off, the second one takes the panel at once, the
sound comes back, and the first one's score is asked for anew and found published while the
worker is still in the middle of publishing that of the second; it appears between
`status_ready()` and `arm_status()`, which then finds another token. It takes a
render (some hundred milliseconds) that outlasts a takeover (seconds), so it is
no defect of practical consequence, but nothing in the code excludes it.

`StatusAudio` has its own names for what it shares with `StatusEvents` (`Chats`, `backlog`, `shown`,
`AudioSpec`), as one module proves theorems about both.

### `InputEdges` and `EdgeQueue` – from a key to a control the host holds

Source: `keys.cpp`, `input_event_queue.h`, and of `main.cpp` the head of the loop,
`handle_press()`, the microphone button and everything that sends a
press or a release.

| Code | Model |
|---|---|
| the GPIO matrix with its memory, the TCA8418 with its FIFO | `backend`, `held`, `repeatKey`, `fifo`; `down` is the truth |
| the queue of 24 events | `queue`, with `push()` and its eviction as one step |
| `agent_key_transport`, `native_action_transport`, `encoder_press_transport` | `owner` |
| the two keys that are Enter (`key_layout.h:31`, `37`) | the keys `enter` and `space`, `Meaning` |
| `joystick_deflected`, its transport, its 85 ms | `stick` |
| `voice_gesture` | `voice` |
| sessions and connections | `alive`, `connected`, `link`, `grace` |
| dark panel, screen, open preview | `dim`, `page`, `preview` |

One key stands for each kind of key, but two for Enter. The main loop is at a step (`pc`): head of a turn (joystick,
grace, lost transport of the voice gesture), microphone button, scan, push of each edge,
pop of each edge. Keys go down and up, sessions and connections come and go between any two.
A scan that finds more than `ghosts` keys releases and forgets what was held (`GhostScan`). Every
send may be refused.

`host.held` is history: the controls each host has been told are pressed and not told are released.
`host.denied` is the part of them whose release was lost for one of the known reasons
(refused send, swallowed by a dark panel, by an open preview or by the offline gate,
sacrificed by the full queue, the chord that has no owner, the owner of one Enter key overwritten by a press
of the other: `Forgotten`). `HeldIsExplained` says that there is no other reason.

`StickCentres` promises that the device sends the centring report on the transport of the deflection and
forgets the deflection; a report that is refused is not sent again (section 6).

`EdgeQueue` is what the comment of `input_event_queue.h` promises of edges that may not be dropped. What a
scan finds is `coming`, and the queue is offered these edges one by one: a release is always taken, a press is
refused only if there is no room, a queued edge is sacrificed only to a release and only when nothing
droppable could make room, and edges leave in the order they came. No step drops an edge from `coming`
otherwise, so that a release cannot be refused by doing nothing. The refinement maps `kept` to the edges of
`queue` that are not droppable, `coming` to those of `scanned`, and `room` to what the queue could do now.

### `BondStore` – bonds across failures and restarts

Source: `ble_store_apps_nvs.cpp`, called by the NimBLE host and by the reset of all bonds
in the debug menu.

A table is two NVS items, `count` and `blob`, in `flash`, and a sequence of records in `ram`. Every
call of NVS is a step that may fail; the power may go between any two. The host task writes
and deletes (`count`, `blob`, `commit`, `adopt`), the main task erases key by key
(`companion_ble_store_forget_all()`). A restart migrates an older schema and restores each table: a blob whose length is
not what the count says is no table. Every call of a start may fail, too: the namespace may not open (`NotOpened`),
the schema may not be read, which is taken for an older schema (`SchemaUnread`), the migration may break off
(`MigrateFails`), and a count or blob may not be read, which leaves an empty table (`Restore`).

`trusted`, `confirmed`, `unread`, `unsure` and `gone` are history: nothing has written to the table since it was
confirmed; what it then was; the tables the last start could not read; whether the last start left flash without a schema,
so that the next one will erase it; the records whose removal was confirmed. `overlap` records that both tasks
were in the store at once, which nothing in the code prevents and for which nothing is
claimed. `ConfirmedSurvives` compares flash and RAM with `confirmed` over any number of restarts and names its
exceptions: a start that could not read the schema, a start after one that could not be sure of it, and a table that
could not be read.

### `HostChannel` – settings, USB, profiles and the radio

Source: `store.cpp`, the debug and Bluetooth menus of `main.cpp`,
`companion_usb_set_enabled()`, and of `ble_transport.cpp` the profile switch, the
forgetting of bonds, the watchdog and the callbacks of GAP and HID.

The main task is at a step of a handler (`job`). Settings in use (`s`) and in flash (`nvs`)
have three keys, written one by one in the order of `write_settings()`: `volume` stands for the
five that only the menu reads, `profile` and `usb` decide how the device is reached. A switch
of USB is flush, install or uninstall, and on failure an undo with its own flush. A
switch of profile is flush, `pending_profile`, terminate or advertise; the disconnect callback
takes the pending profile over, and the event task advertises it. HID events are delivered
later than the GAP ones they belong to. A loss of power keeps `nvs` alone. A start may fail to open the partition
(`ready`: every later write fails at once), the namespace, or to read single settings; what it does not
read keeps its default (`Loaded`).

`unsaved`, `usbFailed` and `dropped` are history for the three cases in which the code gives
up and says so: the last write failed, USB did not start with the device, a switch of
profile was given up. `unread` is history for the settings whose stored value the start did not find:
they are in use by default, differ from flash, and are not marked to be written.

### `StagedDeck` – a deck sent line by line

Source: `handle_line()` with HOST|, TASK| and TASKS|, `reset_staged_tasks()` and
`commit_tasks()` of `main.cpp`; the sender is `tools/devlink.py`; finaliser and failsafe of
`ui.cpp` as in `StatusEvents`, since the commit moves tasks under them.

`host` is the batch under way: the deck, the hint of the selection and the next line. A line is handled,
lost, refused as unreadable, or ignored because a session is active; a new batch may begin in the middle
of one. `staged` and `open` are the staging of the device; `Staging(i)` drops it when a first task comes
twice, or after 2 s. The commit carries marks by thread and queues announcements by slot.
`old` and `host.cleared` are history: this entry is of an earlier batch; a line of this
batch has put older entries away.

### `HostSurface` – the control page against the surface of the host

Source: the part of `apply_thread_lights()` that decides what a frame is, `lights.preview` and the
guard of `codex_micro_protocol.cpp`, the control page of `ui.cpp` with its quarantine and
time-outs, the dial, Enter and Esc of `main.cpp`, the grace.

The host has chats (`lamps`) and perhaps a surface open (`picker`) that repaints the lamps. It sends a frame
only if it differs from the last one (`told`). Messages carry what the host means by
them, which the device does not read: it looks at the lamps, at its page (`closed`,
`stray`, `engaged`) and at the guard. The host is external: it is modelled from
what the comments and the tests of the firmware say of it. `mirrored`, `outlived` and `missed` are
history: the page has mirrored a frame of the surface; but of a session that has ended since; the
last frame of the chats met a page that had not mirrored this session's surface, or was dropped.

`LoseSession` leaves the page open. `NewSession` is one of two things: a host that connects and is told of
nothing it has sent, so that it sends everything; or a transport that was live behind the owner and takes over within
the grace. The frames such a host sent before were answered and dropped (`owns_state`,
`codex_micro_protocol.cpp:464`), so its chats are `missed` until it sends other ones. A session that only falls
silent for a while loses nothing and is not a step of its own.

The model takes a closing flash to be another payload than the frame of chats that are
all read (it differs in effect or level), else the host would not send the second one.

## 4. Runs

| Run | Instance | Checks |
|---|---|---|
| `session` | three RPC kinds in whole lines; USB connects, is lost and connects again, BLE connects once; a clock of three values that goes round without end, against an idle limit and a settle time of one; queue of one | `TypeOK`, `BaselineBeforeEvents`, `StaleStampOnlyByRace`, `RevivedOnlyByRpc` |
| `session_live` | messages of two fragments; USB connects and is lost, or is switched off, or fails to be; BLE connects and its bonds are forgotten; three ticks; fair | `OwnerIsLive`, `NoSplicedLine`, `LiveSessionTakesOver` |
| `events` | two symmetric slots; lamps at work, complete, and dark; frames of one slot | `TypeOK`, `AnnouncedNewsIsCurrent`, `AnnouncedHoldHasOwner`, `NewsKeepsItsTurn` |
| `events_live` | all the lamps that tell read states apart, foreign ones too; control page; previews; host and user may stop for good; fair | `UnreadFollowsLamp`, `BackgroundStaysUnread`, `QueueDrains`, `SelectedSettles` |
| `outbound` | USB with two connections or BLE with two; all three kinds of message, two messages; ring of two, one retry; fair | `TypeOK`, `AtMostOnce`, `WholeMessages`, `NoStaleReport`, `RingsDrain` |
| `audio` | two slots, two events, mute, reset, chime lab, with or without the startup chime; fair | `HeardWhole`, `ArmsOwnScore`, `NoSilentTakeover`, `RequestIsServed` |
| `input` | six keys of five kinds, two of them Enter, on both keyboards or none; queue of two, ghosts above one key or above two; two strokes, one loss; USB and BLE; fair | `HeldIsExplained`, `QueueKeepsPromise` (refinement), `StickCentres`, `MicCloses` |
| `bonds` | two tables of at most two bonds, three peers, four calls, one failure (of a start, too), two losses of power | `ConfirmedSurvives`, `GoneStaysGone` |
| `channel` | two profiles, three requests of the user, three connections, one failure (of a start, too), one loss of power; fair | `NothingUnsaved`, `UsbStaysOff`, `ChannelAgrees`, `ComesBack` |
| `deck` | two threads at work or done in both orders, one, or none; three batches, two lines lost, one session | `TypeOK`, `OneBatch`, `ReorderIsNoNews`, `BackgroundStaysUnread` |
| `surface` | two chats, a surface with two values; two messages and two keys on their way; any number of sessions; fair | `DeckFollowsHost`, `EscEndsPage` |
| `events_green_for_good` | frames of one of two slots | finds `HoldHasOwner` violated |

Why the bounds are enough.

- `MaxEpoch`: a connection that is lost and comes back shows every mixture of an old and a
  new connection; a second transport that connects once shows every rivalry. Both are
  counted because a reset is what makes the state space infinite.
- The clock of `session` has three values and wraps without end, so that every stamp meets the wrap; that of
  `session_live` has sixteen and stops after three ticks, for the properties that hold until the wrap.
- `QueueCapacity` of the session: one report is enough to be in the queue while another is
  handled; the second of a message is dropped when it is full.
- Two slots: every relation in the queue (order, replacement, an event of the slot on the
  panel before and behind another) is one of two slots. `TypeOK` and the properties about holds
  and unread marks are proved for any number up to six.
- Rings, retries and messages: two reports in a ring distinguish head and tail; one message
  that waits for its retry and one that does not show every repetition and mixture.
- Two events against two buffers: one playing, one asked for, and the chime lab as a third
  writer. The three safety properties are proved for any number of events.
- `input`: a stroke holds a control, a second one fills the queue of two while the first
  is held, or is one too many for a matrix that takes two keys for ghosts. The chord is in no key of this
  instance, only in the theorem: both Enter keys say more. The bound of ghosts
  is one of `GhostLimits` in each behaviour, so that two keys are held together, too. The queue is
  full with and without a droppable edge in it.
- `bonds`: the tables are independent but for the reset, so two show what three would. Two bonds are
  an empty, a partly filled and a full table. Two losses of power are one in the
  middle of a write and one in the repair of it.
- `channel`: two profiles are the old and the new one; a third request undoes or repeats a
  switch under way. The failure and the loss of power fall between any two steps. Three connections are
  needed: one that a switch ends, one made while that end is being handled, and one more. With two of them
  a switch that is given up although another host has connected meanwhile does not happen; the attempt to prove
  `ChannelAgrees` showed it.
- `deck`: three batches are a complete one, one that is broken off and the next.
- `surface`: two messages on their way are a close and the frame that follows it; sessions,
  turns and clicks are not counted at all. `DeckFollowsHost` is proved for any number.

Fairness.

- `CodexSession`: the main loop calls `service()` on every turn and a callback that began
  returns. `LiveSessionTakesOver` has the premise that `service()` returns (`[]<>(pc = "idle")`):
  its drain is unbounded, so a host that outpaces it would hold the election back.
- `StatusEvents`: time passes (`Debounce`), the worker runs, `ui::service()` is called. Host and
  user owe nothing; the properties are about a device left alone (`quiet`) on the deck.
- `OutboundReports`: the main loop goes on, callbacks return, the host polls its endpoint, and
  a connected transport does not refuse for ever (strong fairness of check and write,
  since a connection may come and go).
- `StatusAudio`: a frame that began goes on, and so does the worker. Nothing is assumed of
  the speaker or of the user.
- `InputEdges`: the main loop goes on. The 85 ms of the joystick are over at some turn and not
  at all of them, hence the strong fairness of `StickDue`.
- `HostChannel`: the main loop goes on and comes to the watchdog on every turn, whatever the store does before it
  (strong fairness: a store that is not ready retries for ever); events are delivered, a disconnect that the stack has
  taken is reported, time passes. No call is assumed to succeed; their failures are bounded.
- `HostSurface`: `service()` handles every report and the host every key. The second is
  strong because the host may have to wait for room on the wire, whose bound is the model's.

## 5. Proofs

For every value of the constants that the named assumptions allow (`SessionConstants`,
`EventConstants`, `OutboundConstants`, `BondConstants`, `ChannelConstants`, `DeckConstants`,
`InputEdgesAssumption`, `SurfaceConstants`), TLAPS checks the theorems below. The assumptions say what kind of thing a constant is
and that a capacity is at least one; TLC evaluates them on every run. No theorem limits the number of connections,
messages, failures, losses of power or strokes: the bounds are constants, too.

| Module of proofs | Theorem | Says |
|---|---|---|
| `CodexSessionProofs` | `TypeCorrect` | types and capacities of queue, assemblers and trackers |
| | `OwnerCorrect` | `OwnerIsLive`, as long as the clock has not wrapped |
| | `RevivalCorrect` | `RevivedOnlyByRpc`, for every clock and any number of wraps |
| | `StaleStampCorrect` | a stamp outlives its connection only by the one known race |
| | `NoSplicedCorrect` | no line mixes two connections, if `~FastReconnect` |
| | `BaselineCorrect` | nothing is announced before the baseline of its own connection, if `~FastReconnect` |
| `StatusEventsProofs` | `TypeCorrect` | types, and a queue no longer than the deck |
| | `OnePerSlotCorrect` | one event per slot, so the array of six never overflows |
| | `UnreadCorrect` | the unread mark agrees with the lamp |
| | `HoldOwnerCorrect` | an announced completion on hold has an event or animation that ends it |
| | `CurrentNewsCorrect` | what waits or shows is the status by now |
| | `TurnCorrect` | announcements keep their turn |
| | `BackgroundCorrect` | a green completion in the background stays unread |
| | `HeardWholeCorrect` | what plays is written by nobody until it ends |
| | `OwnScoreCorrect` | a takeover arms the score of its own event |
| | `SilentTakeoverCorrect` | a takeover with the sound on has a score, and keeps it until it plays |
| `OutboundReportsProofs` | `OutboundTypeCorrect` | types; no ring and no list of retries outgrows its array |
| | `NoStaleCorrect` | a host receives nothing of an earlier connection, save a key retried over USB |
| | `AtMostOnceCorrect` | no report is delivered twice |
| | `WholeMessagesCorrect` | the two reports of a response come together, in order |
| `BondStoreProofs` | `ConfirmedSurvivesCorrect` | flash and, but for named failures, a restart find what was confirmed |
| | `GoneStaysGoneCorrect` | what was removed never comes back |
| `HostChannelProofs` | `NothingUnsavedCorrect` | settings that differ from flash are marked to be written, or could not be read |
| | `UsbStaysOffCorrect` | a start that can read the USB mode finds the one of the menu, unless it was not saved |
| | `ChannelAgreesCorrect` | the radio has the profile of the menu, unless a switch was given up |
| `StagedDeckProofs` | `OneBatchCorrect` | what is committed is one batch of the host |
| | `DeckTypeCorrect` | types; deck and announcements never outgrow the slots |
| | `ReorderCorrect` | a thread that only moves is not announced |
| | `BackgroundCorrect` | an unread completion keeps its mark in whichever slot it goes |
| `InputEdgesProofs` | `HeldCorrect` | what a host holds will be released on that host, or its release was lost for a known reason |
| | `PromiseKept` | the refinement: the queue of key edges implements `EdgeQueue` |
| `HostSurfaceProofs` | `DeckFollowsHostCorrect` | the guard and a page that mirrors a surface of its session lose no frame of the chats |

Every proof goes the same way: an invariant that is inductive, a lemma for each action
and each part of the invariant the action can disturb, and one temporal step. What the invariants add
to the properties is the argument why the code works:

**`CodexSession`.** `OwnerIsLive` speaks of the moments between two calls of `service()` only. Its inductive
invariant adds what holds during a call: only the main task makes a session alive and only
the steps after a stamp may leave a live session without its owner, until the election
that ends the call. `OwnerCorrect` assumes `MaxTime < ClockModulus`: at the wrap an old stamp comes alive
between two calls, and its session has no owner yet (section 6). `RevivalCorrect` assumes nothing of the clock: a step
of time makes an idle session alive only if it brings the clock to its very stamp. `StampInv` says the same of stamps as the property,
but also between the three stores of a reset, and of a line that is about to be stamped. `ConnInv` is
behind the two theorems with `~FastReconnect` (section 3; both runs have it): what a transport
holds (assembler, handshake) is of one connection; if that is an ended one its reset is still under way
and nothing of the new one has arrived (`Unmixed`); and the line in hand is of the connection its
handshake is of (`HeldLine`). None of this is true after the flag of the reset is
stored if a new connection may report before `service()` looks.

**`StatusEvents`.** The invariant has five parts: the consistency of each task record
(`TasksGood`), a typed queue with one event per slot (`QueueGood`), the types of the rest
(`RestTyped`), `AnnouncedHoldHasOwner`, and `HoldEventDone`: an event that waits for a slot on
hold is a completion, unless the last change of the slot was given no event or a preview
took its place. Without the
last one the takeover that starts from an event of another status would leave the hold
alone with nothing to end it, and the fourth part would not be inductive. Every action has
a lemma of its own; `QueueStep` carries what a frame and a preview do to the queue alike.
`CurrentNewsCorrect` adds `Restored`: outside the baseline, a slot with news has been seen by this session. The
first frame of a slot changes its status without an event, and would leave news of the old status
behind if there were any. `TurnCorrect` follows the places of events: a step gives each event one place in
the new queue (`InPlace`), and a start moves all of them up by one.

**`StatusAudio`.** Two tasks on two cores, so the invariant has a part for each thing they share, at
every point of both. `WorkerSound`: as long as the main task is not between its stores and no
notification waits, the worker's copy is the request itself (`requested`); without the premise
it may be a mixture of two. `BufferSound`: what the worker has rendered is in its target, and what is published
while it rests is in the published buffer. `ArmSound` and `SpeakerSound` carry that over to the armed
buffer and to the one that plays: the worker renders into another than `playing` from the moment
the main task has marked it, and before that moment the worker rests, unless a score was asked
for. None of the premises (`overtaken`, `rehearsed`) can be dropped: each one has its hazard in section 6.
`SilentTakeoverCorrect` adds whose turn it is. `MayTake` is the one event a frame may
take next; whatever the cores know of it is part of the last request for it (`Followed`), and while
the panel is taken they know of no other (`Untouched`). So between the take and the arm the worker has nothing
to publish (`TakenSound`). The third part is what fails with three events and the sound switched off and on
(section 3): the first attempt at a proof, without `skipped`, failed there. These theorems need no assumption about the constants.

**`OutboundReports`.** The main task compares generations, and callbacks bump
them in between. `Generations` tells what a ring may hold at each moment of a connection's end and of its
replacement: after the end nothing of the current generation (`DownRing`), with a new
connection whose callback has not yet bumped it only what a reset will clear before the main task works on the
ring (`NewRing`), later what is the connection's own (`OwnRing`) and once the reset is done
nothing else (`CleanRing`). `RetrySafe` says the same of the retries of BLE. `AtMostOnce` needs
that a report is in one ring at most (`OneRing`), that one the host has is about to be popped or
is of an old generation (`GotGone`), and that neither a retry nor the rest of the message being sent is in any ring or
was received. `WholeMessages` needs what the last report of the host and the first one of the ring are to each
other (`Behind`, `SecondNext`) and what becomes of a message whose first report has just been sent
(`JustSent`).

**`BondStore`.** Types and numbering hold always; all the rest as long as both tasks were never in the
store at once. `InFlash` says how far the write under way has got, `Resetting` which keys a reset has
erased, `Buried` that a record which is gone is neither in use nor in a blob that no count fits, as such a blob
would come back with the next count of that length. `Confirmed` has three parts: `Kept`, a trusted table is in flash
as it was confirmed and flash has a schema, so that no start will migrate it away; `Sure`, a start that came past the
migration left a schema or knows that it did not; `Agreed`, the stack has what was confirmed if the start could read it.

**`HostChannel`.** `Saved` says that a write which got as far as key *k* has the earlier ones in flash and is still
marked, and that otherwise a clean setting is the stored one or could not be read. `UsbGood` follows the driver through a
switch and its undo, `ChannelGood` a profile from the menu to the
radio: it is advertised, waits for the end of a connection, is in the queue of the event task, or is left to the watchdog
(`Settled`). That a profile in that queue meets no connection (`TakenOver`) was not inductive; the run has three
connections since (section 4).

**`StagedDeck`.** The invariant says what each entry of the staging is. One that is not of an
earlier batch is a line of this batch (`OfThisBatch`), and once a line of this batch has
put older entries away there are none (`ClearedOfOld`). At the commit every line's place is
filled, so the staging is the deck. The first part alone would allow an old entry in the
place of a lost line. For the types the queue has one event per slot (`NewsTyped`), which is why the guard of
`queue_announcement()` for a full array never drops one.

**`HostSurface`.** The invariant speaks of the order of the messages on their way. From the point
at which the page mirrors a surface (`MirrorEnds`), and from every message on the wire that
would make it do so (`PaintsEnd`), no frame of the chats comes before a close, and a close comes unless the
surface is still open. So a frame of the chats never meets a page that mirrors a surface of its session; a page
that has outlived its session is the exception of `missed`. `LastTold`
then follows the last frame from the wire to the deck: only previews come behind it, and they
change no lamp of the deck. Each message has a lemma for what sending it does to the order (`SendStep`)
and one for what taking it does (`TakeStep`).

**`InputEdges`.** `Stream` is the queue, what a scan has found, and what the controller has recorded, as one
sequence: the edges on their way, oldest first. `Watched` are the keys the keyboard knows to be down and
will report. `Paired` says that what follows a press of a key that a host may hold is its release, not
another press; it survives a scan (`FoundInTurn`: a scan finds one edge of each key, a
press only of a key that was up for it), a refused press (`WithoutPaired`) and the eviction of a droppable
edge. A release is evicted only as the oldest edge, and then counted among the lost ones. `Owned` says for
each kind of control who will release it: an owner on that transport with a release next in `Stream`, the
voice gesture, or the joystick. A press at the head of the queue therefore meets no owner of its own key, and
the owner it sets is still good when its release arrives. Each handler has a lemma that it forgets
nobody (`Handled`).

`PromiseKept` needs what `KeptOf` of a longer and a shorter queue are to each other. The places of the edges that may
not be dropped, in ascending order, are a choice; that there is one such order for every
queue, and only one, is shown by the shortest queue and the least index that would contradict it
(`ListExists`, `SoleList`, from `LeastFacts`: a set of naturals has a least member).

Only model-checked:

- liveness under fairness (`LiveSessionTakesOver`, `QueueDrains`, `SelectedSettles`, `RingsDrain`,
  `RequestIsServed`, `StickCentres`, `MicCloses`, `ComesBack`, `EscEndsPage`) and ENABLED: out of the prover's reach.

## 6. Where code and documents disagree

One run shows a disagreement (the finding in `PROJECT.json`):

- **A completion that stays green** (`events_green_for_good`, `status_reducer.h:76`). A completion that
  arrives as the restoration of a dark lamp is held without an event. In the selected slot the failsafe ends the
  hold once it is viewed (`ui.cpp:2546-2556`); in a background slot, as in the trace, nothing does until
  it is selected.

Others were met while modelling. Each is visible in the modules as the premise or the exception
of a property, or as an action.

Sessions and reports:

- A reset can be undone (`codex_micro_protocol.cpp:416`): the epoch of a report is compared
  before `handle()`, the liveness stamp stored after it. A disconnection in between clears the
  stamp first, and the dead transport is alive for up to 90 s. `StaleStampOnlyByRace` shows
  that this race is the only way.
- An old session revives 49.7 days after its last RPC, when the millisecond clock comes back to its stamp
  (`codex_micro_protocol.cpp:587`; an exception of `RevivedOnlyByRpc`, premise of `OwnerCorrect`).
- `SCENARIOS.ru.md:77` says that switching between USB and BLE without losing a session does not restart the
  baseline. Every change of the owner restarts it (`codex_micro_protocol.cpp:417-422`, `562-567`; `TakeOver`).
- `SCENARIOS.ru.md:80-81` says that the device returns to the splash at once when BLE or USB is lost. It
  does so after the grace of three seconds (`main.cpp:1129`, `1151-1176`; `GraceExpires`).
- Keys out of order (`usb_transport.cpp:156`; `docs/INTERACTION.md:172-174` asks for the order): a key that
  finds the endpoint busy goes to the retries although the ring is empty; the next key overtakes it.
- Actions that wait for a retry do not survive the BLE reconnection the retries are for
  (`ble_transport.cpp:210`; `docs/INTERACTION.md:172-174`; `retryReset`).
- The joystick is not kept at all, though `docs/INTERACTION.md:172-173` counts it among what waits in the FIFO for
  750 ms: `companion_codex_joystick()` (`ble_transport.cpp:424`) is called by nobody. The centring report is sent
  directly and its result ignored (`main.cpp:1142-1146`): if it is refused the host stays deflected (`denied` in
  `HeldIsExplained`; `StickCentres` is about the device).

Announcements and sound:

- A status adopted on restoration leaves older news of its slot in the queue
  (`status_reducer.h:82`; `unannounced` in `AnnouncedNewsIsCurrent`).
- The end of an older animation ends the hold of a newer completion of its slot before
  that one is played (`ui.cpp:2532`; `Finalised`).
- An event of slot 0 due at 16777216 ms has the token zero, is never ready, and blocks the
  queue behind it (`ui.cpp:1103`; `QueueDrains` does not hold with `Tokens = {"some", "zero"}`).
- A score asked for between arming and playing is rendered into the armed buffer
  (`audio.cpp:745`), and a request stored between the wake-up of the worker and its load is
  rendered twice (`audio.cpp:741`; premises of `HeardWhole` and `ArmsOwnScore`).
- A chime of the chime lab overwrites a prepared score whose token stays valid
  (`audio.cpp:902`; premise `rehearsed`).
- A takeover with the sound off does not wait for the worker; if that one still publishes when the
  next event is found ready, the next takeover may find no score (`ui.cpp:2504`, `audio.cpp:959`;
  premise `skipped`, section 3).
- If the worker task could not be created no announcement is ever played unless the sound
  is off (`audio.cpp:931`).

Keys, settings and bonds:

- A control may stay held at a host after a release that was refused, swallowed by the panel that
  woke up (`main.cpp:1231`), sacrificed by the full queue (`input_event_queue.h:29-35`), or that belongs to the
  chord (`main.cpp:523`); the exceptions of `HeldIsExplained`. `SCENARIOS.ru.md:468-470` says that no release of a
  key that is held is lost to an overflow or a reconnection.
- Two keys are Enter (`key_layout.h:31`, `37`) and share one `encoder_press_transport`. If the second is pressed while the
  first is held and the transport has changed in between, the first host is never sent the release
  (`main.cpp:528-533`, `863`); an exception of `HeldIsExplained` (`Forgotten`).
- ACT12 and WAKE are pressed and released by one handler (`main.cpp:873-877`, `1235-1236`). A press that is
  refused is retried and the release behind it is not, so the host may see the release first and keep the control
  (`ble_transport.cpp:408-423`). They are not in the model unless a key holds them too.
- `docs/INTERACTION.md:79` says that recording does not let the panel sleep. `service_power()`
  has no exception for the voice gesture or the control page: with the lights of the host off the
  panel goes dark 750 ms after the recording starts.
- Settings that are half new (`store.cpp:44`; `SCENARIOS.ru.md:471-473`: written atomically, and only a
  wholly confirmed version is restored). Seven keys are written one by one. A loss of power between two of them
  (`PowerLoss` between two `WriteKey`) leaves a mixture that was neither confirmed nor being written, which
  the next start takes for the settings. No property of the model excludes it, because the code does not.
- A settings write that fails in the middle leaves flash partly written until the retry
  1500 ms later (`main.cpp:591`, `CHANGELOG.md:647`; premise `unsaved`).
- A start that cannot read the settings, or one of them, uses the defaults (USB on among them), marks nothing to be
  written, and the next save of any setting overwrites the stored ones (`store.cpp:88-94`, `103-129`;
  `unread` in `NothingUnsaved` and `UsbStaysOff`). If the partition does not open, every save fails and is
  tried again without end.
- If USB cannot be uninstalled it stays reported as not mounted, although the toast says that
  the state is unchanged (`usb_transport.cpp:105-114`).
- A switch of profile that is given up leaves the radio with the old identity while the
  menu shows the new one (`ble_transport.cpp:291-295`, `383-404`; premise `dropped`). This includes the switch whose
  disconnection comes while another host has connected already: the callback takes the profile over, finds a
  connection and starts nothing (`ble_transport.cpp:286-295`).
- Bonds are not written atomically (`ble_store_apps_nvs.cpp:28`; `SCENARIOS.ru.md:471-473`,
  `CHANGELOG.md:683`): a loss of power between count and blob loses the table. A migration
  that fails restores the older bonds; what is confirmed after it is erased by the next start. A schema that cannot be read is
  taken for an older one and all bonds are erased, confirmed ones too (`ble_store_apps_nvs.cpp:239-248`). A table that cannot be
  read is empty until the next start, and a write meanwhile replaces what was stored (`:46-61`; the exceptions of
  `ConfirmedSurvives`). The reset of all bonds and a write of the host are
  not synchronised (premise `~overlap`).
- `ble_reset_armed` is not cleared when the debug page is left: the first of the two presses that
  `docs/INTERACTION.md:196` asks for may be of an earlier visit (`main.cpp:54`, `618`).

Serial deck:

- A partial batch without its first task merges with the next one if that one's HOST| and
  first TASK| do not arrive (premise `cleared` of `OneBatch`).
- A completion that is sent a second time loses its green lamp, and the end of any animation in
  its slot makes it read (`main.cpp:418-420`; exception of `BackgroundStaysUnread`).
- A deck that mixes the tasks of two batches may show a thread twice; a completion in one of the
  slots 7 to 10 is put on hold without an event; a shrinking deck moves the selection after the
  view was marked.

Control page:

- A page opened by the dial while Codex has mapped the dial to something else, and then
  engaged by Enter or by a frame of the chats within 3 s, stays (`ui.cpp:2117`, `2139`): Esc
  sends the agent key and the host has nothing to close (`main.cpp:714-737`,
  `CHANGELOG.md:352`). Frames of the chats are taken for values meanwhile and never sent
  again (premise `missed`); the same holds after a handover of the session within the grace.
- A transport that is live behind the owner is answered, but its frames are dropped (`owns_state`,
  `codex_micro_protocol.cpp:464`). When it takes over (`417-422`, `562-567`) nothing is told anew, and the deck
  stays as the other host left it until a chat changes (premise `missed`; `NewSession`).
- A page that mirrored a surface stays open over a takeover (`ui.cpp:2056-2090` is not called), and a frame of the chats of
  the new session that matches a picker is taken for its value (premise `missed`; `outlived`).
- A closing flash or a value that arrives while the page is closed or in quarantine is
  applied as the state of the chats until the host restores its lamps
  (`codex_micro_protocol.cpp:266`).
- `suppressed_until` and the guard of the dial are compared as signed differences and never cleared:
  they act again after 24.8 days (`ui.cpp:2202`, `codex_micro_protocol.cpp:126`).

## 7. What is left out

- Content of RPCs beyond the three handshake methods, battery and lighting zones.
- `complete_json()`, the scan of a buffer for a whole object, and `infer()`, the choice among
  the cues of one frame: pure functions of their arguments. The models take any result
  they can have (any slot with a lit lamp, or none).
- CFG| and OPT| fill wheels that no other state depends on; SCREENSHOT| streams the frame
  buffer; the parsing of the fields of a line is left out.
- Pairing: the passkey on the panel, bond repair and connection parameters.
- `service_power()` compares ages with thresholds. Its one effect on another part is the key that is
  swallowed while the panel is dark, and in `InputEdges` the panel may go dark at any time.
- Adaptive BLE power is arithmetic over samples of signal strength; the puzzle unit reads the task
  table and writes nothing back.
- `previous_*` fields, drawing, springs and fonts; floating-point synthesis; interface
  sounds of the second speaker channel; the dark-device handling of the speaker.
- The taps of ACT12 and WAKE; in `InputEdges` the native action ACT10 shares its control with the microphone of the
  voice gesture in the code, while the model gives them one each, `ACT` and `MIC`.
- Slots 7 to 10 of the serial deck, but for what section 6 says of them.
- Screenshot scenes of the control page; the local menus but for what they decide about
  keys, settings and the radio.
- Two resets of one transport that run at the same time (main's USB switch against a
  TinyUSB callback) are taken one after the other.
- The worker task is taken to exist; if its creation failed, no score would be ready.
- Start-up, host tools and build.
