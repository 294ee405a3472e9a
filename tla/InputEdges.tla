----------------------------- MODULE InputEdges -----------------------------
(***************************************************************************)
(* From a key to a control the host holds: keys.cpp (both keyboards),      *)
(* input_event_queue.h, and the part of main.cpp that turns edges, the     *)
(* microphone button and the arrows into presses and releases of host      *)
(* controls. A press remembers the transport it was sent on, and its       *)
(* release must find the way to the same host whatever happened since.     *)
(*                                                                         *)
(* One key stands for each kind of key of key_layout.h, but two for Enter:   *)
(* the key of that name and the space bar. Local pages are told apart by     *)
(* what they let through; what they do is module HostChannel. A control that *)
(* one handler presses and releases (ACT12, WAKE) is left out unless a key   *)
(* or a gesture holds it, too.                                               *)
(***************************************************************************)
EXTENDS Naturals, Sequences, FiniteSets, SequencesExt

CONSTANTS
  Rows,            \* the key matrix: a sequence of rows, each a sequence of keys
  Backends,        \* the keyboards a board may have
  QueueCapacity,   \* kQueueCapacity
  GhostLimits,     \* more keys than one of these at once are ghosts (six)
  Transports,      \* in order of preference: USB, then BLE
  MaxStrokes,      \* bound: how often a key or the button goes down
  MaxLosses        \* bound: how often a session or a connection ends

None == "none"
Wires == ToSet(Transports)
Keys == UNION {ToSet(Rows[r]) : r \in DOMAIN Rows}
AllKinds == {"digit", "action", "chord", "enter", "space", "arrow", "dial", "settings", "esc", "other"}

ASSUME InputEdgesAssumption ==
  /\ Keys \subseteq AllKinds
  /\ Backends \subseteq {"matrix", "tca", "missing"}
  /\ QueueCapacity \in Nat \ {0}
  /\ GhostLimits \subseteq Nat \ {0}
  /\ IsInjective(Transports) /\ None \notin Wires

\* map_layout(): what a key is to everyone but the keyboard.
Meaning(k) == IF k = "space" THEN "enter" ELSE k

\* The keys whose press remembers its transport.
Tracked == {"digit", "action", "enter"}

\* The control of the host that a key holds. The chat of the agent key is the
\* selected one, as that of the voice gesture.
Control(k) ==
  CASE k = "digit" -> "AG"
    [] k = "action" -> "ACT"
    [] k = "chord" -> "CHORD"
    [] k = "enter" -> "ENC"
    [] OTHER -> "STICK"

Controls == {"AG", "ACT", "CHORD", "ENC", "STICK", "MIC"}

VARIABLES
  backend,   \* keys::active
  ghosts,    \* matrix: more keys than this at once are ghosts, one of GhostLimits
  down,      \* the keys that are physically down
  held,      \* matrix: keys.cpp's memory of the last scan
  repeatKey, \* matrix: repeat_row and repeat_col
  fifo,      \* TCA8418: edges its FIFO holds
  scanned,   \* edges a scan has found and not pushed yet
  queue,     \* the input queue
  pc,        \* where the main loop is: "head" of a turn, "button", "next", "push", "pop"
  dim,       \* power_state # 0
  page,      \* the screen, as far as it decides what a key does: "boot", "deck", "menu",
             \* "previews"
  preview,   \* developer_preview_active()
  connected, \* transports with a HID connection
  alive,     \* transports with a live Codex session
  link,      \* model::state.link
  grace,     \* offline_since_ms # 0
  owner,     \* agent_key_, native_action_ and encoder_press_transport
  stick,     \* joystick_deflected, joystick_transport, and whether 85 ms are over
  button,    \* the microphone button: as it is, and as M5.update() saw it last
  voice,     \* voice_gesture
  host,      \* history: controls each host holds, and those whose release it was denied
  strokes, losses

keyboard == <<backend, ghosts, down, held, repeatKey, fifo>>
session == <<connected, alive, losses>>
surface == <<dim, page, preview>>
gestures == <<owner, stick, voice>>
vars == <<keyboard, scanned, queue, pc, surface, session, link, grace, gestures, button, host,
          strokes>>

Edge(k, d) == [key |-> k, down |-> d, again |-> FALSE]
NoVoice == [mic |-> FALSE, agent |-> FALSE, on |-> None]

Init ==
  /\ backend \in Backends
  /\ ghosts \in IF backend = "matrix" THEN GhostLimits ELSE {0}
  /\ down = {} /\ held = {} /\ repeatKey = None
  /\ fifo = <<>> /\ scanned = <<>> /\ queue = <<>>
  /\ pc = "head"
  /\ dim = FALSE /\ page \in {"boot", "previews"} /\ preview = FALSE
  /\ connected = Wires /\ alive = {}
  /\ link = "offline" /\ grace = FALSE
  /\ owner = [k \in Tracked |-> None]
  /\ stick = [on |-> None, due |-> FALSE]
  /\ button = [down |-> FALSE, seen |-> FALSE]
  /\ voice = NoVoice
  /\ host = [held |-> {}, denied |-> {}]
  /\ strokes = 0 /\ losses = 0

-----------------------------------------------------------------------------
(* Sending. transmit() refuses when the transport is gone, and may refuse    *)
(* when it is busy. What the host holds, and which releases it was denied,   *)
(* is history.                                                               *)

\* codex_micro::active_transport(): USB before BLE.
Active ==
  LET live == SelectSeq(Transports, LAMBDA t : t \in alive)
  IN  IF live = <<>> THEN None ELSE Head(live)

Pressed(h, t, c) == [held |-> h.held \cup {<<t, c>>}, denied |-> h.denied \ {<<t, c>>}]
Released(h, t, c) == [held |-> h.held \ {<<t, c>>}, denied |-> h.denied \ {<<t, c>>}]

\* The release of a control is lost: refused, swallowed, or dropped on the way.
Denied(h, t, c) ==
  [h EXCEPT !.denied = @ \cup ({<<t, c>>} \cap h.held)]

\* What a press sent to t makes of the host, and whether it was sent.
PressOn(h, t, c) ==
  {[host |-> h, sent |-> FALSE]} \cup
  {[host |-> Pressed(h, t, c), sent |-> TRUE] : x \in connected \cap {t}}

\* What a release sent to t makes of the host. Nobody looks at the result.
ReleaseOn(h, t, c) ==
  IF t = None THEN {h}
  ELSE {Denied(h, t, c)} \cup {Released(h, t, c) : x \in connected \cap {t}}

\* release_voice_gesture(): the microphone first, then the agent key.
VoiceReleased(h) ==
  LET afterMic == IF voice.mic THEN ReleaseOn(h, voice.on, "MIC") ELSE {h}
  IN  UNION {IF voice.agent THEN ReleaseOn(g, voice.on, "AG") ELSE {g} : g \in afterMic}

-----------------------------------------------------------------------------
(* The input queue.                                                          *)

Repeatable(k) == k \in {"arrow", "dial"}
NeedsRelease(k) == Meaning(k) \in {"digit", "action", "chord", "enter"}
Droppable(e) == e.down /\ (Repeatable(e.key) \/ e.key = "other")
Full(q) == Len(q) = QueueCapacity

VictimOldest(q) == 1

\* The oldest droppable edge, or else the oldest edge.
Victim(q) ==
  LET candidates == {i \in DOMAIN q : Droppable(q[i])}
  IN  IF candidates = {} THEN 1 ELSE Min(candidates)

\* Queue::push().
QueuePush(q, e) ==
  CASE ~Full(q) -> Append(q, e)
    [] Full(q) /\ (e.again \/ e.down) -> q
    [] OTHER -> Append(RemoveAt(q, Victim(q)), e)

\* The release that a push sacrifices, if it does.
Sacrificed(q, e) ==
  {q[i].key : i \in {j \in {Victim(q)} : Full(q) /\ ~e.down /\ ~q[j].down}}

\* The owner of the control that a key holds.
OwnerOf(k) == IF k \in Tracked THEN owner[k] ELSE None

\* The release of key k will not be handled.
LoseRelease(k) == Denied(host, OwnerOf(k), Control(k))

-----------------------------------------------------------------------------
(* The user. A scan sees the keys as they are when it runs, and M5.update()  *)
(* the button at the head of a turn, so what happens in between may be taken *)
(* to happen just before; a click between two samples is not seen.           *)

Report(k, d) ==
  fifo' = IF backend = "tca" /\ (d \/ NeedsRelease(k)) THEN Append(fifo, Edge(k, d)) ELSE fifo

KeyDown(k) ==
  /\ pc = "next"
  /\ k \notin down
  /\ strokes < MaxStrokes
  /\ down' = down \cup {k}
  /\ strokes' = strokes + 1
  /\ Report(k, TRUE)
  /\ UNCHANGED <<backend, ghosts, held, repeatKey, scanned, queue, pc, surface, session, link,
                 grace, gestures, button, host>>

KeyUp(k) ==
  /\ pc = "next"
  /\ k \in down
  /\ down' = down \ {k}
  /\ Report(k, FALSE)
  /\ UNCHANGED <<backend, ghosts, held, repeatKey, scanned, queue, pc, surface, session, link,
                 grace, gestures, button, host, strokes>>

PressButton ==
  /\ pc = "head"
  /\ ~button.down
  /\ strokes < MaxStrokes
  /\ button' = [button EXCEPT !.down = TRUE]
  /\ strokes' = strokes + 1
  /\ UNCHANGED <<keyboard, scanned, queue, pc, surface, session, link, grace, gestures, host>>

ReleaseButton ==
  /\ pc = "head"
  /\ button.down
  /\ button' = [button EXCEPT !.down = FALSE]
  /\ UNCHANGED <<keyboard, scanned, queue, pc, surface, session, link, grace, gestures, host,
                 strokes>>

-----------------------------------------------------------------------------
(* Sessions and connections, which callback tasks and codex_micro::service() *)
(* change. A host that loses its device forgets what it held. A loss matters *)
(* only to a step that sends or asks for the active transport, and may be    *)
(* taken to happen just before it.                                           *)

Sending == pc \in {"head", "button", "pop"}

SessionStarts(t) ==
  /\ pc = "head"
  /\ t \in connected \ alive
  /\ alive' = alive \cup {t}
  /\ UNCHANGED <<keyboard, scanned, queue, pc, surface, connected, losses, link, grace, gestures,
                 button, host, strokes>>

\* The host program falls silent; the connection stays.
SessionIdles(t) ==
  /\ Sending
  /\ t \in alive
  /\ losses < MaxLosses
  /\ alive' = alive \ {t}
  /\ losses' = losses + 1
  /\ UNCHANGED <<keyboard, scanned, queue, pc, surface, connected, link, grace, gestures, button,
                 host, strokes>>

ConnectionLost(t) ==
  /\ Sending
  /\ t \in connected
  /\ losses < MaxLosses
  /\ connected' = connected \ {t}
  /\ alive' = alive \ {t}
  /\ losses' = losses + 1
  /\ host' = [held |-> host.held \ ({t} \X Controls), denied |-> host.denied \ ({t} \X Controls)]
  /\ UNCHANGED <<keyboard, scanned, queue, pc, surface, link, grace, gestures, button, strokes>>

-----------------------------------------------------------------------------
(* A turn of the main loop, before the keys.                                 *)

\* The 85 ms of a joystick impulse are over.
StickDue ==
  /\ pc = "head"
  /\ stick.on # None /\ ~stick.due
  /\ stick' = [stick EXCEPT !.due = TRUE]
  /\ UNCHANGED <<keyboard, scanned, queue, pc, surface, session, link, grace, owner, voice, button,
                 host, strokes>>

\* What the first lines of a turn make of the host: the joystick is centred on
\* the transport it was deflected on, then the voice gesture ends if the
\* session has moved away from it.
StickExpiredHere == stick.due /\ stick.on = Active

StickExpired == stick.due

StickCentred(h) == IF StickExpired THEN ReleaseOn(h, stick.on, "STICK") ELSE {h}

VoiceInUse == voice.mic \/ voice.agent
VoiceStrandedOffline == VoiceInUse /\ Active = None

VoiceStranded == VoiceInUse /\ voice.on # Active

\* model::state.link follows the session, but goes offline only after a grace
\* of three seconds, which may be over at any turn once it has begun.
LinkNow(expired) ==
  CASE Active # None -> Active
    [] Active = None /\ expired -> "offline"
    [] OTHER -> link

LoopHead(expired) ==
  /\ pc = "head"
  /\ expired => Active = None /\ link # "offline" /\ grace
  /\ pc' = "button"
  /\ \E h \in StickCentred(host) :
       host' \in IF VoiceStranded THEN VoiceReleased(h) ELSE {h}
  /\ stick' = IF StickExpired THEN [on |-> None, due |-> FALSE] ELSE stick
  /\ voice' = IF VoiceStranded THEN NoVoice ELSE voice
  /\ link' = LinkNow(expired)
  /\ grace' = (Active = None /\ link # "offline")
  /\ page' = CASE link = "offline" /\ link' # "offline" /\ page = "boot" -> "deck"
               [] link # "offline" /\ link' = "offline" -> "boot"
               [] OTHER -> page
  /\ UNCHANGED <<keyboard, scanned, queue, dim, preview, session, owner, button, strokes>>

\* BtnA: a press that wakes the panel is only that; another one holds the agent
\* key of the selected chat and the microphone on the active transport.
ButtonPressed ==
  \E h \in IF VoiceInUse THEN VoiceReleased(host) ELSE {host} :
    IF dim
    THEN host' = h /\ voice' = NoVoice
    ELSE \E a \in PressOn(h, Active, "AG"), m \in BOOLEAN :
           /\ m => Active \in connected
           /\ IF m
              THEN /\ host' = Pressed(a.host, Active, "MIC")
                   /\ voice' = [mic |-> TRUE, agent |-> a.sent, on |-> Active]
              ELSE /\ host' \in IF a.sent THEN ReleaseOn(a.host, Active, "AG") ELSE {a.host}
                   /\ voice' = NoVoice

ButtonReleased ==
  /\ host' \in VoiceReleased(host)
  /\ voice' = NoVoice

VoiceButton ==
  /\ pc = "button"
  /\ pc' = "next"
  /\ button' = [button EXCEPT !.seen = button.down]
  /\ CASE button.down /\ ~button.seen -> ButtonPressed /\ dim' = FALSE
       [] ~button.down /\ button.seen /\ VoiceInUse -> ButtonReleased /\ dim' = dim
       [] OTHER -> UNCHANGED <<host, voice, dim>>
  /\ UNCHANGED <<keyboard, scanned, queue, page, preview, session, link, grace, owner, stick,
                 strokes>>

\* No edge is left. In the rest of the turn service_power() may dim or wake the
\* panel.
LoopRest ==
  /\ pc = "pop" /\ queue = <<>>
  /\ pc' = "head"
  /\ dim' \in BOOLEAN
  /\ UNCHANGED <<keyboard, scanned, queue, page, preview, session, link, grace, gestures, button,
                 host, strokes>>

-----------------------------------------------------------------------------
(* keys::next(): a scan when it is due, then the oldest edge. A scan that is *)
(* not due yet is one that finds nothing new.                                *)

Row(k) == CHOOSE r \in DOMAIN Rows : k \in ToSet(Rows[r])
Column(k) == CHOOSE c \in DOMAIN Rows[Row(k)] : Rows[Row(k)][c] = k

\* matrix_scan() goes row by row: first what rises, then what falls, each from the left.
Before(e, f) ==
  \/ Row(e.key) < Row(f.key)
  \/ Row(e.key) = Row(f.key) /\ e.down /\ ~f.down
  \/ Row(e.key) = Row(f.key) /\ e.down = f.down /\ Column(e.key) < Column(f.key)

InScanOrder(edges) ==
  {s \in [1 .. Cardinality(edges) -> edges] :
     ToSet(s) = edges /\ \A i, j \in DOMAIN s : i < j => Before(s[i], s[j])}

Falling(keys) == {Edge(k, FALSE) : k \in {f \in keys : NeedsRelease(f)}}
Rising(keys) == {Edge(k, TRUE) : k \in keys}

\* Key k repeats from now on: the last repeatable one that rises, or else the one that
\* repeated so far, while it is down.
Repeating(k) ==
  LET risen == {r \in down \ held : Repeatable(r)}
  IN  IF risen # {}
      THEN k \in risen /\ \A r \in risen \ {k} : Before(Edge(r, TRUE), Edge(k, TRUE))
      ELSE k = IF repeatKey \in down THEN repeatKey ELSE None

\* More keys than a hand presses: what was held is released and forgotten, and
\* pressed again by the first scan that finds fewer.
GhostScan(repeats) ==
  /\ Cardinality(down) > ghosts
  /\ ~repeats
  /\ scanned' \in InScanOrder(Falling(held))
  /\ held' = {} /\ repeatKey' = None

\* A key that repeats does so on a later scan than the one it rose in.
MatrixScan(repeats) ==
  /\ Cardinality(down) <= ghosts
  /\ repeats => repeatKey \in down \cap held /\ Repeating(repeatKey) /\ strokes < MaxStrokes
  /\ \E found \in InScanOrder(Rising(down \ held) \cup Falling(held \ down)) :
       scanned' =
         IF repeats THEN Append(found, [key |-> repeatKey, down |-> TRUE, again |-> TRUE]) ELSE found
  /\ held' = down
  /\ repeatKey' \in {k \in Keys \cup {None} : Repeating(k)}

\* tca_scan(): whatever the controller has recorded.
TcaScan == scanned' = fifo /\ UNCHANGED <<held, repeatKey>>

\* The controller of an ADV board was not found: it is looked for once a second,
\* and starts with an empty FIFO.
RetryInit == scanned' = <<>> /\ UNCHANGED <<held, repeatKey>>

Scan(repeats) ==
  /\ pc = "next"
  /\ CASE backend = "matrix" -> MatrixScan(repeats) \/ GhostScan(repeats)
       [] backend = "tca" -> TcaScan /\ ~repeats
       [] backend = "missing" -> RetryInit /\ ~repeats
  /\ backend' \in IF backend = "missing" THEN {"missing", "tca"} ELSE {backend}
  /\ pc' = IF scanned' = <<>> THEN "pop" ELSE "push"
  /\ fifo' = <<>>
  /\ strokes' = IF repeats THEN strokes + 1 ELSE strokes
  /\ UNCHANGED <<ghosts, down, queue, surface, session, link, grace, gestures, button, host>>

PushEdge ==
  /\ pc = "push"
  /\ LET e == Head(scanned) IN
       /\ queue' = QueuePush(queue, e)
       /\ host' = IF Sacrificed(queue, e) = {} THEN host
                  ELSE LoseRelease(Meaning(CHOOSE k \in Sacrificed(queue, e) : TRUE))
  /\ scanned' = Tail(scanned)
  /\ pc' = IF scanned' = <<>> THEN "pop" ELSE "push"
  /\ UNCHANGED <<keyboard, surface, session, link, grace, gestures, button, strokes>>

-----------------------------------------------------------------------------
(* What an edge does. Each of these says what becomes of the host, the       *)
(* gestures and the surface; the rest is the same for all of them.           *)

HostUnmoved == UNCHANGED <<host, gestures>>
SurfaceStays == UNCHANGED <<page, preview>>

\* An edge that is not handled. If it is a release, the host waits for it.
Swallowed(e) ==
  /\ host' = IF e.down THEN host ELSE LoseRelease(e.key)
  /\ UNCHANGED gestures

HandleReleaseOnActive(k) ==
  /\ host' \in ReleaseOn(host, Active, Control(k))
  /\ owner' = IF k \in Tracked THEN [owner EXCEPT ![k] = None] ELSE owner
  /\ UNCHANGED <<stick, voice>>
  /\ SurfaceStays

\* A release goes to the transport of its press, on any screen.
HandleRelease(k) ==
  /\ host' \in ReleaseOn(host, OwnerOf(k), Control(k))
  /\ owner' = IF k \in Tracked THEN [owner EXCEPT ![k] = None] ELSE owner
  /\ UNCHANGED <<stick, voice>>
  /\ SurfaceStays

\* A press of a control that is held: send, and remember where it was sent. What
\* was remembered is forgotten: if the other Enter key is down still, its release
\* will not go to the host it was pressed on. The chord of two actions is not
\* remembered at all.
Forgotten(h, k, place) == IF owner[k] = place THEN h ELSE Denied(h, owner[k], Control(k))

HoldControl(k) ==
  \E p \in PressOn(host, Active, Control(k)) :
    LET place == IF p.sent THEN Active ELSE None
    IN  /\ host' = IF k \in Tracked THEN Forgotten(p.host, k, place)
                   ELSE Denied(p.host, Active, Control(k))
        /\ owner' = IF k \in Tracked THEN [owner EXCEPT ![k] = place] ELSE owner
        /\ UNCHANGED <<stick, voice>>

\* send_joystick_impulse(): an impulse that still leans on another transport
\* is centred there first.
StickImpulse ==
  LET settled == IF stick.on \notin {None, Active}
                 THEN ReleaseOn(host, stick.on, "STICK") ELSE {host}
  IN  IF Active = None THEN HostUnmoved
      ELSE \E h \in settled : \E p \in PressOn(h, Active, "STICK") :
             /\ host' = p.host
             /\ stick' = IF p.sent THEN [on |-> Active, due |-> FALSE] ELSE stick
             /\ UNCHANGED <<owner, voice>>

\* The way out of the composer's page: the agent key of the selected chat, down
\* and up; the release is not sent if the press was refused.
EscapeComposer ==
  /\ \E p \in PressOn(host, Active, "AG") :
       host' \in IF p.sent THEN ReleaseOn(p.host, Active, "AG") ELSE {p.host}
  /\ UNCHANGED gestures

GoTo(pages) == HostUnmoved /\ page' \in pages /\ preview' = preview

\* Whether the composer's page is open is up to host frames, keys and timers.
\* Enter then is the click of the dial, else a message sent in one stroke.
PressOnDeck(k) ==
  CASE k \in {"digit", "action", "chord"} -> HoldControl(k) /\ SurfaceStays
    [] k = "enter" -> (HoldControl(k) \/ HostUnmoved) /\ SurfaceStays
    [] k = "arrow" -> StickImpulse /\ SurfaceStays
    [] k = "esc" -> (EscapeComposer /\ SurfaceStays) \/ GoTo({"deck"})
    [] k = "settings" -> GoTo({"menu"})
    [] OTHER -> HostUnmoved /\ SurfaceStays

\* Menus keep digits, arrows and Enter to themselves; actions and the dial
\* reach the host from there too.
PressOnMenu(k) ==
  CASE k \in {"action", "chord"} -> HoldControl(k) /\ SurfaceStays
    [] k = "esc" -> (EscapeComposer /\ SurfaceStays) \/ GoTo({"menu", "deck"})
    [] k = "settings" -> GoTo({"menu", "deck"})
    [] k = "enter" -> GoTo({"menu", "previews"})
    [] OTHER -> HostUnmoved /\ SurfaceStays

\* The list of previews takes every key.
PressOnPreviews(k) ==
  CASE k = "esc" -> GoTo({"menu"})
    [] k = "enter" -> HostUnmoved /\ preview' = TRUE /\ page' = page
    [] OTHER -> HostUnmoved /\ SurfaceStays

\* The gates of handle_press(): an open preview takes everything and Back
\* closes it; without a host only the menus are reachable.
Gated(e) == preview \/ (link = "offline" /\ (page # "menu" \/ (e.down /\ e.key = "settings")))

GatedEdge(e) ==
  /\ Swallowed(e)
  /\ CASE preview -> preview' = ~(e.down /\ e.key = "esc") /\ page' = page
       [] ~preview /\ e.down /\ e.key = "settings" ->
            preview' = preview /\ page' \in {"menu"} \cup (IF page = "menu" THEN {"boot"} ELSE {})
       [] OTHER -> SurfaceStays

Dispatch(e) ==
  CASE Gated(e) -> GatedEdge(e)
    [] ~Gated(e) /\ ~e.down -> HandleRelease(e.key)
    [] OTHER -> CASE page = "previews" -> PressOnPreviews(e.key)
                  [] page = "menu" -> PressOnMenu(e.key)
                  [] OTHER -> PressOnDeck(e.key)

\* The first edge of a dark panel only wakes it, except the way to the settings
\* from the splash.
WakesOnly(e) == dim /\ ~(link = "offline" /\ e.down /\ e.key = "settings")

HandleEdge ==
  /\ pc = "pop" /\ queue # <<>>
  /\ pc' = "next"
  /\ queue' = Tail(queue)
  /\ dim' = FALSE
  /\ LET e == [Head(queue) EXCEPT !.key = Meaning(@)] IN
       IF WakesOnly(e) THEN Swallowed(e) /\ SurfaceStays ELSE Dispatch(e)
  /\ UNCHANGED <<keyboard, scanned, session, link, grace, button, strokes>>

-----------------------------------------------------------------------------
MainStep ==
  \/ \E x \in BOOLEAN : LoopHead(x)
  \/ VoiceButton
  \/ \E r \in BOOLEAN : Scan(r)
  \/ PushEdge
  \/ HandleEdge
  \/ LoopRest

User == (\E k \in Keys : KeyDown(k) \/ KeyUp(k)) \/ PressButton \/ ReleaseButton
HostSide == \E t \in Wires : SessionStarts(t) \/ SessionIdles(t) \/ ConnectionLost(t)

Next == MainStep \/ StickDue \/ User \/ HostSide

Spec == Init /\ [][Next]_vars

\* The main task keeps turning. Time passes at any step of it but is looked at
\* once a turn, so the 85 ms are over at some turn and not at all of them: SF.
FairSpec == Spec /\ WF_vars(MainStep) /\ SF_vars(StickDue)

-----------------------------------------------------------------------------
(* Properties.                                                               *)

\* The release of key k is still on its way to handle_press().
ReleaseComing(k) ==
  \/ Edge(k, FALSE) \in ToSet(queue) \cup ToSet(scanned) \cup ToSet(fifo)
  \/ k \in IF backend = "matrix" THEN held ELSE down

HeldByKey(t, c) ==
  \E k \in Keys :
    /\ Meaning(k) \in Tracked /\ Control(Meaning(k)) = c
    /\ owner[Meaning(k)] = t
    /\ ReleaseComing(k)

HeldByVoice(t, c) ==
  /\ voice.on = t
  /\ (c = "MIC" /\ voice.mic) \/ (c = "AG" /\ voice.agent)

\* Whatever a host holds will be released on that very host: its key is still
\* down or its release is on its way, the voice gesture owns it, or the stick
\* will be centred (keys.cpp:46-64, main.cpp:496-536). The exceptions: a release
\* that was refused, swallowed by a dark panel, a preview or the offline gate, or
\* sacrificed by a full queue; the chord, which has no owner; and an Enter key
\* whose owner a press of the other one has overwritten.
HeldIsExplained ==
  \A h \in host.held \ host.denied :
    \/ HeldByKey(h[1], h[2])
    \/ HeldByVoice(h[1], h[2])
    \/ h[2] = "STICK" /\ stick.on = h[1]

\* The input queue keeps the promise of EdgeQueue (input_event_queue.h:9-40): what it
\* keeps are the edges that may not be dropped, in the order of their places.
Ascending(places) ==
  CHOOSE f \in [1 .. Cardinality(places) -> places] : \A i, j \in DOMAIN f : i < j => f[i] < f[j]

Waiting(q) == {i \in DOMAIN q : ~Droppable(q[i])}

KeptOf(q) ==
  LET place == Ascending(Waiting(q))
  IN  [i \in DOMAIN place |-> [key |-> q[place[i]].key, down |-> q[place[i]].down]]

RoomOf(q) ==
  CASE ~Full(q) -> "some"
    [] Full(q) /\ (\E i \in DOMAIN q : Droppable(q[i])) -> "droppable"
    [] OTHER -> "none"

Promise == INSTANCE EdgeQueue WITH
  kept <- KeptOf(queue), coming <- KeptOf(scanned), room <- RoomOf(queue)

QueueKeepsPromise == Promise!Spec

\* An arrow deflects the stick only for a moment: the hosts whose stick leans are
\* sent its centre, even when the session has moved (main.cpp:1143-1147). The
\* exception is a host that refuses it, as nobody looks at the result.
Leans(t) == <<t, "STICK">> \in host.held \ host.denied
StickCentres == (\E t \in Wires : Leans(t)) ~> (\A t \in Wires : ~Leans(t))

\* The microphone is not left open: when the button is up, or the session has
\* moved to another transport, the gesture ends (main.cpp:1148-1151, 1200-1226).
MicHasReason == VoiceInUse => button.down /\ voice.on = Active
MicCloses == ~MicHasReason ~> MicHasReason

=============================================================================
