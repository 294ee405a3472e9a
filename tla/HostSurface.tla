---------------------------- MODULE HostSurface ----------------------------
(***************************************************************************)
(* Two surfaces that must agree: the one Codex has open on the desktop     *)
(* (model, reasoning, a picker) and the control page of the device.  The   *)
(* six lamps carry the state of the chats, but a host surface repaints     *)
(* them, and nothing in a frame says which of the two it is: the device    *)
(* reads it from the colours, from its own page and from a guard that runs *)
(* after the dial.  The host sends no frame twice in a row, so a frame of  *)
(* the chats that is taken for a picker is lost for good.                  *)
(*                                                                         *)
(* Times are not counted: a guard, a quarantine and the grace end whenever *)
(* they end, a stray page times out at any time.  What a frame of the      *)
(* chats does to announcements is module StatusEvents; here it is what the *)
(* deck shows.                                                             *)
(***************************************************************************)
EXTENDS Naturals, Sequences, SequencesExt

CONSTANTS
  Decks,     \* the lamps of the chats, functions from slots to colours, not all dark
  Pickers,   \* the lamps of a host surface
  MaxWire,   \* bound: messages on their way to the device
  MaxKeys    \* bound: keys on their way to the host

\* Two of the five lamp colours of lamp.h, and any colour that is not one of them.
Semantic == {"white", "green"}
Colours == Semantic \cup {"dark", "foreign"}

Lit(lamps) == \E slot \in DOMAIN lamps : lamps[slot] # "dark"
Uniform(lamps, colour) == \A slot \in DOMAIN lamps : lamps[slot] = colour

ASSUME SurfaceConstants ==
  /\ \A lamps \in Decks \cup Pickers : Lit(lamps) /\ \A s \in DOMAIN lamps : lamps[s] \in Colours
  /\ \A lamps \in Decks : \A s \in DOMAIN lamps : lamps[s] # "foreign"
  /\ \A lamps \in Pickers : ~Uniform(lamps, "white")
  /\ {MaxWire, MaxKeys} \subseteq Nat \ {0}

VARIABLES
  lamps,    \* the host: what its chats are to show
  picker,   \* the host has a surface open
  told,     \* the host: the frame it has sent last, or NoFrame in a new session
  wire,     \* messages to the device
  keys,     \* keys to the host
  shown,    \* model::state.tasks, the lamps in them
  page,     \* composer_control_target, composer_control_engaged
  guarded,  \* selection_guarded()
  shut,     \* the page was closed less than 1500 ms ago or dismissed less than 5000 ms ago
  link,     \* active_transport(), model::state.link: up, in grace, offline
  mirrored, \* history: since it was opened the page has mirrored a surface
  outlived, \* history: but that of a session that has ended since
  missed    \* history: the last frame of the chats was lost to a page that mirrors
            \* nothing or an ended session's surface, or was dropped unseen

vars == <<lamps, picker, told, wire, keys, shown, page, guarded, shut, link, mirrored,
          outlived, missed>>
host == <<lamps, picker, told>>
mirror == <<mirrored, outlived>>
device == <<shown, page, guarded, shut, mirror, missed>>

\* A message: what the host means by it (the device cannot tell) and its lamps.
Frame(meaning, colours) == [meaning |-> meaning, lamps |-> colours]
NoFrame == Frame("none", <<>>)
Preview == Frame("lights.preview", <<>>)

ATypicalDeck == CHOOSE deck \in Decks : TRUE
AllOf(colour) == [slot \in DOMAIN ATypicalDeck |-> colour]

-----------------------------------------------------------------------------
(* The host, as the firmware describes it.  Each frame mentions all slots, *)
(* an unlit lamp has no colour, and a closing flash is no frame of the     *)
(* chats even if all of them are read: it differs in effect or level.      *)

Send(frame) ==
  /\ link = "up" /\ Len(wire) < MaxWire
  /\ wire' = Append(wire, frame)
  /\ told' = IF frame = Preview THEN told ELSE frame

HostWorks(deck) ==
  /\ lamps' = deck
  /\ UNCHANGED <<picker, told, wire, keys, link, device>>

\* It "deduplicates lighting".
HostTells ==
  /\ ~picker /\ told # Frame("chats", lamps)
  /\ Send(Frame("chats", lamps))
  /\ UNCHANGED <<lamps, picker, keys, link, device>>

\* "A transient all-off frame while rebuilding Micro lights".
HostRebuilds ==
  /\ ~picker /\ told = Frame("chats", lamps)
  /\ Send(Frame("blank", AllOf("dark")))
  /\ UNCHANGED <<lamps, picker, keys, link, device>>

OpensPicker == ~picker /\ picker' = TRUE /\ UNCHANGED <<told, wire>>

\* "It blanks or whites out all six lamps when a control surface closes."
ClosesPicker ==
  /\ picker /\ picker' = FALSE
  /\ \/ Send(Frame("blank", AllOf("dark")))
     \/ Send(Frame("flash", AllOf("white")))
     \/ link # "up" /\ UNCHANGED <<told, wire>>

HostOpens ==
  /\ OpensPicker
  /\ UNCHANGED <<lamps, keys, link, device>>

HostPaints ==
  /\ picker
  /\ \/ Send(Preview)
     \/ \E colours \in Pickers : told # Frame("picker", colours) /\ Send(Frame("picker", colours))
  /\ UNCHANGED <<lamps, picker, keys, link, device>>

HostCloses ==
  /\ ClosesPicker
  /\ UNCHANGED <<lamps, keys, link, device>>

\* The dial opens a surface if it is mapped to one, a click confirms or steps
\* into a submenu, an agent key returns the focus to its chat.
HostTakesKey ==
  /\ keys # <<>> /\ keys' = Tail(keys)
  /\ \/ Head(keys) = "dial" /\ OpensPicker
     \/ Head(keys) \in {"click", "agent"} /\ ClosesPicker
     \/ (Head(keys) = "agent" => ~picker) /\ UNCHANGED <<picker, told, wire>>
  /\ UNCHANGED <<lamps, link, device>>

-----------------------------------------------------------------------------
(* ui.cpp: the control page.                                               *)

Closed == page = "closed"

\* set_composer_control_active(FALSE).  The page is never shut while it is
\* open, so the two deadlines a closed page has are one.
ClosePage == page' = "closed" /\ shut' = TRUE /\ mirrored' = FALSE /\ outlived' = FALSE

\* dismiss_composer_control_preview(): the same, with the longer quarantine.
Dismiss == ClosePage

\* note_composer_control_closed().
NoteClosed == IF Closed THEN UNCHANGED <<page, shut, mirror>> ELSE Dismiss

\* note_composer_control_preview(), where the page is then left: a lit frame
\* engages it.
NotePreview(lit) ==
  /\ page' = CASE ~Closed       -> IF lit THEN "engaged" ELSE page
               [] Closed /\ shut -> page
               [] OTHER          -> IF lit THEN "engaged" ELSE "stray"
  /\ UNCHANGED shut

\* "The one case a timer can read correctly": three seconds, nothing clicked,
\* nothing lit.
StrayTimeout ==
  /\ page = "stray" /\ Dismiss
  /\ UNCHANGED <<host, wire, keys, shown, guarded, link, missed>>

\* A menu or the voice page takes the screen.
LocalSurface ==
  /\ ~Closed /\ link # "offline" /\ ClosePage
  /\ UNCHANGED <<host, wire, keys, shown, guarded, link, missed>>

ShutEnds == shut /\ shut' = FALSE
            /\ UNCHANGED <<host, wire, keys, shown, page, guarded, link, mirror, missed>>
GuardEnds == guarded /\ guarded' = FALSE
             /\ UNCHANGED <<host, wire, keys, shown, page, shut, link, mirror, missed>>

-----------------------------------------------------------------------------
(* apply_thread_lights() and lights.preview.                               *)

LooksLikeTaskStatus(colours) ==
  \A slot \in DOMAIN colours : colours[slot] \in Semantic \cup {"dark"}

\* Mutant: the guard swallows whatever comes.
PickerUnderAnyGuard(colours) == ~Closed \/ guarded
PickerPreview(colours) == ~Closed \/ (guarded /\ ~LooksLikeTaskStatus(colours))

\* Mutant: a white flash is one more value of the picker.
OnlyBlankCloses(colours) == FALSE
UniformWhite(colours) == Uniform(colours, "white")

ApplyBlank ==
  /\ NoteClosed
  /\ UNCHANGED <<shown, missed>>

ApplyPicker(frame) ==
  /\ IF UniformWhite(frame.lamps)
     THEN NoteClosed
     ELSE /\ NotePreview(TRUE)
          /\ mirrored' = (page' # "closed" /\ (mirrored \/ frame.meaning = "picker"))
          /\ outlived' = (outlived /\ frame.meaning # "picker")
  /\ missed' = (missed \/ (frame.meaning = "chats" /\ ~Closed /\ (~mirrored \/ outlived)))
  /\ UNCHANGED shown

ApplyTasks(frame) ==
  /\ shown' = frame.lamps
  /\ missed' = (missed /\ frame.meaning # "chats")
  /\ UNCHANGED <<page, shut, mirror>>

TakeFrame ==
  /\ wire # <<>> /\ Head(wire) # Preview
  /\ LET frame == Head(wire)
     IN \/ ~Lit(frame.lamps) /\ ApplyBlank
        \/ Lit(frame.lamps) /\ PickerPreview(frame.lamps) /\ ApplyPicker(frame)
        \/ Lit(frame.lamps) /\ ~PickerPreview(frame.lamps) /\ ApplyTasks(frame)
  /\ wire' = Tail(wire)
  /\ UNCHANGED <<host, keys, guarded, link>>

TakePreview ==
  /\ wire # <<>> /\ Head(wire) = Preview
  /\ guarded' = TRUE
  /\ NotePreview(FALSE)
  /\ mirrored' = (page' # "closed") /\ outlived' = FALSE
  /\ wire' = Tail(wire)
  /\ UNCHANGED <<host, keys, shown, link, missed>>

-----------------------------------------------------------------------------
(* main.cpp: the keys.  A key is accepted by the ring of the session, or   *)
(* refused: there is no session, or no room.  A turn of the dial that is   *)
(* refused is retried for a while, and counts as sent.                     *)

KeySent(key) == link = "up" /\ Len(keys) < MaxKeys /\ keys' = Append(keys, key)
KeyRefused == UNCHANGED keys

\* notify_composer_control_step().
OpenByDial == page' = (IF Closed THEN "stray" ELSE page) /\ shut' = FALSE

\* Key::EncoderLeft, Key::EncoderRight.
TurnDial ==
  /\ link # "offline" /\ guarded' = TRUE
  /\ \/ KeySent("dial") /\ OpenByDial
     \/ link = "up" /\ KeyRefused /\ OpenByDial
     \/ KeyRefused /\ UNCHANGED <<page, shut>>
  /\ UNCHANGED <<host, wire, shown, link, mirror, missed>>

\* Key::Enter on the page: send_encoder_press_to() extends the guard first.
Confirm ==
  /\ link # "offline" /\ ~Closed
  /\ page' = "engaged" /\ guarded' = TRUE
  /\ (KeySent("click") \/ KeyRefused)
  /\ UNCHANGED <<host, wire, shown, shut, link, mirror, missed>>

\* Key::Back on the page: press and release of the agent key.  If either is
\* refused the page leaves on its own.
Escape ==
  \/ KeySent("agent") /\ UNCHANGED <<page, shut, mirror>>
  \/ (KeySent("agent") \/ KeyRefused) /\ Dismiss

Esc ==
  /\ link # "offline" /\ ~Closed
  /\ Escape
  /\ UNCHANGED <<host, wire, shown, guarded, link, missed>>

\* A digit: the agent key of its chat.
OpenChat ==
  /\ KeySent("agent")
  /\ UNCHANGED <<host, wire, link, device>>

-----------------------------------------------------------------------------
(* The session comes and goes.                                             *)

\* What was under way is lost with it.  The page stays open: neither the end of a
\* session nor a takeover by the other transport tells ui.cpp anything.
LoseSession ==
  /\ link = "up" /\ link' = "grace"
  /\ wire' = <<>> /\ keys' = <<>> /\ told' = NoFrame
  /\ outlived' = mirrored
  /\ UNCHANGED <<lamps, picker, shown, page, guarded, shut, mirrored, missed>>

\* A host that connects is told of nothing it has sent.  A transport that was live
\* behind the owner takes over in no time, and the frames it was sent meanwhile
\* were answered and dropped: handle() applies none it does not own the state for.
NewSession ==
  /\ link # "up" /\ link' = "up"
  /\ \/ UNCHANGED <<told, missed>>
     \/ link = "grace" /\ missed' = TRUE
        /\ \E deck \in Decks : told' = Frame("chats", deck)
  /\ UNCHANGED <<lamps, picker, wire, keys, shown, page, guarded, shut, mirror>>

\* ui::go(Screen::Boot).
GraceExpires ==
  /\ link = "grace" /\ link' = "offline"
  /\ IF Closed THEN UNCHANGED <<page, shut, mirror>> ELSE ClosePage
  /\ UNCHANGED <<host, wire, keys, shown, guarded, missed>>

-----------------------------------------------------------------------------
Init ==
  /\ lamps \in Decks /\ picker = FALSE /\ told = NoFrame
  /\ wire = <<>> /\ keys = <<>>
  /\ shown = AllOf("dark") /\ page = "closed" /\ guarded = FALSE /\ shut = FALSE
  /\ link = "offline" /\ mirrored = FALSE /\ outlived = FALSE /\ missed = FALSE

Next ==
  \/ \E deck \in Decks : HostWorks(deck)
  \/ HostTells \/ HostRebuilds \/ HostOpens \/ HostPaints \/ HostCloses \/ HostTakesKey
  \/ TakeFrame \/ TakePreview
  \/ TurnDial \/ Confirm \/ Esc \/ OpenChat \/ LocalSurface
  \/ StrayTimeout \/ ShutEnds \/ GuardEnds
  \/ LoseSession \/ NewSession \/ GraceExpires

Spec == Init /\ [][Next]_vars

\* service() handles every report, and the host every key.  The second is
\* strong: it may have to wait for room on the wire, whose bound is the model's.
FairSpec ==
  /\ Spec
  /\ WF_vars(TakeFrame) /\ WF_vars(TakePreview)
  /\ SF_vars(HostTakesKey)

-----------------------------------------------------------------------------
\* The deck shows what the host's chats show, once all it sent has arrived:
\* neither the guard of the dial nor a page that mirrors the surface of its session
\* loses a frame of the chats, although they take frames off the deck and the host
\* repeats none (codex_micro_protocol.cpp:257-305).  Three things do lose one, and
\* the deck is then wrong until the chats change: a page that mirrors nothing,
\* opened by a dial the host has mapped to something else; a page that stays open
\* over a handover, whatever it mirrored before; and the takeover by a transport
\* that was live already, whose frames were dropped.
DeckFollowsHost ==
  link = "up" /\ wire = <<>> /\ told = Frame("chats", lamps) /\ ~missed => shown = lamps

\* Esc leaves the control page (main.cpp:714-737): the agent key makes the host
\* close its surface, and its close frame takes the page down, whatever frames,
\* turns and clicks are under way.  A host without a surface has nothing to
\* close, and an engaged page then stays.
EscAsked == picker /\ ~Closed /\ Contains(keys, "agent")
EscEndsPage == EscAsked ~> (Closed \/ link # "up")

=============================================================================
