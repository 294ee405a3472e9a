---------------------------- MODULE StatusEvents ----------------------------
(***************************************************************************)
(* From lamp frames to announcements: the status reducer, the announcement *)
(* queue and the player of the UI, which together decide what each of the  *)
(* slots shows as unread and which status changes claim the panel.         *)
(*                                                                         *)
(* Everything here runs on the main task, one handler at a time; what      *)
(* interleaves are the lamp frames of the host, the keys of the user, the  *)
(* frames of the UI, the debounce and the audio worker.  task_count is six *)
(* from the first lamp frame on and nothing here looks at it earlier.      *)
(***************************************************************************)
EXTENDS Integers, Sequences, FiniteSets, SequencesExt

CONSTANTS
  Slots,       \* the six chats of the deck
  Lamps,       \* the lamps a host shows: colour and lit or dark
  FrameSlots,  \* the sets of slots that one frame may mention
  Tokens,      \* "some", and "zero" for an event due at (slot + 1) << 24 ms
  Previews,    \* the statuses the user may run from the Status debug page
  Options      \* "composer": the dial may open the control page;
               \* "quiet": host and user may stop for good

None == "none"

Statuses == {"idle", "running", "needsInput", "done", "error"}

\* The five colours of lamp.h and the status each of them means.
StatusOf == [blue |-> "running", orange |-> "needsInput", white |-> "done",
             green |-> "done", red |-> "error"]
Colors == DOMAIN StatusOf \cup {"foreign"}
AllLamps == [color : Colors, lit : BOOLEAN]

ASSUME EventConstants ==
  /\ IsFiniteSet(Slots) /\ Slots # {} /\ Cardinality(Slots) <= 6
  /\ None \notin Slots
  /\ Lamps \subseteq AllLamps
  /\ FrameSlots \subseteq SUBSET Slots
  /\ Tokens \subseteq {"some", "zero"} /\ Tokens # {}
  /\ Previews \subseteq Statuses
  /\ Options \subseteq {"composer", "quiet"}

VARIABLES
  tasks,       \* model::state.tasks
  selected,    \* model::state.selected
  baseline,    \* session.baseline(): see CodexSession
  queue,       \* model::state.announcements
  cued,        \* the slot whose queued event has its score prepared
  anim,        \* the announcement on the panel, or NoAnim
  surface,     \* "deck", "elsewhere" (a menu or a voice takeover), "composer"
  quiet,       \* environment: host and user have stopped for good
  unannounced  \* history: the last change of the slot was given no event

vars == <<tasks, selected, baseline, queue, cued, anim, surface, quiet, unannounced>>

TaskRecords ==
  [status : Statuses, color : Colors, lit : BOOLEAN, unseen : BOOLEAN,
   hold : BOOLEAN, viewed : BOOLEAN, interrupted : BOOLEAN, seen : BOOLEAN]
Events == [slot : Slots, status : Statuses, ripe : BOOLEAN, token : {"some", "zero"},
           preview : BOOLEAN]
NoAnim == [slot |-> None, status |-> "idle", preview |-> FALSE]
Anims == {NoAnim} \cup [slot : Slots, status : Statuses, preview : BOOLEAN]

-----------------------------------------------------------------------------
(* The reducer: status_reducer::apply().                                   *)

Semantic(l) == l.lit /\ l.color \in DOMAIN StatusOf

Initial(t) == baseline \/ ~t.seen

StatusAfter(t, l) == IF Semantic(l) THEN StatusOf[l.color] ELSE t.status

\* Result::changed
Changed(t, l) ==
  Semantic(l) /\ ~t.interrupted /\ ~Initial(t) /\ StatusAfter(t, l) # t.status

\* A completion starts its hold and forgets an earlier view; the first frame
\* of a session does the opposite.
FreshNow(t) == ~Initial(t) /\ t.status # "done"
HoldAfter(t) == ~Initial(t) /\ (t.hold \/ FreshNow(t))
ViewedAfter(t) == Initial(t) \/ (t.viewed /\ ~FreshNow(t))

Reduced(t, l) ==
  LET status == StatusAfter(t, l)
      done == status = "done"
  IN [status |-> status, color |-> l.color, lit |-> l.lit,
      hold |-> done /\ HoldAfter(t),
      viewed |-> done /\ ViewedAfter(t),
      unseen |-> done /\ (HoldAfter(t) \/ (l.color = "green" /\ ~ViewedAfter(t))),
      interrupted |-> (t.interrupted \/ ~l.lit) /\ ~Semantic(l),
      seen |-> TRUE]

\* mark_done_viewed()
MarkViewedAtOnce(t) ==
  IF t.status = "done" THEN [t EXCEPT !.viewed = TRUE, !.unseen = FALSE] ELSE t
MarkViewed(t) ==
  IF t.status = "done" THEN [t EXCEPT !.viewed = TRUE, !.unseen = @ /\ t.hold] ELSE t

-----------------------------------------------------------------------------
(* The queue: queue_announcement().  Its append guard is left out, because *)
(* OnePerSlot, proved without it, shows that it never decides.             *)

QueuedSlots == {queue[i].slot : i \in DOMAIN queue}

NewEvent(s, status, token, preview) ==
  [slot |-> s, status |-> status, ripe |-> FALSE, token |-> token, preview |-> preview]

\* news maps the slots with a new event to it; order is the order in which the
\* frame mentions those that have no event waiting.
Added(news, order) == [i \in DOMAIN order |-> news[order[i]]]
RequeuedOnce(news, order) == queue \o Added(news, order)
RequeuedAlways(news, order) == queue \o Added(news, SetToSeq(DOMAIN news))
RequeuedAtEnd(news, order) ==
  SelectSeq(queue, LAMBDA e : e.slot \notin DOMAIN news) \o Added(news, SetToSeq(DOMAIN news))
Requeued(news, order) ==
  [i \in DOMAIN queue |-> IF queue[i].slot \in DOMAIN news THEN news[queue[i].slot] ELSE queue[i]]
    \o Added(news, order)

\* A replaced event has a new token, so the score prepared for the old one is
\* not its score.
CuedAfter(changed) == IF cued \in changed THEN None ELSE cued

-----------------------------------------------------------------------------
(* The host: apply_thread_lights() and reset_presentation_sync().          *)

\* overlay_thstatus(): the frame over the lamps of the slots it leaves out.
Overlay(frame) ==
  [s \in Slots |-> IF s \in DOMAIN frame THEN frame[s]
                   ELSE [color |-> tasks[s].color, lit |-> tasks[s].lit]]
AnyLit(frame) == \E s \in Slots : Overlay(frame)[s].lit
LooksForeign(frame) == \E s \in Slots : Overlay(frame)[s] = [color |-> "foreign", lit |-> TRUE]

\* The control page gives way to the screen it was opened on.
Closed == IF surface = "composer" THEN {"deck", "elsewhere"} ELSE {surface}

\* An all-off frame closes the control page and is no status of anything.
AllOffFrame(frame) ==
  /\ ~quiet
  /\ ~AnyLit(frame)
  /\ tasks' = [s \in Slots |-> [tasks[s] EXCEPT !.interrupted = TRUE]]
  /\ surface' \in Closed
  /\ UNCHANGED <<selected, baseline, queue, cued, anim, quiet, unannounced>>

\* A frame for the control page: one that arrives while it is open, or one in
\* foreign colours after a turn of the dial (selection_guarded()).  One bright
\* colour on every lamp closes the page, any other may open it.
PickerFrame(frame) ==
  LET All(color) == \A s \in Slots : Overlay(frame)[s].color = color
  IN /\ ~quiet
     /\ AnyLit(frame)
     /\ surface = "composer" \/ LooksForeign(frame)
     /\ \/ (All("white") \/ All("foreign")) /\ surface' \in Closed
        \/ ~All("white") /\ surface' \in {surface, "composer"}
     /\ UNCHANGED <<tasks, selected, baseline, queue, cued, anim, quiet, unannounced>>

\* The selection a frame may imply: host_select::infer() names a lit slot or
\* none.  Which cues make it choose is the subject of host_select.h.
Inferable(frame) == {None} \cup {s \in Slots : Overlay(frame)[s].lit}

\* The slots whose lamp a frame turns into news, and those it completes or
\* changes without any.
NewsOf(frame) == {s \in DOMAIN frame : Changed(tasks[s], frame[s])}
SilentIn(frame) ==
  {s \in DOMAIN frame : StatusAfter(tasks[s], frame[s]) # tasks[s].status} \ NewsOf(frame)

\* The slots a frame marks as viewed: the selected one if it just changed, the
\* one the host selects, and outside the baseline whichever is selected then.
ViewedAll(frame, target) == DOMAIN frame
ViewedIn(frame, target) ==
  (NewsOf(frame) \cap {selected}) \cup {target}
    \cup (IF baseline THEN {} ELSE {IF target = None THEN selected ELSE target})

TaskFrame(frame, target, order, tokens) ==
  LET after(s) == IF s \in DOMAIN frame THEN Reduced(tasks[s], frame[s]) ELSE tasks[s]
      news == [s \in NewsOf(frame) |->
                 NewEvent(s, StatusAfter(tasks[s], frame[s]), tokens[s], FALSE)]
  IN /\ ~quiet
     /\ AnyLit(frame)
     /\ surface # "composer"
     /\ tasks' = [s \in Slots |-> IF s \in ViewedIn(frame, target)
                                  THEN MarkViewed(after(s)) ELSE after(s)]
     /\ selected' = IF target = None THEN selected ELSE target
     /\ queue' = Requeued(news, order)
     /\ cued' = CuedAfter(NewsOf(frame))
     /\ unannounced' = [s \in Slots |->
          IF s \in NewsOf(frame) THEN FALSE
          ELSE IF s \in SilentIn(frame) THEN ~Initial(tasks[s])
          ELSE unannounced[s]]
     /\ UNCHANGED <<baseline, anim, surface, quiet>>

\* reset_presentation_sync(): the session or its owner changes.
ResetPresentation ==
  /\ ~quiet
  /\ tasks' = [s \in Slots |-> [tasks[s] EXCEPT !.hold = FALSE, !.seen = FALSE]]
  /\ baseline' = TRUE
  /\ queue' = <<>>
  /\ cued' = None
  /\ anim' = NoAnim
  /\ unannounced' = [s \in Slots |-> FALSE]
  /\ UNCHANGED <<selected, surface, quiet>>

\* The handshake of the owner is complete and has settled.  It takes a lamp
\* frame that was applied: handle() notes no other.
HandshakeComplete ==
  /\ ~quiet
  /\ baseline
  /\ \E s \in Slots : tasks[s].seen
  /\ baseline' = FALSE
  /\ UNCHANGED <<tasks, selected, queue, cued, anim, surface, quiet, unannounced>>

-----------------------------------------------------------------------------
(* The user.                                                               *)

\* A digit key: ui::select() moves the cursor and marks nothing as viewed.
SelectSlot(s) ==
  /\ ~quiet
  /\ selected' = s
  /\ UNCHANGED <<tasks, baseline, queue, cued, anim, surface, quiet, unannounced>>

\* Menus, push-to-talk, and the control page that opens with the dial.
ChangeSurface ==
  /\ ~quiet
  /\ surface' \in {"deck", "elsewhere"} \cup ({"composer"} \cap Options)
  /\ UNCHANGED <<tasks, selected, baseline, queue, cued, anim, quiet, unannounced>>

\* debug_run(): a preview goes through the same queue and changes no task.
PreviewStatus(status, token) ==
  LET news == [s \in {selected} |-> NewEvent(s, status, token, TRUE)]
  IN /\ ~quiet
     /\ surface = "deck"
     /\ queue' = Requeued(news, IF selected \in QueuedSlots THEN <<>> ELSE <<selected>>)
     /\ cued' = CuedAfter({selected})
     /\ unannounced' = [unannounced EXCEPT ![selected] = TRUE]
     /\ UNCHANGED <<tasks, selected, baseline, anim, surface, quiet>>

GoQuiet ==
  /\ "quiet" \in Options
  /\ ~quiet
  /\ quiet' = TRUE
  /\ UNCHANGED <<tasks, selected, baseline, queue, cued, anim, surface, unannounced>>

-----------------------------------------------------------------------------
(* Debounce, audio worker and player: ui::service().                       *)

\* ready_at_ms passes.  The window is a setting and a replaced event keeps its
\* place but not its time, so events ripen in any order.
Ripen(i) ==
  /\ ~queue[i].ripe
  /\ queue' = [queue EXCEPT ![i].ripe = TRUE]
  /\ UNCHANGED <<tasks, selected, baseline, cued, anim, surface, quiet, unannounced>>

\* The event the player asks a score for: the next one of the slot on the
\* panel, or the oldest one when the panel is free.
CandidateOfPanel(i) == queue[i].slot = anim.slot
Candidate(i) == IF anim = NoAnim THEN i = 1 ELSE queue[i].slot = anim.slot

\* request_status() and the worker.  A token of zero is not a request.
PrepareScore(i) ==
  /\ surface = "deck"
  /\ Candidate(i)
  /\ queue[i].token # "zero"
  /\ cued # queue[i].slot
  /\ cued' = queue[i].slot
  /\ UNCHANGED <<tasks, selected, baseline, queue, anim, surface, quiet, unannounced>>

CanStart(i) ==
  /\ surface = "deck"
  /\ Candidate(i)
  /\ queue[i].ripe
  /\ cued = queue[i].slot

\* start_announcement()
StartAnnouncement(i) ==
  /\ CanStart(i)
  /\ anim' = [slot |-> queue[i].slot, status |-> queue[i].status, preview |-> queue[i].preview]
  /\ queue' = RemoveAt(queue, i)
  /\ cued' = None
  /\ UNCHANGED <<tasks, selected, baseline, surface, quiet, unannounced>>

\* The end of the takeover of a completion: the read state follows the lamp.
FinalisedOnHold(t) ==
  IF t.status = "done" THEN [t EXCEPT !.unseen = t.color = "green" /\ ~t.viewed] ELSE t
Finalised(t) ==
  IF t.status = "done"
  THEN [t EXCEPT !.unseen = t.color = "green" /\ ~t.viewed, !.hold = FALSE]
  ELSE t

\* settle_viewed_completion() on the selected slot, once the panel is free.
NeverSettled(t, s) == t
Settled(t, s) ==
  IF s = selected /\ t.status = "done" /\ t.viewed /\ t.hold /\ s \notin QueuedSlots
  THEN [t EXCEPT !.hold = FALSE, !.unseen = FALSE]
  ELSE t

\* The takeover of a completion is the one that finalises (announce_fade_to_viewed);
\* outside a voice takeover an animation ages on every screen.
FinishAnnouncement ==
  /\ anim # NoAnim
  /\ \A i \in DOMAIN queue : ~CanStart(i)
  /\ tasks' = [s \in Slots |->
       Settled(IF s = anim.slot /\ anim.status = "done"
               THEN Finalised(tasks[s]) ELSE tasks[s], s)]
  /\ anim' = NoAnim
  /\ UNCHANGED <<selected, baseline, queue, cued, surface, quiet, unannounced>>

\* A frame of the UI with nothing on the panel and nothing to start.
SettleFrame ==
  /\ anim = NoAnim
  /\ \A i \in DOMAIN queue : ~CanStart(i)
  /\ tasks' = [s \in Slots |-> Settled(tasks[s], s)]
  /\ UNCHANGED <<selected, baseline, queue, cued, anim, surface, quiet, unannounced>>

-----------------------------------------------------------------------------

Init ==
  /\ tasks = [s \in Slots |->
       [status |-> "idle", color |-> "foreign", lit |-> FALSE, unseen |-> FALSE,
        hold |-> FALSE, viewed |-> FALSE, interrupted |-> FALSE, seen |-> FALSE]]
  /\ selected \in Slots
  /\ baseline = TRUE
  /\ queue = <<>>
  /\ cued = None
  /\ anim = NoAnim
  /\ surface = "elsewhere"
  /\ quiet = FALSE
  /\ unannounced = [s \in Slots |-> FALSE]

Frames == UNION {[D -> Lamps] : D \in FrameSlots}

Host ==
  \/ \E frame \in Frames : AllOffFrame(frame) \/ PickerFrame(frame)
  \/ \E frame \in Frames : \E target \in Inferable(frame),
        order \in SetToSeqs(NewsOf(frame) \ QueuedSlots), tokens \in [NewsOf(frame) -> Tokens] :
       TaskFrame(frame, target, order, tokens)
  \/ ResetPresentation
  \/ HandshakeComplete

User ==
  \/ \E s \in Slots : SelectSlot(s)
  \/ ChangeSurface
  \/ \E status \in Previews, token \in Tokens : PreviewStatus(status, token)

Player ==
  \/ \E i \in DOMAIN queue : StartAnnouncement(i)
  \/ FinishAnnouncement
  \/ SettleFrame

Debounce == \E i \in DOMAIN queue : Ripen(i)
Worker == \E i \in DOMAIN queue : PrepareScore(i)

Next == Host \/ User \/ GoQuiet \/ Debounce \/ Worker \/ Player

Spec == Init /\ [][Next]_vars

\* The main loop calls ui::service() on every turn, time passes, and the audio
\* worker runs: it is a task of its own on the second core.
FairSpec == Spec /\ WF_vars(Debounce) /\ WF_vars(Worker) /\ WF_vars(Player)

-----------------------------------------------------------------------------
(* Properties.                                                             *)

\* Every variable has its type, and the queue holds no more events than the
\* deck has slots.
TypeOK ==
  /\ tasks \in [Slots -> TaskRecords]
  /\ selected \in Slots
  /\ baseline \in BOOLEAN
  /\ queue \in Seq(Events) /\ Len(queue) <= Cardinality(Slots)
  /\ cued \in Slots \cup {None}
  /\ anim \in Anims
  /\ surface \in {"deck", "elsewhere", "composer"}
  /\ quiet \in BOOLEAN
  /\ unannounced \in [Slots -> BOOLEAN]

\* "One slot owns at most one pending event ... the count can never exceed six"
\* (model.h:114-118): through replacements, removals from the middle by a newer
\* event of the slot on the panel, and previews.
OnePerSlot ==
  /\ \A i, j \in DOMAIN queue : queue[i].slot = queue[j].slot => i = j
  /\ Len(queue) <= 6

\* The unread mark of a slot, which four handlers write (reducer, view marking,
\* finaliser, settling), agrees with the lamp: a completion on hold is unread,
\* any other is unread exactly when the host shows it green and nobody looked.
\* A slot whose session was reset waits for its next frame.
UnreadFollowsLamp ==
  \A s \in Slots :
    LET t == tasks[s]
    IN /\ t.hold => t.status = "done" /\ t.unseen
       /\ t.unseen => t.status = "done"
       /\ t.seen /\ t.status = "done" /\ ~t.hold => (t.unseen <=> t.color = "green" /\ ~t.viewed)

\* "A new state for that slot replaces stale news" (model.h:114): what waits in
\* the queue, and what the panel shows when nothing waits for that slot, is
\* the status of the task.  Only a change that arrives as the restoration of a
\* dark lamp, and a preview, leave stale news.
AnnouncedNewsIsCurrent ==
  /\ \A i \in DOMAIN queue :
       LET e == queue[i]
       IN e.preview \/ unannounced[e.slot] \/ e.status = tasks[e.slot].status
  /\ anim # NoAnim /\ ~anim.preview /\ anim.slot \notin QueuedSlots =>
       unannounced[anim.slot] \/ anim.status = tasks[anim.slot].status

\* The event or the animation that will end the hold of a completion.
HoldOwner(s) ==
  \/ s \in QueuedSlots
  \/ anim.slot = s /\ anim.status = "done"

\* The failsafe of the frame loop settles the hold of the selected slot once it
\* is viewed and the panel is free; nobody settles that of another slot.
FailsafeOwner(s) == s = selected /\ tasks[s].viewed

\* "Keep a fresh completion green through debounce/animation" (model.h:22), and
\* no longer: a hold has an event, an animation or the failsafe that will end it.
HoldHasOwner == \A s \in Slots : tasks[s].hold => HoldOwner(s) \/ FailsafeOwner(s)

\* A completion that was announced does not even need the failsafe.
AnnouncedHoldHasOwner ==
  \A s \in Slots : tasks[s].hold => HoldOwner(s) \/ unannounced[s]

\* "Different slots preserve arrival order" (model.h:115), and no news is lost:
\* an event leaves the queue for the panel, and the events that stay, replaced
\* or not, keep their order; only a new session drops them.
NewsKeepsItsTurn ==
  [][~baseline' =>
       LET place(i) == {m \in DOMAIN queue' : queue'[m].slot = queue[i].slot}
       IN /\ \A i \in DOMAIN queue :
               place(i) = {} => cued = queue[i].slot /\ anim'.slot = queue[i].slot
          /\ \A i, j \in DOMAIN queue :
               i < j => \A a \in place(i), b \in place(j) : a < b]_vars

\* "Background completions remain unread" (main.cpp:420): a completion counts as
\* viewed only when its slot is, or just became, the selected one, or when a new
\* session restores old lamps; and nothing else ends the unread mark of a
\* completion that the host still shows green.
BackgroundStaysUnread ==
  [][\A s \in Slots :
       LET before == tasks[s]
           after == tasks'[s]
       IN /\ after.viewed /\ ~before.viewed =>
               s \in {selected, selected'} \/ baseline \/ ~before.seen
          /\ before.unseen /\ ~after.unseen /\ after.status = "done" /\ after.color = "green" =>
               after.viewed]_vars

\* When host and user leave the device alone with the deck on the screen, every
\* event gets its turn on the panel (the player of ui::service()).
QueueDrains ==
  (quiet /\ surface = "deck") ~> (queue = <<>> /\ anim = NoAnim)

\* Then a viewed completion in the selected slot, once this session has shown
\* its lamp, also ends up as read, even one that was never announced: nothing
\* must "leave it green forever" (codex_micro_protocol.cpp:373-377).
SelectedSettles ==
  (quiet /\ surface = "deck") ~>
    (tasks[selected].seen /\ tasks[selected].viewed => ~tasks[selected].unseen)

=============================================================================
