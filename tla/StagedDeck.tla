----------------------------- MODULE StagedDeck -----------------------------
(***************************************************************************)
(* The deck that a host sends over the serial line, task by task, when no  *)
(* Codex session owns the presentation: HOST|, one TASK| for each slot and *)
(* TASKS|, which commits the batch.  What was shown of a thread, its       *)
(* unread mark above all, follows the thread to its new slot; the events   *)
(* it raised stay with their slots.                                        *)
(*                                                                         *)
(* Lines get lost (longer than the buffer, or dropped by the driver), are  *)
(* refused (unreadable) or ignored (a session is active), and the program  *)
(* that sends them may be started anew.  The frames of a session after its *)
(* first are module StatusEvents, whose finaliser and failsafe are here    *)
(* again because commit_tasks() moves tasks under them.  CFG| and OPT| are *)
(* left out: no other state depends on the wheels they fill.               *)
(***************************************************************************)
EXTENDS Integers, Sequences, FiniteSets, SequencesExt

CONSTANTS
  Threads,     \* thread ids
  Slots,       \* the number of slots, kCellCount
  Decks,       \* the decks a host sends, sequences of threads with their status
  Hints,       \* the selection it sends with them, 0 for none (-1 in the code)
  MaxBatches,  \* bound: batches begun
  MaxLost,     \* bound: lines lost or refused
  MaxSessions  \* bound: Codex sessions

None == "none"
Statuses == {"idle", "running", "needsInput", "done", "error"}
Items == [id : Threads, status : Statuses]

ASSUME DeckConstants ==
  /\ None \notin Threads
  /\ Slots \in Nat \ {0}
  /\ \A d \in Decks :
       /\ d \in Seq(Items) /\ Len(d) <= Slots
       /\ \A i, j \in DOMAIN d : d[i].id = d[j].id => i = j
  /\ Hints \subseteq 0..Slots
  /\ {MaxBatches, MaxLost, MaxSessions} \subseteq Nat

VARIABLES
  host,      \* the batch under way: its deck and selection, the next line, and
             \* (history) whether one of its lines has put older tasks away
  staged,    \* staged, staged_present; history: "old", of an earlier batch
  open,      \* staged_started_ms # 0
  tasks,     \* model::state.tasks, task_count of them
  selected,  \* model::state.selected, counted from 1; 1 when there is no task
  queue,     \* model::state.announcements
  anim,      \* the announcement on the panel, or NoAnim
  session,   \* active_transport() is one
  budget     \* batches, lines lost, sessions so far

vars == <<host, staged, open, tasks, selected, queue, anim, session, budget>>
batch == <<staged, open>>
deck == <<tasks, selected>>
news == <<queue, anim>>

Nothing == [id |-> None, status |-> "idle", old |-> FALSE]
NoAnim == [slot |-> 0, status |-> "idle"]
NothingStaged == [i \in 1..Slots |-> Nothing]
Present(i) == staged[i] # Nothing

-----------------------------------------------------------------------------
(* The host: tools/devlink.py, push_deck().                                *)

\* The lines of a batch, in this order: HOST|, TASK| of each slot, TASKS|.
LastLine == Len(host.deck) + 1
Sending == host.line <= LastLine
NextLine == [host EXCEPT !.line = @ + 1]

\* A new batch, in the place of one that was not sent to its end if the program
\* was started again.
BeginBatch(d, hint) ==
  /\ budget.batches < MaxBatches
  /\ budget' = [budget EXCEPT !.batches = @ + 1]
  /\ host' = [deck |-> d, hint |-> hint, line |-> 0, cleared |-> FALSE]
  /\ staged' = [i \in 1..Slots |-> IF Present(i) THEN [staged[i] EXCEPT !.old = TRUE] ELSE Nothing]
  /\ UNCHANGED <<open, deck, news, session>>

\* A line of 512 bytes or more, one the driver had no room for, or one that
\* handle_line() cannot read.
LoseLine ==
  /\ Sending /\ budget.lost < MaxLost
  /\ budget' = [budget EXCEPT !.lost = @ + 1]
  /\ host' = NextLine
  /\ UNCHANGED <<batch, deck, news, session>>

\* A live session owns the deck.
IgnoreLine ==
  /\ Sending /\ session
  /\ host' = NextLine
  /\ UNCHANGED <<batch, deck, news, session, budget>>

-----------------------------------------------------------------------------
(* handle_line().                                                          *)

KeepStaged == UNCHANGED batch
ResetStaged == staged' = NothingStaged /\ open' = FALSE

\* service_staged_timeout(), with each line and each turn of the main loop.
Expire == open /\ ResetStaged /\ UNCHANGED <<host, deck, news, session, budget>>

\* "A new host session owns the deck from scratch."
Discard == ResetStaged

HandleHost ==
  /\ host.line = 0 /\ ~session
  /\ Discard
  /\ host' = [host EXCEPT !.line = @ + 1, !.cleared = TRUE]
  /\ UNCHANGED <<deck, news, session, budget>>

\* A second task of slot 0 restarts the batch; of any other slot, the last one counts.
Staging(slot) == IF slot = 1 /\ Present(1) THEN NothingStaged ELSE staged

HandleTask ==
  /\ host.line \in DOMAIN host.deck /\ ~session
  /\ LET slot == host.line
         item == host.deck[slot]
     IN staged' = [Staging(slot) EXCEPT ![slot] =
                     [id |-> item.id, status |-> item.status, old |-> FALSE]]
        /\ host' = [host EXCEPT !.line = @ + 1,
                                !.cleared = @ \/ (slot = 1 /\ (Present(1) \/ ~open))]
  /\ open' = TRUE
  /\ UNCHANGED <<deck, news, session, budget>>

\* poll() finds nothing to read.
Quiet == ~Sending /\ UNCHANGED vars

-----------------------------------------------------------------------------
(* commit_tasks().                                                         *)

\* The task shown before under the same id, the first one of them.
BeforeInSlot(i) == {j \in DOMAIN tasks : j = i}
Before(i) ==
  {j \in DOMAIN tasks : /\ tasks[j].id = staged[i].id
                        /\ \A k \in 1 .. j - 1 : tasks[k].id # staged[i].id}

\* What a task was before, none for a thread that is new.
Was(i) == IF Before(i) = {} THEN None ELSE tasks[CHOOSE j \in Before(i) : TRUE].status
Fresh(i) == Was(i) \notin {None, "done"} /\ staged[i].status = "done"
ChangedStatus(i) == Was(i) \notin {None, staged[i].status}

\* A completion starts unread and on hold; one that was one keeps what it had, on the
\* grey lamp of diagnostic_color(); nothing else is carried.
Carried(i) ==
  LET done == staged[i].status = "done"
      has(mark) == \E j \in Before(i) : tasks[j][mark]
  IN [id |-> staged[i].id, status |-> staged[i].status,
      unseen |-> done /\ (Fresh(i) \/ has("unseen")),
      hold |-> done /\ (Fresh(i) \/ has("hold")),
      green |-> Fresh(i), viewed |-> FALSE]

\* mark_done_viewed()
Viewed(ts, slot) ==
  [i \in DOMAIN ts |->
     IF i = slot /\ ts[i].status = "done"
     THEN [ts[i] EXCEPT !.viewed = TRUE, !.unseen = @ /\ ts[i].hold]
     ELSE ts[i]]

\* ui::select(), ui::relayout()
Unclamped(slot, count) == slot
Clamped(slot, count) == IF count = 0 THEN 1 ELSE IF slot > count THEN count ELSE slot

\* queue_announcement() for each task in turn: in the place of the older event of the
\* slot, or last.
QueuedSlots == {queue[k].slot : k \in DOMAIN queue}
Event(i) == [slot |-> i, status |-> staged[i].status]
InTurn(slots) ==
  {order \in [1..Cardinality(slots) -> slots] :
     \A a, b \in DOMAIN order : a < b => order[a] < order[b]}
Queued(changed, order) ==
  [k \in DOMAIN queue |-> IF queue[k].slot \in changed THEN Event(queue[k].slot) ELSE queue[k]]
    \o [k \in DOMAIN order |-> Event(order[k])]

Commit(count) ==
  LET chosen == IF host.hint \in 1..count THEN host.hint ELSE selected
      shown == [i \in 1..count |-> Carried(i)]
      changed == {i \in 1..count : ChangedStatus(i)}
  IN /\ tasks' = Viewed(shown, chosen)
     /\ selected' = Clamped(chosen, count)
     /\ \E order \in InTurn(changed \ QueuedSlots) : queue' = Queued(changed, order)
     /\ UNCHANGED anim

\* staged_batch_complete()
Complete(count) == \A i \in 1..count : Present(i)

Committing ==
  /\ host.line = LastLine /\ ~session
  /\ Complete(Len(host.deck))

HandleTasks ==
  /\ Committing
  /\ Commit(Len(host.deck))
  /\ ResetStaged
  /\ host' = NextLine
  /\ UNCHANGED <<session, budget>>

\* "incomplete_or_invalid": also when the line itself cannot be read.
RefuseTasks ==
  /\ host.line = LastLine /\ ~session
  /\ \/ ~Complete(Len(host.deck)) /\ UNCHANGED budget
     \/ budget.lost < MaxLost /\ budget' = [budget EXCEPT !.lost = @ + 1]
  /\ ResetStaged
  /\ host' = NextLine
  /\ UNCHANGED <<deck, news, session>>

-----------------------------------------------------------------------------
(* The panel and the user: see StatusEvents.                               *)

\* The next event, of the slot on the panel while there is one.
Start(k) ==
  /\ IF anim = NoAnim THEN k = 1 ELSE queue[k].slot = anim.slot
  /\ anim' = queue[k]
  /\ queue' = RemoveAt(queue, k)
  /\ UNCHANGED <<host, batch, deck, session, budget>>

\* Its end finalises the task that is in its slot by now.
FinalisedGrey(t) == [t EXCEPT !.unseen = FALSE, !.hold = FALSE]
Finalised(t) == [t EXCEPT !.unseen = t.green /\ ~t.viewed, !.hold = FALSE]

Finish ==
  /\ anim # NoAnim
  /\ anim' = NoAnim
  /\ tasks' = [i \in DOMAIN tasks |->
       IF i = anim.slot /\ anim.status = "done" /\ tasks[i].status = "done"
       THEN Finalised(tasks[i]) ELSE tasks[i]]
  /\ UNCHANGED <<host, batch, selected, queue, session, budget>>

\* settle_viewed_completion()
Settle ==
  /\ anim = NoAnim /\ selected \in DOMAIN tasks /\ selected \notin QueuedSlots
  /\ LET t == tasks[selected]
     IN /\ t.status = "done" /\ t.viewed /\ t.hold
        /\ tasks' = [tasks EXCEPT ![selected] = [t EXCEPT !.hold = FALSE, !.unseen = FALSE]]
  /\ UNCHANGED <<host, batch, selected, news, session, budget>>

\* A digit on the deck, which is on the screen for three more seconds after a session.
Select(i) ==
  /\ i \in DOMAIN tasks /\ i # selected
  /\ selected' = i
  /\ UNCHANGED <<host, batch, tasks, news, session, budget>>

-----------------------------------------------------------------------------
(* A Codex session: see CodexSession.                                      *)

\* reset_presentation_sync()
Silenced ==
  /\ queue' = <<>> /\ anim' = NoAnim
  /\ tasks' = [i \in DOMAIN tasks |-> [tasks[i] EXCEPT !.hold = FALSE]]

SessionStarts ==
  /\ ~session /\ budget.sessions < MaxSessions
  /\ session' = TRUE
  /\ Silenced
  /\ budget' = [budget EXCEPT !.sessions = @ + 1]
  /\ UNCHANGED <<host, batch, selected>>

\* The first lamp frame restores every slot; it knows no thread ids.
Blank == [id |-> None, status |-> "idle", unseen |-> FALSE, hold |-> FALSE,
          green |-> FALSE, viewed |-> FALSE]

LampFrame ==
  /\ session
  /\ \E statuses \in [1..Slots -> {"running", "done"}] :
       tasks' = [i \in 1..Slots |->
         LET done == statuses[i] = "done"
         IN [Blank EXCEPT !.id = IF i \in DOMAIN tasks THEN tasks[i].id ELSE None,
                          !.status = statuses[i], !.green = done, !.viewed = done]]
  /\ UNCHANGED <<host, batch, selected, news, session, budget>>

SessionEnds ==
  /\ session
  /\ session' = FALSE
  /\ Silenced
  /\ UNCHANGED <<host, batch, selected, budget>>

-----------------------------------------------------------------------------

Init ==
  /\ host = [deck |-> <<>>, hint |-> 0, line |-> 2, cleared |-> FALSE]
  /\ staged = NothingStaged /\ open = FALSE
  /\ tasks = <<>> /\ selected = 1
  /\ queue = <<>> /\ anim = NoAnim
  /\ session = FALSE
  /\ budget = [batches |-> 0, lost |-> 0, sessions |-> 0]

Serial == HandleHost \/ HandleTask \/ HandleTasks \/ RefuseTasks \/ IgnoreLine \/ Expire \/ Quiet

Host == LoseLine \/ \E d \in Decks, hint \in Hints : BeginBatch(d, hint)

Panel == Finish \/ Settle \/ \E k \in DOMAIN queue : Start(k)

Next ==
  \/ Serial \/ Host \/ Panel
  \/ \E i \in 1..Slots : Select(i)
  \/ SessionStarts \/ LampFrame \/ SessionEnds

Spec == Init /\ [][Next]_vars

-----------------------------------------------------------------------------
(* Properties.                                                             *)

TypeOK ==
  /\ host.deck \in Decks \cup {<<>>} /\ host.hint \in Hints \cup {0}
  /\ host.line \in 0 .. Len(host.deck) + 2 /\ host.cleared \in BOOLEAN
  /\ staged \in [1..Slots -> [id : Threads \cup {None}, status : Statuses, old : BOOLEAN]]
  /\ open \in BOOLEAN /\ (~open => staged = NothingStaged)
  /\ tasks \in Seq([id : Threads \cup {None}, status : Statuses, unseen : BOOLEAN,
                    hold : BOOLEAN, green : BOOLEAN, viewed : BOOLEAN])
  /\ Len(tasks) <= Slots
  /\ selected \in 1 .. (IF tasks = <<>> THEN 1 ELSE Len(tasks))
  /\ queue \in Seq([slot : 1..Slots, status : Statuses]) /\ Len(queue) <= Slots
  /\ anim \in {NoAnim} \cup [slot : 1..Slots, status : Statuses]
  /\ session \in BOOLEAN

\* "So a stale partial batch can no longer merge into the next deck"
\* (CHANGELOG.md:643): a deck that is committed is one the host sent as such, if
\* HOST| arrived, or a first TASK| that found a first task or nothing staged,
\* whatever else of it and of earlier batches was lost or ignored.
OneBatch ==
  Committing /\ host.cleared =>
    \A i \in DOMAIN host.deck :
      ~staged[i].old /\ [id |-> staged[i].id, status |-> staged[i].status] = host.deck[i]

\* "Keyed by thread id rather than slot, because the host reorders by recency"
\* (main.cpp:369): a batch announces a slot only if the thread it shows there now
\* had another status when it was shown last, wherever that was.
ReorderIsNoNews ==
  [][HandleTasks =>
       \A k \in DOMAIN queue' :
         \/ k \in DOMAIN queue /\ queue'[k] = queue[k]
         \/ \E j \in DOMAIN tasks :
              /\ tasks[j].id = tasks'[queue'[k].slot].id
              /\ tasks[j].status # tasks'[queue'[k].slot].status
              /\ tasks'[queue'[k].slot].status = queue'[k].status]_vars

Once(ts, j) == \A k \in DOMAIN ts : ts[k].id = ts[j].id => k = j

\* "Background completions remain unread" (main.cpp:420): as long as a thread stays
\* a completion, its unread mark goes with it to its new slot, and ends only
\* when the thread is, or was, the selected one, or with a session.  The lamp of
\* a completion that was sent twice has lost its green, and the end of an
\* animation in its slot, even another thread's, makes it read.
BackgroundStaysUnread ==
  [][\A j \in DOMAIN tasks, i \in DOMAIN tasks' :
       /\ tasks[j].id = tasks'[i].id /\ tasks[j].id # None
       /\ Once(tasks, j) /\ Once(tasks', i)
       /\ tasks[j].status = "done" /\ tasks'[i].status = "done"
       /\ tasks[j].unseen /\ ~tasks'[i].unseen
       => \/ i = selected' \/ tasks[j].viewed \/ session
          \/ Finish /\ ~tasks[j].green]_vars

=============================================================================
