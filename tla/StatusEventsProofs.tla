------------------------- MODULE StatusEventsProofs -------------------------
(***************************************************************************)
(* Theorems about the two halves of a takeover: StatusEvents, for every    *)
(* number of slots up to six and every choice of lamps and frames, and its *)
(* score, StatusAudio, for every number of events and every set of cues.   *)
(***************************************************************************)
EXTENDS StatusEvents, StatusAudio, FiniteSetTheorems, SequenceTheorems, TLAPS

-----------------------------------------------------------------------------
(* The queue.                                                              *)

Unique(q) == \A i, j \in DOMAIN q : q[i].slot = q[j].slot => i = j

\* The parts of a concatenation, and of a sequence cut in two.
LEMMA ConcatFacts ==
  ASSUME NEW S, NEW p \in Seq(S), NEW a \in Seq(S), NEW q, q = p \o a
  PROVE  /\ q \in Seq(S) /\ Len(q) = Len(p) + Len(a)
         /\ DOMAIN q = 1..(Len(p) + Len(a))
         /\ \A i \in 1..Len(p) : q[i] = p[i]
         /\ \A i \in 1..Len(a) : q[Len(p) + i] = a[i]
  OBVIOUS

LEMMA CutFacts ==
  ASSUME NEW S, NEW q \in Seq(S), NEW k \in 1..Len(q)
  PROVE  /\ SubSeq(q, 1, k - 1) \in Seq(S)
         /\ Len(SubSeq(q, 1, k - 1)) = k - 1
         /\ \A i \in 1..(k - 1) : SubSeq(q, 1, k - 1)[i] = q[i]
         /\ SubSeq(q, k + 1, Len(q)) \in Seq(S)
         /\ Len(SubSeq(q, k + 1, Len(q))) = Len(q) - k
         /\ \A i \in 1..(Len(q) - k) : SubSeq(q, k + 1, Len(q))[i] = q[k + i]
  OBVIOUS

\* Replacing the events of some slots where they stand keeps the places.
LEMMA ReplacedFacts ==
  ASSUME NEW q \in Seq(Events), NEW D \in SUBSET Slots, NEW news \in [D -> Events],
         \A s \in D : news[s].slot = s,
         NEW p, p = [i \in DOMAIN q |-> IF q[i].slot \in D THEN news[q[i].slot] ELSE q[i]]
  PROVE  /\ p \in Seq(Events) /\ Len(p) = Len(q)
         /\ \A i \in 1..Len(q) : /\ p[i].slot = q[i].slot
                                 /\ p[i] = IF q[i].slot \in D THEN news[q[i].slot] ELSE q[i]
<1>1. DOMAIN q = 1..Len(q) /\ Len(q) \in Nat /\ \A i \in 1..Len(q) : q[i] \in Events
  BY LenProperties, ElementOfSeq
<1>2. p \in [1..Len(q) -> Events]
  BY <1>1
<1>3. p \in Seq(Events) /\ Len(p) = Len(q)
  BY <1>1, <1>2, IsASeq, LenProperties
<1>4. QED
  BY <1>1, <1>2, <1>3

\* The events a frame adds, one for each slot of an order without repetition.
LEMMA AddedFacts ==
  ASSUME NEW D \in SUBSET Slots, NEW news \in [D -> Events],
         \A s \in D : news[s].slot = s, NEW order \in Seq(D)
  PROVE  /\ Added(news, order) \in Seq(Events)
         /\ Len(Added(news, order)) = Len(order)
         /\ \A i \in 1..Len(order) : /\ Added(news, order)[i].slot = order[i]
                                     /\ Added(news, order)[i] = news[order[i]]
<1>1. DOMAIN order = 1..Len(order) /\ Len(order) \in Nat /\ \A i \in 1..Len(order) : order[i] \in D
  BY LenProperties, ElementOfSeq
<1>2. Added(news, order) \in [1..Len(order) -> Events]
  BY <1>1 DEF Added
<1>3. Added(news, order) \in Seq(Events) /\ Len(Added(news, order)) = Len(order)
  BY <1>1, <1>2, IsASeq, LenProperties
<1>4. QED
  BY <1>1, <1>2, <1>3 DEF Added

\* A sequence that lists the members of a set, each once.
Lists(order, S) ==
  /\ order \in Seq(S)
  /\ \A i, j \in DOMAIN order : order[i] = order[j] => i = j
  /\ \A s \in S : \E i \in DOMAIN order : order[i] = s

\* The events of the slots in D, by slot.
NewsFor(news, D) == news \in [D -> Events] /\ \A s \in D : news[s].slot = s

\* What a frame makes of the queue: one event per slot, as before, and each slot
\* of the frame has its new event.
Requeues(r, news, D) ==
  /\ r \in Seq(Events) /\ Unique(r)
  /\ \A s \in D \cup QueuedSlots : \E i \in DOMAIN r : r[i].slot = s
  /\ \A i \in DOMAIN r :
       IF r[i].slot \in D THEN r[i] = news[r[i].slot] ELSE \E j \in DOMAIN queue : r[i] = queue[j]

\* queue_announcement() for a whole frame.
LEMMA RequeuedFacts ==
  ASSUME queue \in Seq(Events), Unique(queue),
         NEW D \in SUBSET Slots, NEW news, NewsFor(news, D),
         NEW order, Lists(order, D \ QueuedSlots),
         NEW r, r = Requeued(news, order)
  PROVE  Requeues(r, news, D)
<1> USE DEF Lists, NewsFor
<1> DEFINE p == [i \in DOMAIN queue |-> IF queue[i].slot \in D THEN news[queue[i].slot] ELSE queue[i]]
           a == Added(news, order)
           m == Len(queue)
           n == Len(order)
<1>1. r = p \o a
  BY DEF Requeued
<1>2. /\ p \in Seq(Events) /\ Len(p) = m
      /\ \A i \in 1..m : /\ p[i].slot = queue[i].slot
                         /\ p[i] = IF queue[i].slot \in D THEN news[queue[i].slot] ELSE queue[i]
  BY ReplacedFacts
<1>3. order \in Seq(D)
  BY SeqMonotonic
<1>4. /\ a \in Seq(Events) /\ Len(a) = n
      /\ \A i \in 1..n : a[i].slot = order[i] /\ a[i] = news[order[i]]
  BY <1>3, AddedFacts
<1>5. DOMAIN queue = 1..m /\ m \in Nat
  BY LenProperties
<1>6. DOMAIN order = 1..n /\ n \in Nat /\ \A i \in 1..n : order[i] \in D \ QueuedSlots
  BY LenProperties, ElementOfSeq
<1> HIDE DEF p, a, m, n
<1>7. /\ r \in Seq(Events) /\ Len(r) = m + n /\ DOMAIN r = 1..(m + n)
      /\ \A i \in 1..m : r[i] = p[i]
      /\ \A i \in 1..n : r[m + i] = a[i]
  <2>1. p \in Seq(Events) /\ a \in Seq(Events)
    BY <1>2, <1>4
  <2>2. /\ r \in Seq(Events) /\ Len(r) = Len(p) + Len(a) /\ DOMAIN r = 1..(Len(p) + Len(a))
        /\ \A i \in 1..Len(p) : r[i] = p[i]
        /\ \A i \in 1..Len(a) : r[Len(p) + i] = a[i]
    BY <1>1, <2>1, ConcatFacts, SMT
  <2>3. QED
    BY <1>2, <1>4, <2>2
<1>8. \A i \in 1..m : r[i].slot = queue[i].slot
  BY <1>2, <1>7
<1>9. \A i \in 1..n : r[m + i].slot = order[i]
  BY <1>4, <1>7
<1>10. \A i \in 1..(m + n) : i \in 1..m \/ \E k \in 1..n : i = m + k
  <2>1. ASSUME NEW i \in 1..(m + n), i \notin 1..m
        PROVE  i - m \in 1..n /\ i = m + (i - m)
    BY <1>5, <1>6, <2>1
  <2>2. QED
    BY <2>1
<1>11. \A i \in 1..m : i \in 1..(m + n)
  BY <1>5, <1>6
<1>12. \A k \in 1..n : m + k \in 1..(m + n)
  BY <1>5, <1>6
<1>13. \A i \in 1..m : queue[i].slot \in QueuedSlots
  BY <1>5 DEF QueuedSlots
<1>14. ASSUME NEW i \in 1..(m + n), NEW j \in 1..(m + n), r[i].slot = r[j].slot
       PROVE  i = j
  <2>1. CASE i \in 1..m /\ j \in 1..m
    BY <1>5, <1>8, <1>14, <2>1 DEF Unique
  <2>2. ASSUME NEW k \in 1..n, i \in 1..m, j = m + k
        PROVE  FALSE
    BY <1>6, <1>8, <1>9, <1>13, <1>14, <2>2
  <2>3. ASSUME NEW k \in 1..n, j \in 1..m, i = m + k
        PROVE  FALSE
    BY <1>6, <1>8, <1>9, <1>13, <1>14, <2>3
  <2>4. ASSUME NEW k \in 1..n, NEW l \in 1..n, i = m + k, j = m + l
        PROVE  k = l
    <3>1. r[i].slot = order[k] /\ r[j].slot = order[l]
      BY <1>9, <2>4
    <3>2. order[k] = order[l]
      BY <1>14, <3>1
    <3>3. k \in DOMAIN order /\ l \in DOMAIN order
      BY <1>6
    <3>4. QED
      BY <3>2, <3>3
  <2>5. QED
    BY <1>10, <2>1, <2>2, <2>3, <2>4
<1>15. ASSUME NEW s \in D \cup QueuedSlots PROVE \E i \in DOMAIN r : r[i].slot = s
  <2>1. CASE s \in QueuedSlots
    BY <1>5, <1>7, <1>8, <1>11, <2>1 DEF QueuedSlots
  <2>2. CASE s \in D \ QueuedSlots
    <3>1. PICK k \in 1..n : order[k] = s
      BY <1>6, <2>2
    <3>2. QED
      BY <1>7, <1>9, <1>12, <3>1
  <2>3. QED
    BY <2>1, <2>2
<1>16. ASSUME NEW i \in 1..(m + n)
       PROVE  IF r[i].slot \in D THEN r[i] = news[r[i].slot] ELSE \E j \in DOMAIN queue : r[i] = queue[j]
  <2>1. CASE i \in 1..m
    <3>1. i \in DOMAIN queue /\ r[i] = p[i] /\ r[i].slot = queue[i].slot
      BY <1>5, <1>7, <1>8, <2>1
    <3>2. p[i] = IF queue[i].slot \in D THEN news[queue[i].slot] ELSE queue[i]
      BY <1>2, <2>1
    <3>3. CASE queue[i].slot \in D
      <4>1. r[i] = news[r[i].slot]
        BY <3>1, <3>2, <3>3
      <4>2. QED
        BY <3>1, <3>3, <4>1
    <3>4. CASE queue[i].slot \notin D
      <4>1. r[i] = queue[i] /\ r[i].slot \notin D
        BY <3>1, <3>2, <3>4
      <4>2. QED
        BY <3>1, <4>1
    <3>5. QED
      BY <3>3, <3>4
  <2>2. ASSUME NEW k \in 1..n, i = m + k PROVE r[i].slot \in D /\ r[i] = news[r[i].slot]
    BY <1>4, <1>6, <1>7, <1>9, <2>2
  <2>3. QED
    BY <1>10, <2>1, <2>2
<1>17. QED
  BY <1>7, <1>14, <1>15, <1>16 DEF Unique, Requeues

\* Taking an event out keeps the rest.
LEMMA RemoveAtFacts ==
  ASSUME NEW S, NEW q \in Seq(S), NEW k \in DOMAIN q
  PROVE  /\ RemoveAt(q, k) \in Seq(S)
         /\ Len(RemoveAt(q, k)) = Len(q) - 1
         /\ \A i \in 1..(Len(q) - 1) : RemoveAt(q, k)[i] = IF i < k THEN q[i] ELSE q[i + 1]
<1>1. k \in 1..Len(q) /\ Len(q) \in Nat
  BY LenProperties
<1> DEFINE b == SubSeq(q, 1, k - 1)
           c == SubSeq(q, k + 1, Len(q))
<1>2. b \in Seq(S) /\ Len(b) = k - 1 /\ \A i \in 1..(k - 1) : b[i] = q[i]
  BY <1>1, CutFacts
<1>3. c \in Seq(S) /\ Len(c) = Len(q) - k /\ \A i \in 1..(Len(q) - k) : c[i] = q[k + i]
  BY <1>1, CutFacts
<1> DEFINE r == RemoveAt(q, k)
<1>4. r = b \o c
  BY DEF RemoveAt
<1> HIDE DEF b, c, r
<1>5. /\ r \in Seq(S) /\ Len(r) = Len(q) - 1
      /\ \A i \in 1..(k - 1) : r[i] = q[i]
      /\ \A i \in 1..(Len(q) - k) : r[(k - 1) + i] = q[k + i]
  <2>1. /\ r \in Seq(S) /\ Len(r) = Len(b) + Len(c)
        /\ \A i \in 1..Len(b) : r[i] = b[i]
        /\ \A i \in 1..Len(c) : r[Len(b) + i] = c[i]
    <3>1. b \in Seq(S) /\ c \in Seq(S)
      BY <1>2, <1>3
    <3>2. QED
      BY <1>4, <3>1, ConcatFacts, SMT
  <2>2. Len(r) = Len(q) - 1
    BY <1>1, <1>2, <1>3, <2>1
  <2>3. \A i \in 1..(k - 1) : r[i] = q[i]
    BY <1>2, <2>1
  <2>4. ASSUME NEW i \in 1..(Len(q) - k) PROVE r[(k - 1) + i] = q[k + i]
    BY <1>2, <1>3, <2>1, Zenon
  <2>5. QED
    BY <2>1, <2>2, <2>3, <2>4
<1>6. ASSUME NEW i \in 1..(Len(q) - 1) PROVE r[i] = IF i < k THEN q[i] ELSE q[i + 1]
  <2>1. CASE i < k
    BY <1>1, <1>5, <2>1
  <2>2. CASE ~(i < k)
    <3>1. i - (k - 1) \in 1..(Len(q) - k)
      BY <1>1, <2>2
    <3>2. (k - 1) + (i - (k - 1)) = i /\ k + (i - (k - 1)) = i + 1
      BY <1>1
    <3>3. r[(k - 1) + (i - (k - 1))] = q[k + (i - (k - 1))]
      BY <1>5, <3>1
    <3>4. QED
      BY <2>2, <3>2, <3>3
  <2>3. QED
    BY <2>1, <2>2
<1>7. QED
  BY <1>5, <1>6 DEF r

LEMMA RemoveAtUnique ==
  ASSUME NEW q \in Seq(Events), Unique(q), NEW k \in DOMAIN q
  PROVE  Unique(RemoveAt(q, k))
<1>1. DOMAIN q = 1..Len(q) /\ Len(q) \in Nat
  BY LenProperties
<1>2. DOMAIN RemoveAt(q, k) = 1..(Len(q) - 1)
  BY RemoveAtFacts, LenProperties
<1>3. ASSUME NEW i \in 1..(Len(q) - 1), NEW j \in 1..(Len(q) - 1),
             RemoveAt(q, k)[i].slot = RemoveAt(q, k)[j].slot
      PROVE  i = j
  <2> DEFINE place(m) == IF m < k THEN m ELSE m + 1
  <2>1. place(i) \in DOMAIN q /\ place(j) \in DOMAIN q
    BY <1>1
  <2>2. RemoveAt(q, k)[i] = q[place(i)] /\ RemoveAt(q, k)[j] = q[place(j)]
    BY RemoveAtFacts
  <2>3. place(i) = place(j)
    BY <1>3, <2>1, <2>2 DEF Unique
  <2>4. QED
    BY <1>1, <2>3
<1>4. QED
  BY <1>2, <1>3 DEF Unique

\* A queue without two events of one slot is no longer than the deck.
LEMMA UniqueBound ==
  ASSUME NEW q \in Seq(Events), Unique(q)
  PROVE  Len(q) <= Cardinality(Slots) /\ Len(q) <= 6
<1>1. DOMAIN q = 1..Len(q) /\ Len(q) \in Nat /\ \A i \in 1..Len(q) : q[i] \in Events
  BY LenProperties, ElementOfSeq
<1> DEFINE f == [i \in 1..Len(q) |-> q[i].slot]
<1>2. f \in [1..Len(q) -> Slots]
  <2>1. \A i \in 1..Len(q) : q[i].slot \in Slots
    BY <1>1 DEF Events
  <2>2. QED
    BY <2>1
<1>3. IsFiniteSet(1..Len(q)) /\ Cardinality(1..Len(q)) = Len(q)
  <2> DEFINE n == Len(q)
  <2>1. n \in Int /\ 1 \in Int /\ n >= 0
    BY <1>1
  <2> HIDE DEF n
  <2>2. IsFiniteSet(1..n) /\ Cardinality(1..n) = IF 1 > n THEN 0 ELSE n - 1 + 1
    BY <2>1, FS_Interval
  <2>3. QED
    BY <2>1, <2>2 DEF n
<1>4. Cardinality(Slots) \in Nat
  BY EventConstants, FS_CardinalityType
<1>5. ~(Cardinality(Slots) < Cardinality(1..Len(q)))
  <2>1. ASSUME Cardinality(Slots) < Cardinality(1..Len(q)) PROVE FALSE
    <3>1. \E x, y \in 1..Len(q) : x # y /\ f[x] = f[y]
      <4> HIDE DEF f
      <4>1. QED
        BY <1>2, <1>3, <2>1, EventConstants, FS_PigeonHole
    <3>2. QED
      BY <1>1, <3>1 DEF Unique
  <2>2. QED
    BY <2>1
<1>6. QED
  BY <1>1, <1>3, <1>4, <1>5, EventConstants

-----------------------------------------------------------------------------
(* The task records.                                                       *)

Consistent(t) ==
  /\ t.hold => t.status = "done" /\ t.unseen
  /\ t.unseen => t.status = "done"
  /\ t.seen /\ t.status = "done" /\ ~t.hold => (t.unseen <=> t.color = "green" /\ ~t.viewed)

Good(t) == t \in TaskRecords /\ Consistent(t)

\* status_reducer::apply() leaves a task whose read state agrees with its lamp.
LEMMA ReducedGood ==
  ASSUME NEW t \in TaskRecords, NEW l \in AllLamps
  PROVE  /\ Good(Reduced(t, l))
         /\ Reduced(t, l).status = StatusAfter(t, l)
         /\ Reduced(t, l).hold => StatusAfter(t, l) = "done" /\ HoldAfter(t)
<1>1. StatusAfter(t, l) \in Statuses
  BY DEF StatusAfter, Semantic, StatusOf, Statuses, TaskRecords
<1>2. l.color \in Colors /\ l.lit \in BOOLEAN
  BY DEF AllLamps
<1> DEFINE st == StatusAfter(t, l)
           ho == st = "done" /\ HoldAfter(t)
           vi == st = "done" /\ ViewedAfter(t)
           un == st = "done" /\ (HoldAfter(t) \/ (l.color = "green" /\ ~ViewedAfter(t)))
           it == (t.interrupted \/ ~l.lit) /\ ~Semantic(l)
           co == l.color
           li == l.lit
<1>3. ho \in BOOLEAN /\ vi \in BOOLEAN /\ un \in BOOLEAN /\ it \in BOOLEAN /\ TRUE \in BOOLEAN
  BY Zenon
<1>4. /\ ho => st = "done" /\ un
      /\ un => st = "done"
      /\ st = "done" /\ ~ho => (un <=> co = "green" /\ ~vi)
      /\ ho => HoldAfter(t)
  BY Zenon
<1>5. Reduced(t, l) =
        [status |-> st, color |-> co, lit |-> li, hold |-> ho, viewed |-> vi,
         unseen |-> un, interrupted |-> it, seen |-> TRUE]
  BY DEF Reduced
<1>6. st \in Statuses /\ co \in Colors /\ li \in BOOLEAN
  BY <1>1, <1>2
<1>7. st = StatusAfter(t, l)
  OBVIOUS
<1> HIDE DEF st, ho, vi, un, it, co, li
<1>8. Reduced(t, l) \in TaskRecords
  <2>1. [status |-> st, color |-> co, lit |-> li, hold |-> ho, viewed |-> vi,
         unseen |-> un, interrupted |-> it, seen |-> TRUE] \in TaskRecords
    BY <1>3, <1>6, Zenon DEF TaskRecords
  <2>2. QED
    BY <1>5, <2>1
<1>9. /\ Reduced(t, l).status = st /\ Reduced(t, l).color = co /\ Reduced(t, l).hold = ho
      /\ Reduced(t, l).viewed = vi /\ Reduced(t, l).unseen = un
  BY <1>5
<1>10. Consistent(Reduced(t, l))
  BY <1>4, <1>9, Zenon DEF Consistent
<1>11. Reduced(t, l).hold => HoldAfter(t)
  BY <1>4, <1>9, Zenon
<1>12. Reduced(t, l).hold => st = "done"
  BY <1>4, <1>9, Zenon
<1>13. QED
  BY <1>7, <1>8, <1>9, <1>10, <1>11, <1>12, Zenon DEF Good

\* So do the view marking, the settling, the finaliser, a dark deck and a new
\* session, from such a task.
LEMMA MarkViewedGood ==
  ASSUME NEW t, Good(t)
  PROVE  /\ Good(MarkViewed(t)) /\ MarkViewed(t).hold = t.hold
         /\ MarkViewed(t).status = t.status
  BY DEF Good, Consistent, MarkViewed, TaskRecords

LEMMA SettledGood ==
  ASSUME NEW t, NEW s, Good(t)
  PROVE  Good(Settled(t, s)) /\ (Settled(t, s).hold => t.hold) /\ Settled(t, s).status = t.status
  BY DEF Good, Consistent, Settled, TaskRecords

LEMMA FinalisedGood ==
  ASSUME NEW t, Good(t)
  PROVE  Good(Finalised(t)) /\ ~Finalised(t).hold /\ Finalised(t).status = t.status
  BY DEF Good, Consistent, Finalised, TaskRecords

LEMMA InterruptedGood ==
  ASSUME NEW t, Good(t)
  PROVE  LET u == [t EXCEPT !.interrupted = TRUE]
         IN Good(u) /\ u.hold = t.hold /\ u.status = t.status
  BY DEF Good, Consistent, TaskRecords

LEMMA ResetGood ==
  ASSUME NEW t, Good(t)
  PROVE  LET u == [t EXCEPT !.hold = FALSE, !.seen = FALSE] IN Good(u) /\ ~u.hold
  BY DEF Good, Consistent, TaskRecords

-----------------------------------------------------------------------------
(* The inductive invariant.                                                *)

TasksGood == tasks \in [Slots -> TaskRecords] /\ \A s \in Slots : Consistent(tasks[s])
QueueGood == queue \in Seq(Events) /\ Unique(queue)
RestTyped ==
  /\ selected \in Slots
  /\ baseline \in BOOLEAN
  /\ cued \in Slots \cup {None}
  /\ anim \in Anims
  /\ surface \in {"deck", "elsewhere", "composer"}
  /\ quiet \in BOOLEAN
  /\ unannounced \in [Slots -> BOOLEAN]

\* An event that waits for a slot on hold is the completion itself, unless the
\* completion was not announced: playing it ends the hold.
HoldEventDone ==
  \A i \in DOMAIN queue :
    tasks[queue[i].slot].hold => queue[i].status = "done" \/ unannounced[queue[i].slot]

IInv ==
  TasksGood /\ QueueGood /\ RestTyped /\ AnnouncedHoldHasOwner /\ HoldEventDone

LEMMA InitIInv == Init => IInv
<1> SUFFICES ASSUME Init PROVE IInv
  OBVIOUS
<1>1. TasksGood
  <2> DEFINE t == [status |-> "idle", color |-> "foreign", lit |-> FALSE, unseen |-> FALSE,
                   hold |-> FALSE, viewed |-> FALSE, interrupted |-> FALSE, seen |-> FALSE]
  <2>1. t \in TaskRecords /\ Consistent(t)
    BY DEF TaskRecords, Statuses, Colors, Consistent
  <2>2. tasks = [s \in Slots |-> t]
    BY DEF Init
  <2> HIDE DEF t
  <2>3. QED
    BY <2>1, <2>2 DEF TasksGood
<1>2. QueueGood
  BY DEF Init, QueueGood, Unique
<1>3. RestTyped
  BY DEF Init, RestTyped, Anims
<1>4. AnnouncedHoldHasOwner /\ HoldEventDone
  BY DEF Init, AnnouncedHoldHasOwner, HoldEventDone
<1>5. QED
  BY <1>1, <1>2, <1>3, <1>4 DEF IInv

LEMMA EmptyQueue ==
  ASSUME NEW q, q = <<>>
  PROVE  q \in Seq(Events) /\ Unique(q) /\ DOMAIN q = {}
  BY DEF Unique

LEMMA EventTyped ==
  ASSUME QueueGood
  PROVE  \A i \in DOMAIN queue : queue[i] \in Events /\ queue[i].slot \in Slots
<1>1. queue \in Seq(Events)
  BY DEF QueueGood
<1>2. \A i \in DOMAIN queue : queue[i] \in Events
  BY <1>1, LenProperties, ElementOfSeq
<1>3. QED
  BY <1>2 DEF Events

\* The slots with an event waiting, by their places in the queue.
LEMMA QueuedHere ==
  ASSUME NEW s
  PROVE  s \in QueuedSlots <=> \E i \in DOMAIN queue : queue[i].slot = s
  BY DEF QueuedSlots

LEMMA QueuedNext ==
  ASSUME NEW s
  PROVE  s \in QueuedSlots' <=> \E i \in DOMAIN queue' : queue'[i].slot = s
  BY DEF QueuedSlots

\* A step that leaves queue, panel and announcements alone and starts no hold.
LEMMA HoldsKept ==
  ASSUME AnnouncedHoldHasOwner, HoldEventDone, QueueGood,
         UNCHANGED <<queue, unannounced>>,
         \A s \in Slots : tasks'[s].hold => tasks[s].hold,
         \A s \in Slots : tasks'[s].hold /\ anim.slot = s /\ anim.status = "done" =>
            anim'.slot = s /\ anim'.status = "done"
  PROVE  (AnnouncedHoldHasOwner /\ HoldEventDone)'
<1>1. AnnouncedHoldHasOwner'
  <2> SUFFICES ASSUME NEW s \in Slots, tasks'[s].hold
               PROVE  HoldOwner(s)' \/ unannounced'[s]
    BY DEF AnnouncedHoldHasOwner
  <2>1. HoldOwner(s) \/ unannounced[s]
    BY DEF AnnouncedHoldHasOwner
  <2>2. s \in QueuedSlots => s \in QueuedSlots'
    BY DEF QueuedSlots
  <2>3. QED
    BY <2>1, <2>2 DEF HoldOwner
<1>2. HoldEventDone'
  <2>1. \A i \in DOMAIN queue : queue[i].slot \in Slots
    BY EventTyped
  <2>2. QED
    BY <2>1 DEF HoldEventDone
<1>3. QED
  BY <1>1, <1>2

\* Frames mention slots of the deck and show known lamps.
LEMMA FrameType ==
  ASSUME NEW frame \in Frames
  PROVE  /\ DOMAIN frame \subseteq Slots
         /\ \A s \in DOMAIN frame : frame[s] \in AllLamps
  BY EventConstants DEF Frames

\* SetToSeqs() lists the members of a set, each once.
LEMMA OrderFacts ==
  ASSUME NEW S, IsFiniteSet(S), NEW order \in SetToSeqs(S)
  PROVE  Lists(order, S)
<1> DEFINE n == Cardinality(S)
<1>1. n \in Nat
  BY FS_CardinalityType
<1>2. order \in [1..n -> S] /\ \A i, j \in 1..n : i # j => order[i] # order[j]
  BY DEF SetToSeqs
<1>3. Cardinality(1..n) = n
  <2> HIDE DEF n
  <2>1. n \in Int /\ 1 \in Int
    BY <1>1
  <2>2. Cardinality(1..n) = IF 1 > n THEN 0 ELSE n - 1 + 1
    BY <2>1, FS_Interval
  <2>3. QED
    BY <1>1, <2>2
<1>4. order \in Injection(1..n, S)
  BY <1>2 DEF Injection, IsInjective
<1>5. order \in Surjection(1..n, S)
  <2> HIDE DEF n
  <2>1. Cardinality(1..n) = Cardinality(S)
    BY <1>3 DEF n
  <2>2. QED
    BY <1>4, <2>1, FS_Injection
<1>6. QED
  BY <1>1, <1>2, <1>5, IsASeq DEF Surjection, Lists

-----------------------------------------------------------------------------
(* One lemma per action.                                                   *)

\* Steps that touch neither a task nor the queue.
LEMMA IdleStep ==
  ASSUME IInv, UNCHANGED <<tasks, queue, anim, unannounced>>, RestTyped'
  PROVE  IInv'
<1>1. TasksGood' /\ QueueGood'
  BY DEF IInv, TasksGood, QueueGood
<1>2. (AnnouncedHoldHasOwner /\ HoldEventDone)'
  BY HoldsKept DEF IInv
<1>3. QED
  BY <1>1, <1>2 DEF IInv

LEMMA AllOffFrameIInv ==
  ASSUME IInv, NEW frame \in Frames, AllOffFrame(frame)
  PROVE  IInv'
<1>1. \A s \in Slots : Good(tasks'[s]) /\ tasks'[s].hold = tasks[s].hold
  <2> SUFFICES ASSUME NEW s \in Slots PROVE Good(tasks'[s]) /\ tasks'[s].hold = tasks[s].hold
    OBVIOUS
  <2>1. Good(tasks[s])
    BY DEF IInv, TasksGood, Good
  <2>2. tasks'[s] = [tasks[s] EXCEPT !.interrupted = TRUE]
    BY DEF AllOffFrame
  <2>3. QED
    BY <2>1, <2>2, InterruptedGood
<1>2. TasksGood'
  BY <1>1 DEF AllOffFrame, TasksGood, Good
<1>3. QueueGood'
  BY DEF AllOffFrame, IInv, QueueGood
<1>4. RestTyped'
  BY DEF AllOffFrame, IInv, RestTyped, Closed
<1>5. (AnnouncedHoldHasOwner /\ HoldEventDone)'
  <2>1. UNCHANGED <<queue, anim, unannounced>>
    BY DEF AllOffFrame
  <2>2. QED
    BY <1>1, <2>1, HoldsKept DEF IInv
<1>6. QED
  BY <1>2, <1>3, <1>4, <1>5 DEF IInv

LEMMA ResetPresentationIInv ==
  ASSUME IInv, ResetPresentation
  PROVE  IInv'
<1>1. \A s \in Slots : Good(tasks'[s]) /\ ~tasks'[s].hold
  <2> SUFFICES ASSUME NEW s \in Slots PROVE Good(tasks'[s]) /\ ~tasks'[s].hold
    OBVIOUS
  <2>1. Good(tasks[s])
    BY DEF IInv, TasksGood, Good
  <2>2. tasks'[s] = [tasks[s] EXCEPT !.hold = FALSE, !.seen = FALSE]
    BY DEF ResetPresentation
  <2>3. QED
    BY <2>1, <2>2, ResetGood
<1>2. TasksGood'
  BY <1>1 DEF ResetPresentation, TasksGood, Good
<1>3. QueueGood'
  <2>1. queue' = <<>>
    BY DEF ResetPresentation
  <2>2. QED
    BY <2>1, EmptyQueue DEF QueueGood
<1>4. RestTyped'
  BY DEF ResetPresentation, IInv, RestTyped, Anims
<1>5. (AnnouncedHoldHasOwner /\ HoldEventDone)'
  <2>1. queue' = <<>>
    BY DEF ResetPresentation
  <2>2. DOMAIN queue' = {}
    BY <2>1, EmptyQueue
  <2>3. QED
    BY <1>1, <2>2 DEF AnnouncedHoldHasOwner, HoldEventDone
<1>6. QED
  BY <1>2, <1>3, <1>4, <1>5 DEF IInv

LEMMA SettleFrameIInv ==
  ASSUME IInv, SettleFrame
  PROVE  IInv'
<1>1. \A s \in Slots : Good(tasks'[s]) /\ (tasks'[s].hold => tasks[s].hold)
  <2> SUFFICES ASSUME NEW s \in Slots
               PROVE  Good(tasks'[s]) /\ (tasks'[s].hold => tasks[s].hold)
    OBVIOUS
  <2>1. Good(tasks[s])
    BY DEF IInv, TasksGood, Good
  <2>2. tasks'[s] = Settled(tasks[s], s)
    BY DEF SettleFrame
  <2>3. QED
    BY <2>1, <2>2, SettledGood
<1>2. TasksGood'
  BY <1>1 DEF SettleFrame, TasksGood, Good
<1>3. UNCHANGED <<selected, baseline, queue, cued, anim, surface, quiet, unannounced>>
  BY DEF SettleFrame
<1>4. QueueGood' /\ RestTyped'
  BY <1>3 DEF IInv, QueueGood, RestTyped
<1>5. (AnnouncedHoldHasOwner /\ HoldEventDone)'
  BY <1>1, <1>3, HoldsKept DEF IInv
<1>6. QED
  BY <1>2, <1>4, <1>5 DEF IInv

LEMMA FinishAnnouncementIInv ==
  ASSUME IInv, FinishAnnouncement
  PROVE  IInv'
<1>1. \A s \in Slots : /\ Good(tasks'[s])
                       /\ tasks'[s].hold => tasks[s].hold
                       /\ tasks'[s].hold => ~(anim.slot = s /\ anim.status = "done")
  <2> SUFFICES ASSUME NEW s \in Slots
               PROVE  /\ Good(tasks'[s])
                      /\ tasks'[s].hold => tasks[s].hold
                      /\ tasks'[s].hold => ~(anim.slot = s /\ anim.status = "done")
    OBVIOUS
  <2>1. Good(tasks[s])
    BY DEF IInv, TasksGood, Good
  <2>2. CASE s = anim.slot /\ anim.status = "done"
    <3>1. tasks'[s] = Settled(Finalised(tasks[s]), s)
      BY <2>2 DEF FinishAnnouncement
    <3>2. Good(Finalised(tasks[s])) /\ ~Finalised(tasks[s]).hold
      BY <2>1, FinalisedGood
    <3>3. Good(tasks'[s]) /\ ~tasks'[s].hold
      BY <3>1, <3>2, SettledGood
    <3>4. QED
      BY <3>3
  <2>3. CASE ~(s = anim.slot /\ anim.status = "done")
    <3>1. tasks'[s] = Settled(tasks[s], s)
      BY <2>3 DEF FinishAnnouncement
    <3>2. QED
      BY <2>1, <2>3, <3>1, SettledGood
  <2>4. QED
    BY <2>2, <2>3
<1>2. TasksGood'
  BY <1>1 DEF FinishAnnouncement, TasksGood, Good
<1>3. UNCHANGED <<selected, baseline, queue, cued, surface, quiet, unannounced>> /\ anim' = NoAnim
  BY DEF FinishAnnouncement
<1>4. QueueGood' /\ RestTyped'
  BY <1>3 DEF IInv, QueueGood, RestTyped, Anims
<1>5. (AnnouncedHoldHasOwner /\ HoldEventDone)'
  BY <1>1, <1>3, HoldsKept DEF IInv
<1>6. QED
  BY <1>2, <1>4, <1>5 DEF IInv

LEMMA RipenIInv ==
  ASSUME IInv, NEW k \in DOMAIN queue, Ripen(k)
  PROVE  IInv'
<1>1. UNCHANGED <<tasks, selected, baseline, cued, anim, surface, quiet, unannounced>>
  BY DEF Ripen
<1>2. /\ DOMAIN queue' = DOMAIN queue
      /\ \A i \in DOMAIN queue : queue'[i].slot = queue[i].slot /\ queue'[i].status = queue[i].status
  <2>1. \A i \in DOMAIN queue : queue[i] \in Events
    BY EventTyped DEF IInv
  <2>2. queue' = [queue EXCEPT ![k].ripe = TRUE]
    BY DEF Ripen
  <2>3. QED
    BY <2>1, <2>2 DEF Events
<1>3. QueueGood'
  <2>1. DOMAIN queue = 1..Len(queue) /\ Len(queue) \in Nat /\ queue \in Seq(Events)
    BY LenProperties DEF IInv, QueueGood
  <2>2. \A i \in DOMAIN queue : queue[i] \in Events
    BY EventTyped DEF IInv
  <2>3. queue' = [queue EXCEPT ![k].ripe = TRUE]
    BY DEF Ripen
  <2>4. queue' \in [1..Len(queue) -> Events]
    BY <2>1, <2>2, <2>3 DEF Events
  <2>5. queue' \in Seq(Events)
    BY <2>1, <2>4, IsASeq
  <2>6. Unique(queue)
    BY DEF IInv, QueueGood
  <2>7. QED
    BY <1>2, <2>5, <2>6 DEF QueueGood, Unique
<1>4. TasksGood' /\ RestTyped'
  BY <1>1 DEF IInv, TasksGood, RestTyped
<1>5. \A s \in Slots : s \in QueuedSlots => s \in QueuedSlots'
  BY <1>2, QueuedHere, QueuedNext
<1>6. AnnouncedHoldHasOwner'
  BY <1>1, <1>5 DEF IInv, AnnouncedHoldHasOwner, HoldOwner
<1>7. HoldEventDone'
  BY <1>1, <1>2 DEF IInv, HoldEventDone
<1>8. QED
  BY <1>3, <1>4, <1>6, <1>7 DEF IInv

\* The events that wait once one of them has started, and where they stand.
LEMMA StartedPlaces ==
  ASSUME IInv, NEW k \in DOMAIN queue, StartAnnouncement(k)
  PROVE  /\ DOMAIN queue = 1..Len(queue) /\ Len(queue) \in Nat /\ k \in 1..Len(queue)
         /\ DOMAIN queue' = 1..(Len(queue) - 1)
         /\ \A i \in DOMAIN queue' : queue'[i] = IF i < k THEN queue[i] ELSE queue[i + 1]
<1>1. queue \in Seq(Events) /\ queue' = RemoveAt(queue, k)
  BY DEF IInv, QueueGood, StartAnnouncement
<1>2. DOMAIN queue = 1..Len(queue) /\ Len(queue) \in Nat /\ k \in 1..Len(queue)
  BY <1>1, LenProperties
<1>3. DOMAIN queue' = 1..(Len(queue) - 1)
  BY <1>1, RemoveAtFacts, LenProperties
<1>4. \A i \in DOMAIN queue' : queue'[i] = IF i < k THEN queue[i] ELSE queue[i + 1]
  BY <1>1, <1>3, RemoveAtFacts
<1>5. QED
  BY <1>2, <1>3, <1>4

LEMMA StartedFrom ==
  ASSUME IInv, NEW k \in DOMAIN queue, StartAnnouncement(k)
  PROVE  \A i \in DOMAIN queue' : \E j \in DOMAIN queue : queue'[i] = queue[j]
<1> SUFFICES ASSUME NEW i \in DOMAIN queue' PROVE \E j \in DOMAIN queue : queue'[i] = queue[j]
  OBVIOUS
<1>1. i \in DOMAIN queue /\ i + 1 \in DOMAIN queue
  BY StartedPlaces
<1>2. QED
  BY <1>1, StartedPlaces

LEMMA StartAnnouncementIInv ==
  ASSUME IInv, NEW k \in DOMAIN queue, StartAnnouncement(k)
  PROVE  IInv'
<1>1. UNCHANGED <<tasks, selected, baseline, surface, quiet, unannounced>>
  BY DEF StartAnnouncement
<1>2. queue \in Seq(Events) /\ Unique(queue) /\ queue[k] \in Events /\ queue[k].slot \in Slots
  BY EventTyped DEF IInv, QueueGood
<1>3. queue' = RemoveAt(queue, k)
  BY DEF StartAnnouncement
<1>4. QueueGood'
  BY <1>2, <1>3, RemoveAtFacts, RemoveAtUnique DEF QueueGood
<1>5. anim'.slot = queue[k].slot /\ anim'.status = queue[k].status /\ anim' \in Anims
  BY <1>2 DEF StartAnnouncement, Anims, Events
<1>6. TasksGood' /\ RestTyped'
  <2>1. cued' = None
    BY DEF StartAnnouncement
  <2>2. QED
    BY <1>1, <1>5, <2>1 DEF IInv, TasksGood, RestTyped
<1>7. DOMAIN queue = 1..Len(queue) /\ Len(queue) \in Nat /\ k \in 1..Len(queue)
  BY StartedPlaces
<1>8. DOMAIN queue' = 1..(Len(queue) - 1)
  BY StartedPlaces
<1>9. \A i \in DOMAIN queue' : queue'[i] = IF i < k THEN queue[i] ELSE queue[i + 1]
  BY StartedPlaces
<1>10. \A i \in DOMAIN queue' : \E j \in DOMAIN queue : queue'[i] = queue[j]
  BY StartedFrom
<1>11. \A j \in DOMAIN queue : j # k => \E i \in DOMAIN queue' : queue'[i] = queue[j]
  <2> SUFFICES ASSUME NEW j \in DOMAIN queue, j # k
               PROVE  \E i \in DOMAIN queue' : queue'[i] = queue[j]
    OBVIOUS
  <2>1. CASE j < k
    <3>1. j \in DOMAIN queue'
      BY <1>7, <1>8, <2>1
    <3>2. QED
      BY <1>9, <2>1, <3>1
  <2>2. CASE ~(j < k)
    <3>1. j - 1 \in DOMAIN queue' /\ ~(j - 1 < k) /\ (j - 1) + 1 = j
      BY <1>7, <1>8, <2>2
    <3>2. queue'[j - 1] = queue[(j - 1) + 1]
      BY <1>9, <3>1
    <3>3. QED
      BY <3>1, <3>2
  <2>3. QED
    BY <2>1, <2>2
<1>12. HoldEventDone
  BY DEF IInv
<1>13. HoldEventDone'
  BY <1>1, <1>10, <1>12 DEF HoldEventDone
<1>14. AnnouncedHoldHasOwner'
  <2> SUFFICES ASSUME NEW s \in Slots, tasks[s].hold
               PROVE  HoldOwner(s)' \/ unannounced[s]
    BY <1>1 DEF AnnouncedHoldHasOwner
  <2>1. HoldOwner(s) \/ unannounced[s]
    BY DEF IInv, AnnouncedHoldHasOwner
  <2>2. CASE queue[k].slot = s
    BY <1>5, <1>12, <2>2 DEF HoldEventDone, HoldOwner
  <2>3. CASE s \in QueuedSlots /\ queue[k].slot # s
    <3>1. PICK j \in DOMAIN queue : queue[j].slot = s
      BY <2>3 DEF QueuedSlots
    <3>2. s \in QueuedSlots'
      BY <1>11, <2>3, <3>1, QueuedNext
    <3>3. QED
      BY <3>2 DEF HoldOwner
  <2>4. CASE anim.slot = s /\ queue[k].slot # s
    <3>1. anim # NoAnim
      BY <2>4, EventConstants DEF NoAnim
    <3>2. queue[k].slot = anim.slot
      BY <3>1 DEF StartAnnouncement, CanStart, Candidate
    <3>3. QED
      BY <2>4, <3>2
  <2>5. QED
    BY <2>1, <2>2, <2>3, <2>4 DEF HoldOwner
<1>15. QED
  BY <1>4, <1>6, <1>13, <1>14 DEF IInv

\* A step that queues the events of some slots.  A slot it leaves on hold has
\* the event of its completion among them, or is marked as unannounced, or was
\* on hold before and is not concerned.
LEMMA QueueStep ==
  ASSUME IInv, TasksGood', RestTyped', anim' = anim,
         NEW D \in SUBSET Slots, NEW news, NewsFor(news, D),
         NEW order \in SetToSeqs(D \ QueuedSlots),
         queue' = Requeued(news, order),
         \A s \in Slots : tasks'[s].hold =>
            \/ s \in D /\ news[s].status = "done"
            \/ unannounced'[s]
            \/ s \notin D /\ tasks[s].hold /\ unannounced'[s] = unannounced[s]
  PROVE  IInv'
<1> DEFINE r == Requeued(news, order)
<1>1. queue \in Seq(Events) /\ Unique(queue)
  BY DEF IInv, QueueGood
<1>2. IsFiniteSet(D \ QueuedSlots)
  BY EventConstants, FS_Subset
<1>3. Lists(order, D \ QueuedSlots)
  BY <1>2, OrderFacts
<1>4. r = Requeued(news, order) /\ queue' = r
  OBVIOUS
<1> HIDE DEF r
<1>5. Requeues(r, news, D)
  BY <1>1, <1>3, <1>4, RequeuedFacts
<1> USE DEF Requeues
<1>6. QueueGood'
  BY <1>4, <1>5 DEF QueueGood
<1>7. \A s \in D \cup QueuedSlots : s \in QueuedSlots'
  BY <1>4, <1>5, QueuedNext
<1>8. AnnouncedHoldHasOwner'
  <2> SUFFICES ASSUME NEW s \in Slots, tasks'[s].hold
               PROVE  HoldOwner(s)' \/ unannounced'[s]
    BY DEF AnnouncedHoldHasOwner
  <2>1. CASE s \in D
    BY <1>7, <2>1 DEF HoldOwner
  <2>2. CASE tasks[s].hold /\ unannounced'[s] = unannounced[s]
    BY <1>7, <2>2 DEF IInv, AnnouncedHoldHasOwner, HoldOwner
  <2>3. QED
    BY <2>1, <2>2
<1>9. HoldEventDone'
  <2> SUFFICES ASSUME NEW i \in DOMAIN r, tasks'[r[i].slot].hold
               PROVE  r[i].status = "done" \/ unannounced'[r[i].slot]
    BY <1>4 DEF HoldEventDone
  <2>1. QueueGood' /\ DOMAIN r = DOMAIN queue'
    BY <1>4, <1>6
  <2>2. r[i].slot \in Slots
    <3>1. r[i] \in Events
      BY <1>5, LenProperties, ElementOfSeq
    <3>2. QED
      BY <3>1 DEF Events
  <2>3. CASE r[i].slot \in D
    BY <1>5, <2>2, <2>3
  <2>4. CASE r[i].slot \notin D
    <3>1. PICK j \in DOMAIN queue : r[i] = queue[j]
      BY <1>5, <2>4
    <3>2. HoldEventDone
      BY DEF IInv
    <3>3. QED
      BY <2>2, <2>4, <3>1, <3>2 DEF HoldEventDone
  <2>5. QED
    BY <2>3, <2>4
<1>10. QED
  BY <1>6, <1>8, <1>9 DEF IInv

LEMMA EmptyOrder == <<>> \in SetToSeqs({})
<1>1. Cardinality({}) = 0
  BY FS_EmptySet
<1>2. <<>> \in [1..0 -> {}] /\ \A i, j \in 1..0 : i # j => <<>>[i] # <<>>[j]
  OBVIOUS
<1>3. SetToSeqs({}) = {f \in [1..0 -> {}] : \A i, j \in 1..0 : i # j => f[i] # f[j]}
  BY <1>1, Zenon DEF SetToSeqs
<1>4. QED
  BY <1>2, <1>3

LEMMA SingleOrder == ASSUME NEW x PROVE <<x>> \in SetToSeqs({x})
<1>1. Cardinality({x}) = 1
  BY FS_Singleton
<1>2. <<x>> \in [1..1 -> {x}] /\ \A i, j \in 1..1 : i # j => <<x>>[i] # <<x>>[j]
  OBVIOUS
<1>3. SetToSeqs({x}) = {f \in [1..1 -> {x}] : \A i, j \in 1..1 : i # j => f[i] # f[j]}
  BY <1>1, Zenon DEF SetToSeqs
<1>4. QED
  BY <1>2, <1>3

\* A preview queues one event, that of the selected slot.
LEMMA PreviewEvent ==
  ASSUME IInv, NEW status \in Statuses, NEW token \in Tokens, PreviewStatus(status, token),
         NEW news, news = [s \in {selected} |-> NewEvent(s, status, token, TRUE)]
  PROVE  /\ NewsFor(news, {selected})
         /\ \E order \in SetToSeqs({selected} \ QueuedSlots) : queue' = Requeued(news, order)
<1> DEFINE order == IF selected \in QueuedSlots THEN <<>> ELSE <<selected>>
<1>1. selected \in Slots
  BY DEF IInv, RestTyped
<1>2. NewsFor(news, {selected})
  <2>1. NewEvent(selected, status, token, TRUE) \in Events
    BY <1>1, EventConstants DEF NewEvent, Events
  <2>2. QED
    BY <2>1 DEF NewEvent, NewsFor
<1>3. order \in SetToSeqs({selected} \ QueuedSlots)
  <2>1. CASE selected \in QueuedSlots
    <3>1. {selected} \ QueuedSlots = {} /\ order = <<>>
      BY <2>1
    <3>2. QED
      BY <3>1, EmptyOrder
  <2>2. CASE selected \notin QueuedSlots
    <3>1. {selected} \ QueuedSlots = {selected} /\ order = <<selected>>
      BY <2>2
    <3>2. QED
      BY <3>1, SingleOrder
  <2>3. QED
    BY <2>1, <2>2
<1>4. queue' = Requeued(news, order)
  BY DEF PreviewStatus
<1> HIDE DEF order
<1>5. QED
  BY <1>2, <1>3, <1>4

LEMMA PreviewStatusIInv ==
  ASSUME IInv, NEW status \in Statuses, NEW token \in Tokens, PreviewStatus(status, token)
  PROVE  IInv'
<1> DEFINE news == [s \in {selected} |-> NewEvent(s, status, token, TRUE)]
<1>1. UNCHANGED <<tasks, selected, baseline, anim, surface, quiet>>
  BY DEF PreviewStatus
<1>2. selected \in Slots
  BY DEF IInv, RestTyped
<1>3. NewsFor(news, {selected})
  BY PreviewEvent
<1>4. PICK order \in SetToSeqs({selected} \ QueuedSlots) : queue' = Requeued(news, order)
  BY PreviewEvent
<1>6. unannounced' = [unannounced EXCEPT ![selected] = TRUE]
  BY DEF PreviewStatus
<1>7. cued' \in Slots \cup {None}
  BY DEF PreviewStatus, CuedAfter, IInv, RestTyped
<1>8. unannounced' \in [Slots -> BOOLEAN]
  BY <1>6 DEF IInv, RestTyped
<1>9. TasksGood' /\ RestTyped'
  BY <1>1, <1>7, <1>8 DEF IInv, TasksGood, RestTyped
<1>10. \A s \in Slots : tasks'[s].hold =>
         \/ unannounced'[s]
         \/ s \notin {selected} /\ tasks[s].hold /\ unannounced'[s] = unannounced[s]
  BY <1>1, <1>6 DEF IInv, RestTyped
<1> HIDE DEF news
<1>11. QED
  <2>1. {selected} \in SUBSET Slots
    BY <1>2
  <2>2. QED
    BY <1>1, <1>3, <1>4, <1>9, <1>10, <2>1, QueueStep

\* What a frame makes of one task: a hold it leaves is that of a completion it
\* announces, of one it marks as unannounced, or an old one it does not touch.
LEMMA TaskFrameTask ==
  ASSUME IInv, NEW frame \in Frames, NEW target, NEW order, NEW tokens,
         TaskFrame(frame, target, order, tokens), NEW s \in Slots
  PROVE  /\ Good(tasks'[s])
         /\ tasks'[s].hold =>
              \/ s \in NewsOf(frame) /\ StatusAfter(tasks[s], frame[s]) = "done"
              \/ unannounced'[s]
              \/ s \notin NewsOf(frame) /\ tasks[s].hold /\ unannounced'[s] = unannounced[s]
<1> DEFINE t == tasks[s]
           u == IF s \in DOMAIN frame THEN Reduced(t, frame[s]) ELSE t
<1>1. t \in TaskRecords /\ Good(t)
  BY DEF IInv, TasksGood, Good
<1>2. s \in DOMAIN frame => frame[s] \in AllLamps
  BY FrameType
<1>3. tasks'[s] = IF s \in ViewedIn(frame, target) THEN MarkViewed(u) ELSE u
  BY DEF TaskFrame
<1>4. unannounced'[s] = IF s \in NewsOf(frame) THEN FALSE
                        ELSE IF s \in SilentIn(frame) THEN ~Initial(t) ELSE unannounced[s]
  BY DEF TaskFrame
<1>5. s \in NewsOf(frame) \cup SilentIn(frame) => s \in DOMAIN frame
  BY DEF NewsOf, SilentIn
<1>6. s \in DOMAIN frame /\ s \notin NewsOf(frame) \cup SilentIn(frame) => StatusAfter(t, frame[s]) = t.status
  BY DEF SilentIn
<1>7. CASE s \in DOMAIN frame
  <2>1. /\ Good(Reduced(t, frame[s]))
        /\ Reduced(t, frame[s]).hold => StatusAfter(t, frame[s]) = "done" /\ HoldAfter(t)
    BY <1>1, <1>2, <1>7, ReducedGood
  <2>2. u = Reduced(t, frame[s])
    BY <1>7
  <2> HIDE DEF u, t
  <2>3. Good(u) /\ (u.hold => StatusAfter(t, frame[s]) = "done" /\ HoldAfter(t))
    BY <2>1, <2>2
  <2>4. Good(tasks'[s]) /\ tasks'[s].hold = u.hold
    BY <1>3, <2>3, MarkViewedGood
  <2>5. HoldAfter(t) => ~Initial(t) /\ (t.hold \/ t.status # "done")
    BY Zenon DEF HoldAfter, FreshNow
  <2>6. ASSUME tasks'[s].hold, s \notin NewsOf(frame)
        PROVE  unannounced'[s] \/ (t.hold /\ unannounced'[s] = unannounced[s])
    <3>1. StatusAfter(t, frame[s]) = "done" /\ HoldAfter(t)
      BY <2>3, <2>4, <2>6
    <3>2. CASE s \in SilentIn(frame)
      <4>1. ~Initial(t)
        BY <2>5, <3>1, Zenon
      <4>2. unannounced'[s] = ~Initial(t)
        BY <1>4, <2>6, <3>2, Zenon
      <4>3. QED
        BY <4>1, <4>2, Zenon
    <3>3. CASE s \notin SilentIn(frame)
      <4>1. t.status = "done"
        BY <1>6, <1>7, <2>6, <3>1, <3>3
      <4>2. t.hold
        BY <2>5, <3>1, <4>1
      <4>3. QED
        BY <1>4, <2>6, <3>3, <4>2
    <3>4. QED
      BY <3>2, <3>3
  <2>7. t = tasks[s]
    BY DEF t
  <2>8. QED
    BY <2>3, <2>4, <2>6, <2>7
<1>8. CASE s \notin DOMAIN frame
  <2>1. u = t
    BY <1>8
  <2>2. Good(tasks'[s]) /\ tasks'[s].hold = t.hold
    BY <1>1, <1>3, <2>1, MarkViewedGood
  <2>3. s \notin NewsOf(frame) /\ s \notin SilentIn(frame)
    BY <1>5, <1>8
  <2>4. QED
    BY <1>4, <2>2, <2>3
<1>9. QED
  BY <1>7, <1>8

\* The events that a frame raises, by slot.
FrameNewsOf(frame, tokens) ==
  [s \in NewsOf(frame) |-> NewEvent(s, StatusAfter(tasks[s], frame[s]), tokens[s], FALSE)]

LEMMA FrameNews ==
  ASSUME IInv, NEW frame \in Frames, NEW tokens \in [NewsOf(frame) -> Tokens]
  PROVE  /\ NewsOf(frame) \in SUBSET Slots
         /\ NewsFor(FrameNewsOf(frame, tokens), NewsOf(frame))
<1>1. NewsOf(frame) \in SUBSET Slots /\ \A s \in NewsOf(frame) : frame[s] \in AllLamps
  BY FrameType DEF NewsOf
<1>2. ASSUME NEW s \in NewsOf(frame)
      PROVE  /\ FrameNewsOf(frame, tokens)[s] \in Events
             /\ FrameNewsOf(frame, tokens)[s].slot = s
  <2>1. tasks[s] \in TaskRecords /\ s \in Slots /\ frame[s] \in AllLamps
    BY <1>1 DEF IInv, TasksGood
  <2>2. StatusAfter(tasks[s], frame[s]) \in Statuses
    BY <2>1 DEF StatusAfter, Semantic, StatusOf, Statuses, TaskRecords
  <2>3. tokens[s] \in {"some", "zero"}
    BY EventConstants
  <2>4. FrameNewsOf(frame, tokens)[s] = NewEvent(s, StatusAfter(tasks[s], frame[s]), tokens[s], FALSE)
    BY DEF FrameNewsOf
  <2>5. QED
    BY <2>1, <2>2, <2>3, <2>4 DEF NewEvent, Events
<1>3. QED
  BY <1>1, <1>2 DEF NewsFor, FrameNewsOf

LEMMA TaskFrameIInv ==
  ASSUME IInv, NEW frame \in Frames, NEW target \in Inferable(frame),
         NEW order \in SetToSeqs(NewsOf(frame) \ QueuedSlots),
         NEW tokens \in [NewsOf(frame) -> Tokens], TaskFrame(frame, target, order, tokens)
  PROVE  IInv'
<1> DEFINE D == NewsOf(frame)
           news == FrameNewsOf(frame, tokens)
<1>1. D \in SUBSET Slots
  BY FrameNews
<1>2. target \in Slots \cup {None}
  BY DEF Inferable
<1>3. NewsFor(news, D)
  BY FrameNews
<1>4. queue' = Requeued(news, order) /\ UNCHANGED <<baseline, anim, surface, quiet>>
  BY DEF TaskFrame, FrameNewsOf
<1>5. \A s \in Slots : Good(tasks'[s])
  BY TaskFrameTask
<1>6. TasksGood'
  BY <1>5 DEF TaskFrame, TasksGood, Good
<1>7. unannounced' \in [Slots -> BOOLEAN]
  <2>1. \A s \in Slots : unannounced[s] \in BOOLEAN
    BY DEF IInv, RestTyped
  <2>2. \A s \in Slots : Initial(tasks[s]) \in BOOLEAN
    BY Zenon DEF Initial
  <2>3. unannounced' = [s \in Slots |->
          IF s \in NewsOf(frame) THEN FALSE
          ELSE IF s \in SilentIn(frame) THEN ~Initial(tasks[s]) ELSE unannounced[s]]
    BY DEF TaskFrame
  <2>4. QED
    BY <2>1, <2>2, <2>3, Zenon
<1>8. RestTyped'
  <2>1. selected' \in Slots /\ cued' \in Slots \cup {None}
    BY <1>2 DEF TaskFrame, CuedAfter, IInv, RestTyped
  <2>2. QED
    BY <1>4, <1>7, <2>1 DEF IInv, RestTyped
<1>9. \A s \in Slots : tasks'[s].hold =>
        \/ s \in D /\ news[s].status = "done"
        \/ unannounced'[s]
        \/ s \notin D /\ tasks[s].hold /\ unannounced'[s] = unannounced[s]
  <2> SUFFICES ASSUME NEW s \in Slots, tasks'[s].hold
               PROVE  \/ s \in D /\ news[s].status = "done"
                      \/ unannounced'[s]
                      \/ s \notin D /\ tasks[s].hold /\ unannounced'[s] = unannounced[s]
    OBVIOUS
  <2>1. s \in D => news[s].status = StatusAfter(tasks[s], frame[s])
    BY DEF FrameNewsOf, NewEvent
  <2> HIDE DEF news
  <2>2. QED
    BY <2>1, TaskFrameTask
<1> HIDE DEF news, D
<1>10. order \in SetToSeqs(D \ QueuedSlots)
  BY DEF D
<1>11. QED
  BY <1>1, <1>3, <1>4, <1>6, <1>8, <1>9, <1>10, QueueStep

-----------------------------------------------------------------------------
(* The invariant and the theorems.                                         *)

LEMMA NextIInv == IInv /\ [Next]_vars => IInv'
<1> SUFFICES ASSUME IInv, [Next]_vars PROVE IInv'
  OBVIOUS
<1>1. CASE Host
  <2>1. ASSUME NEW frame \in Frames, AllOffFrame(frame) PROVE IInv'
    BY <2>1, AllOffFrameIInv
  <2>2. ASSUME NEW frame \in Frames, PickerFrame(frame) PROVE IInv'
    <3>1. UNCHANGED <<tasks, selected, baseline, queue, cued, anim, quiet, unannounced>>
      BY <2>2 DEF PickerFrame
    <3>2. surface' \in {"deck", "elsewhere", "composer"}
      BY <2>2 DEF PickerFrame, Closed, IInv, RestTyped
    <3>3. RestTyped'
      BY <3>1, <3>2 DEF IInv, RestTyped
    <3>4. QED
      BY <3>1, <3>3, IdleStep
  <2>3. ASSUME NEW frame \in Frames, NEW target \in Inferable(frame),
               NEW order \in SetToSeqs(NewsOf(frame) \ QueuedSlots),
               NEW tokens \in [NewsOf(frame) -> Tokens],
               TaskFrame(frame, target, order, tokens)
        PROVE  IInv'
    BY <2>3, TaskFrameIInv
  <2>4. CASE ResetPresentation
    BY <2>4, ResetPresentationIInv
  <2>5. CASE HandshakeComplete
    BY <2>5, IdleStep DEF HandshakeComplete, IInv, RestTyped
  <2>6. QED
    BY <1>1, <2>1, <2>2, <2>3, <2>4, <2>5 DEF Host
<1>2. CASE User
  <2>1. ASSUME NEW s \in Slots, SelectSlot(s) PROVE IInv'
    BY <2>1, IdleStep DEF SelectSlot, IInv, RestTyped
  <2>2. CASE ChangeSurface
    BY <2>2, IdleStep DEF ChangeSurface, IInv, RestTyped
  <2>3. ASSUME NEW status \in Previews, NEW token \in Tokens, PreviewStatus(status, token)
        PROVE  IInv'
    <3>1. status \in Statuses
      BY EventConstants
    <3>2. QED
      BY <2>3, <3>1, PreviewStatusIInv
  <2>4. QED
    BY <1>2, <2>1, <2>2, <2>3 DEF User
<1>3. CASE GoQuiet
  BY <1>3, IdleStep DEF GoQuiet, IInv, RestTyped
<1>4. CASE Debounce
  BY <1>4, RipenIInv DEF Debounce
<1>5. ASSUME NEW i \in DOMAIN queue, PrepareScore(i) PROVE IInv'
  <2>1. queue[i].slot \in Slots
    BY EventTyped DEF IInv
  <2>2. QED
    BY <1>5, <2>1, IdleStep DEF PrepareScore, IInv, RestTyped
<1>6. CASE Player
  <2>1. ASSUME NEW i \in DOMAIN queue, StartAnnouncement(i) PROVE IInv'
    BY <2>1, StartAnnouncementIInv
  <2>2. QED
    BY <1>6, <2>1, FinishAnnouncementIInv, SettleFrameIInv DEF Player
<1>7. CASE UNCHANGED vars
  BY <1>7, IdleStep DEF vars, IInv, RestTyped
<1>8. QED
  BY <1>1, <1>2, <1>3, <1>4, <1>5, <1>6, <1>7 DEF Next, Worker

LEMMA Invariance == Spec => []IInv
<1>1. QED
  BY InitIInv, NextIInv, PTL DEF Spec

\* Every variable keeps its type and the queue never outgrows the deck.
THEOREM TypeCorrect == Spec => []TypeOK
<1>1. IInv => TypeOK
  <2> SUFFICES ASSUME IInv PROVE TypeOK
    OBVIOUS
  <2>1. queue \in Seq(Events) /\ Len(queue) <= Cardinality(Slots)
    BY UniqueBound DEF IInv, QueueGood
  <2>2. QED
    BY <2>1 DEF IInv, TasksGood, RestTyped, TypeOK
<1>2. QED
  BY <1>1, Invariance, PTL

\* One slot owns at most one pending event (queue_announcement(), take_for_slot()
\* and take_next() of model.h), so the array of six never overflows and the
\* append guard of queue_announcement() never drops an event.
THEOREM OnePerSlotCorrect == Spec => []OnePerSlot
<1>1. IInv => OnePerSlot
  BY UniqueBound DEF IInv, QueueGood, Unique, OnePerSlot
<1>2. QED
  BY <1>1, Invariance, PTL

\* The read state that the reducer, the view marking, the finaliser and the
\* settling of the UI leave agrees with the lamp.
THEOREM UnreadCorrect == Spec => []UnreadFollowsLamp
<1>1. IInv => UnreadFollowsLamp
  BY DEF IInv, TasksGood, Consistent, UnreadFollowsLamp
<1>2. QED
  BY <1>1, Invariance, PTL

\* A completion that was announced stays on hold no longer than its event or
\* its animation: the player, however often the event is replaced, is what ends
\* the hold that status_reducer::apply() began.
THEOREM HoldOwnerCorrect == Spec => []AnnouncedHoldHasOwner
<1>1. IInv => AnnouncedHoldHasOwner
  BY DEF IInv
<1>2. QED
  BY <1>1, Invariance, PTL
-----------------------------------------------------------------------------
(* What is announced is current.                                           *)

\* Only changes of a slot that this session has shown before are announced: an
\* event or an animation that is no preview is of such a slot.
Restored ==
  /\ \A i \in DOMAIN queue :
       queue[i].preview \/ (~baseline /\ tasks[queue[i].slot].seen)
  /\ anim # NoAnim => anim.preview \/ (~baseline /\ tasks[anim.slot].seen)

NewsInv == IInv /\ AnnouncedNewsIsCurrent /\ Restored

\* A status that waits or is shown for a slot that a step leaves without news
\* stays current: the status of the slot stays, or its change is marked.
StatusKept(s) ==
  /\ tasks[s].seen => tasks'[s].seen
  /\ ~baseline /\ tasks[s].seen =>
       \/ unannounced'[s]
       \/ tasks'[s].status = tasks[s].status /\ (unannounced[s] => unannounced'[s])

\* Steps that leave the queue and the panel as they are.
LEMMA NewsSame ==
  ASSUME NewsInv, UNCHANGED <<queue, anim>>, baseline' => baseline,
         \A s \in Slots : StatusKept(s)
  PROVE  (AnnouncedNewsIsCurrent /\ Restored)'
<1>0. AnnouncedNewsIsCurrent /\ Restored /\ anim \in Anims
  BY DEF NewsInv, IInv, RestTyped
<1>1. \A i \in DOMAIN queue : queue[i].slot \in Slots
  BY EventTyped DEF NewsInv, IInv
<1>2. anim # NoAnim => anim.slot \in Slots
  BY <1>0 DEF Anims
<1>3. QueuedSlots' = QueuedSlots
  BY DEF QueuedSlots
<1>4. AnnouncedNewsIsCurrent'
  BY <1>0, <1>1, <1>2, <1>3 DEF AnnouncedNewsIsCurrent, Restored, StatusKept
<1>5. Restored'
  BY <1>0, <1>1, <1>2 DEF Restored, StatusKept
<1>6. QED
  BY <1>4, <1>5

\* A step that queues the events of some slots: they are previews, or the status
\* that the slot has after it.
LEMMA NewsQueued ==
  ASSUME NewsInv, anim' = anim, baseline' = baseline,
         NEW D \in SUBSET Slots, NEW news, Requeues(queue', news, D),
         \A s \in D : \/ news[s].preview
                      \/ ~baseline /\ tasks'[s].seen /\ news[s].status = tasks'[s].status,
         \A s \in Slots : (tasks[s].seen => tasks'[s].seen) /\ (s \notin D => StatusKept(s))
  PROVE  (AnnouncedNewsIsCurrent /\ Restored)'
<1>0. AnnouncedNewsIsCurrent /\ Restored /\ anim \in Anims
  BY DEF NewsInv, IInv, RestTyped
<1>1. \A i \in DOMAIN queue : queue[i].slot \in Slots
  BY EventTyped DEF NewsInv, IInv
<1>2. anim # NoAnim => anim.slot \in Slots
  BY <1>0 DEF Anims
<1>3. ASSUME NEW i \in DOMAIN queue'
      PROVE  LET e == queue'[i]
             IN /\ e.preview \/ unannounced'[e.slot] \/ e.status = tasks'[e.slot].status
                /\ e.preview \/ (~baseline' /\ tasks'[e.slot].seen)
  <2> DEFINE e == queue'[i]
  <2>1. CASE e.slot \in D
    <3>1. e = news[e.slot]
      BY <2>1 DEF Requeues
    <3>2. QED
      BY <2>1, <3>1
  <2>2. CASE e.slot \notin D
    <3>1. PICK j \in DOMAIN queue : e = queue[j]
      BY <2>2 DEF Requeues
    <3>2. e.slot \in Slots /\ StatusKept(e.slot)
      BY <1>1, <2>2, <3>1
    <3>3. /\ e.preview \/ unannounced[e.slot] \/ e.status = tasks[e.slot].status
          /\ e.preview \/ (~baseline /\ tasks[e.slot].seen)
      BY <1>0, <3>1 DEF AnnouncedNewsIsCurrent, Restored
    <3> HIDE DEF e
    <3>4. baseline' = baseline
      OBVIOUS
    <3>5. /\ e.preview \/ unannounced'[e.slot] \/ e.status = tasks'[e.slot].status
          /\ e.preview \/ (~baseline' /\ tasks'[e.slot].seen)
      <4>1. CASE e.preview
        BY <4>1, Zenon
      <4>2. CASE ~e.preview
        <5>1. ~baseline /\ tasks[e.slot].seen /\ ~baseline'
          <6>1. ~baseline /\ tasks[e.slot].seen
            BY <3>3, <4>2
          <6>2. QED
            BY <3>4, <6>1
        <5>2. tasks'[e.slot].seen
          BY <3>2, <5>1, Zenon DEF StatusKept
        <5>3. unannounced'[e.slot] \/ e.status = tasks'[e.slot].status
          <6>1. \/ unannounced'[e.slot]
                \/ /\ tasks'[e.slot].status = tasks[e.slot].status
                   /\ unannounced[e.slot] => unannounced'[e.slot]
            BY <3>2, <5>1, Zenon DEF StatusKept
          <6>2. unannounced[e.slot] \/ e.status = tasks[e.slot].status
            BY <3>3, <4>2, Zenon
          <6>3. QED
            BY <6>1, <6>2, Zenon
        <5>4. QED
          BY <5>1, <5>2, <5>3, Zenon
      <4>3. QED
        BY <4>1, <4>2, Zenon
    <3>6. QED
      BY <3>5 DEF e
  <2>3. QED
    BY <2>1, <2>2
<1>4. \A s \in D \cup QueuedSlots : s \in QueuedSlots'
  BY QueuedNext DEF Requeues
<1>5. ASSUME anim # NoAnim, ~anim.preview, anim.slot \notin QueuedSlots'
      PROVE  unannounced'[anim.slot] \/ anim.status = tasks'[anim.slot].status
  <2>1. anim.slot \notin D /\ anim.slot \notin QueuedSlots
    BY <1>4, <1>5
  <2>2. unannounced[anim.slot] \/ anim.status = tasks[anim.slot].status
    BY <1>0, <1>5, <2>1 DEF AnnouncedNewsIsCurrent
  <2>3. ~baseline /\ tasks[anim.slot].seen /\ StatusKept(anim.slot)
    BY <1>0, <1>2, <1>5, <2>1 DEF Restored
  <2>4. QED
    BY <2>2, <2>3 DEF StatusKept
<1>6. AnnouncedNewsIsCurrent'
  BY <1>3, <1>5 DEF AnnouncedNewsIsCurrent
<1>7. Restored'
  BY <1>0, <1>2, <1>3 DEF Restored
<1>8. QED
  BY <1>6, <1>7

\* queue_announcement() for the events of a frame or a preview.
LEMMA RequeuedStep ==
  ASSUME IInv, NEW D \in SUBSET Slots, NEW news, NewsFor(news, D),
         NEW order \in SetToSeqs(D \ QueuedSlots), queue' = Requeued(news, order)
  PROVE  Requeues(queue', news, D)
<1> DEFINE r == Requeued(news, order)
<1>1. queue \in Seq(Events) /\ Unique(queue)
  BY DEF IInv, QueueGood
<1>2. IsFiniteSet(D \ QueuedSlots)
  BY EventConstants, FS_Subset
<1>3. Lists(order, D \ QueuedSlots)
  BY <1>2, OrderFacts
<1>4. r = Requeued(news, order) /\ queue' = r
  OBVIOUS
<1> HIDE DEF r
<1>5. QED
  BY <1>1, <1>3, <1>4, RequeuedFacts

LEMMA PreviewRequeues ==
  ASSUME IInv, NEW status \in Statuses, NEW token \in Tokens, PreviewStatus(status, token),
         NEW news, news = [s \in {selected} |-> NewEvent(s, status, token, TRUE)]
  PROVE  Requeues(queue', news, {selected})
<1>1. {selected} \in SUBSET Slots
  BY DEF IInv, RestTyped
<1>2. NewsFor(news, {selected})
  BY PreviewEvent
<1>3. PICK order \in SetToSeqs({selected} \ QueuedSlots) : queue' = Requeued(news, order)
  BY PreviewEvent
<1>4. QED
  BY <1>1, <1>2, <1>3, RequeuedStep

\* What a frame makes of the status of a task.
LEMMA FrameStatus ==
  ASSUME IInv, NEW frame \in Frames, NEW target, NEW order, NEW tokens,
         TaskFrame(frame, target, order, tokens), NEW s \in Slots
  PROVE  /\ tasks[s].seen => tasks'[s].seen
         /\ s \notin NewsOf(frame) => StatusKept(s)
         /\ s \in NewsOf(frame) => /\ ~baseline /\ tasks'[s].seen
                                   /\ tasks'[s].status = StatusAfter(tasks[s], frame[s])
<1> DEFINE t == tasks[s]
           u == IF s \in DOMAIN frame THEN Reduced(t, frame[s]) ELSE t
<1>1. t \in TaskRecords
  BY DEF IInv, TasksGood
<1>2. tasks'[s] = IF s \in ViewedIn(frame, target) THEN MarkViewed(u) ELSE u
  BY DEF TaskFrame
<1>3. unannounced'[s] = IF s \in NewsOf(frame) THEN FALSE
                        ELSE IF s \in SilentIn(frame) THEN ~Initial(t) ELSE unannounced[s]
  BY DEF TaskFrame
<1>4. s \in DOMAIN frame => frame[s] \in AllLamps
  BY FrameType
<1>5. s \in DOMAIN frame => /\ u \in TaskRecords /\ u.seen
                            /\ u.status = StatusAfter(t, frame[s])
  <2>1. s \in DOMAIN frame => Reduced(t, frame[s]).seen
    BY DEF Reduced
  <2>2. QED
    BY <1>1, <1>4, <2>1, ReducedGood DEF Good
<1>6. s \notin DOMAIN frame => u = t
  OBVIOUS
<1>7. u \in TaskRecords
  BY <1>1, <1>5, <1>6
<1> HIDE DEF u
<1>8. tasks'[s].status = u.status /\ tasks'[s].seen = u.seen
  BY <1>2, <1>7 DEF MarkViewed, TaskRecords
<1>9. CASE s \in NewsOf(frame)
  <2>1. s \in DOMAIN frame /\ ~baseline
    BY <1>9 DEF NewsOf, Changed, Initial
  <2>2. QED
    BY <1>5, <1>8, <1>9, <2>1
<1>10. CASE s \notin NewsOf(frame)
  <2>1. t.seen => tasks'[s].seen
    BY <1>5, <1>6, <1>8
  <2>2. CASE s \in SilentIn(frame)
    <3>1. unannounced'[s] = ~Initial(t)
      BY <1>3, <1>10, <2>2, Zenon
    <3>2. ~baseline /\ t.seen => unannounced'[s]
      BY <3>1, Zenon DEF Initial
    <3>3. QED
      BY <1>10, <2>1, <3>2 DEF StatusKept
  <2>3. CASE s \notin SilentIn(frame)
    <3>1. unannounced'[s] = unannounced[s]
      BY <1>3, <1>10, <2>3
    <3>2. u.status = t.status
      <4>1. s \in DOMAIN frame => StatusAfter(t, frame[s]) = t.status
        BY <1>10, <2>3 DEF SilentIn
      <4>2. QED
        BY <1>5, <1>6, <4>1
    <3>3. QED
      BY <1>8, <1>10, <2>1, <3>1, <3>2 DEF StatusKept
  <2>4. QED
    BY <2>2, <2>3
<1>11. QED
  BY <1>9, <1>10

LEMMA FrameNewsCurrent ==
  ASSUME NewsInv, NEW frame \in Frames, NEW target \in Inferable(frame),
         NEW order \in SetToSeqs(NewsOf(frame) \ QueuedSlots),
         NEW tokens \in [NewsOf(frame) -> Tokens], TaskFrame(frame, target, order, tokens)
  PROVE  (AnnouncedNewsIsCurrent /\ Restored)'
<1> DEFINE D == NewsOf(frame)
           news == FrameNewsOf(frame, tokens)
<1>0. IInv
  BY DEF NewsInv
<1>1. D \in SUBSET Slots /\ NewsFor(news, D)
  BY <1>0, FrameNews
<1>2. queue' = Requeued(news, order) /\ baseline' = baseline /\ anim' = anim
  BY DEF TaskFrame, FrameNewsOf
<1>3. Requeues(queue', news, D)
  <2> HIDE DEF news
  <2>1. QED
    BY <1>0, <1>1, <1>2, RequeuedStep
<1>4. \A s \in Slots : (tasks[s].seen => tasks'[s].seen) /\ (s \notin D => StatusKept(s))
  BY <1>0, FrameStatus
<1>5. ASSUME NEW s \in D
      PROVE  ~baseline /\ tasks'[s].seen /\ news[s].status = tasks'[s].status
  <2>1. s \in Slots
    BY <1>1
  <2>2. ~baseline /\ tasks'[s].seen /\ tasks'[s].status = StatusAfter(tasks[s], frame[s])
    BY <1>0, <2>1, FrameStatus
  <2>3. news[s].status = StatusAfter(tasks[s], frame[s])
    BY DEF FrameNewsOf, NewEvent
  <2>4. QED
    BY <2>2, <2>3
<1> HIDE DEF D, news
<1>6. QED
  BY <1>1, <1>2, <1>3, <1>4, <1>5, NewsQueued
\* A step that leaves what the session knows of the tasks.
LEMMA StatusSame ==
  ASSUME UNCHANGED unannounced,
         \A s \in Slots : tasks'[s].status = tasks[s].status /\ tasks'[s].seen = tasks[s].seen
  PROVE  \A s \in Slots : StatusKept(s)
  BY DEF StatusKept

LEMMA StartNewsCurrent ==
  ASSUME NewsInv, NEW k \in DOMAIN queue, StartAnnouncement(k)
  PROVE  (AnnouncedNewsIsCurrent /\ Restored)'
<1>0. AnnouncedNewsIsCurrent /\ Restored /\ IInv
  BY DEF NewsInv
<1>1. UNCHANGED <<tasks, baseline, unannounced>>
  BY DEF StartAnnouncement
<1>2. \A i \in DOMAIN queue' : \E j \in DOMAIN queue : queue'[i] = queue[j]
  BY <1>0, StartedFrom
<1>3. /\ anim'.slot = queue[k].slot /\ anim'.status = queue[k].status
      /\ anim'.preview = queue[k].preview
  BY DEF StartAnnouncement
<1>4. \/ queue[k].preview
      \/ /\ ~baseline /\ tasks[queue[k].slot].seen
         /\ unannounced[queue[k].slot] \/ queue[k].status = tasks[queue[k].slot].status
  BY <1>0 DEF AnnouncedNewsIsCurrent, Restored
<1>5. AnnouncedNewsIsCurrent'
  BY <1>0, <1>1, <1>2, <1>3, <1>4 DEF AnnouncedNewsIsCurrent
<1>6. Restored'
  BY <1>0, <1>1, <1>2, <1>3, <1>4 DEF Restored
<1>7. QED
  BY <1>5, <1>6

LEMMA PreviewNewsCurrent ==
  ASSUME NewsInv, NEW status \in Statuses, NEW token \in Tokens, PreviewStatus(status, token)
  PROVE  (AnnouncedNewsIsCurrent /\ Restored)'
<1> DEFINE news == [s \in {selected} |-> NewEvent(s, status, token, TRUE)]
<1>0. IInv
  BY DEF NewsInv
<1>1. /\ UNCHANGED <<tasks, baseline, anim>> /\ selected \in Slots
      /\ unannounced' = [unannounced EXCEPT ![selected] = TRUE]
      /\ unannounced \in [Slots -> BOOLEAN]
  BY <1>0 DEF PreviewStatus, IInv, RestTyped
<1>2. Requeues(queue', news, {selected})
  BY <1>0, PreviewRequeues
<1>3. \A s \in {selected} : news[s].preview
  BY DEF NewEvent
<1>4. ASSUME NEW s \in Slots, s # selected PROVE StatusKept(s)
  <2>1. unannounced'[s] = unannounced[s] /\ tasks'[s] = tasks[s]
    BY <1>1, <1>4
  <2>2. QED
    BY <2>1 DEF StatusKept
<1> HIDE DEF news
<1>5. QED
  <2>1. {selected} \in SUBSET Slots
    BY <1>1
  <2>2. \A s \in Slots : (tasks[s].seen => tasks'[s].seen) /\ (s \notin {selected} => StatusKept(s))
    BY <1>1, <1>4
  <2>3. QED
    BY <1>1, <1>2, <1>3, <2>1, <2>2, NewsQueued

\* What is announced stays current in every step.
LEMMA NextNews == NewsInv /\ [Next]_vars => NewsInv'
<1> SUFFICES ASSUME NewsInv, [Next]_vars PROVE (AnnouncedNewsIsCurrent /\ Restored)'
  BY NextIInv DEF NewsInv
<1>0. IInv /\ tasks \in [Slots -> TaskRecords]
  BY DEF NewsInv, IInv, TasksGood
<1>1. ASSUME UNCHANGED <<queue, anim, baseline, unannounced>>,
             \A s \in Slots : tasks'[s].status = tasks[s].status /\ tasks'[s].seen = tasks[s].seen
      PROVE  (AnnouncedNewsIsCurrent /\ Restored)'
  BY <1>1, StatusSame, NewsSame
<1>2. ASSUME UNCHANGED <<tasks, queue, anim, unannounced>>, baseline' => baseline
      PROVE  (AnnouncedNewsIsCurrent /\ Restored)'
  BY <1>2, StatusSame, NewsSame
<1>3. CASE Host
  <2>1. ASSUME NEW frame \in Frames, AllOffFrame(frame)
        PROVE  (AnnouncedNewsIsCurrent /\ Restored)'
    <3>1. ASSUME NEW s \in Slots
          PROVE  tasks'[s].status = tasks[s].status /\ tasks'[s].seen = tasks[s].seen
      <4>1. tasks'[s] = [tasks[s] EXCEPT !.interrupted = TRUE] /\ tasks[s] \in TaskRecords
        BY <1>0, <2>1 DEF AllOffFrame
      <4>2. QED
        BY <4>1 DEF TaskRecords
    <3>2. UNCHANGED <<queue, anim, baseline, unannounced>>
      BY <2>1 DEF AllOffFrame
    <3>3. QED
      BY <1>1, <3>1, <3>2
  <2>2. ASSUME NEW frame \in Frames, PickerFrame(frame)
        PROVE  (AnnouncedNewsIsCurrent /\ Restored)'
    BY <1>2, <2>2 DEF PickerFrame
  <2>3. ASSUME NEW frame \in Frames, NEW target \in Inferable(frame),
               NEW order \in SetToSeqs(NewsOf(frame) \ QueuedSlots),
               NEW tokens \in [NewsOf(frame) -> Tokens],
               TaskFrame(frame, target, order, tokens)
        PROVE  (AnnouncedNewsIsCurrent /\ Restored)'
    BY <2>3, FrameNewsCurrent
  <2>4. CASE ResetPresentation
    <3>1. queue' = <<>> /\ anim' = NoAnim
      BY <2>4 DEF ResetPresentation
    <3>2. DOMAIN queue' = {}
      BY <3>1, EmptyQueue
    <3>3. QED
      BY <3>1, <3>2 DEF AnnouncedNewsIsCurrent, Restored
  <2>5. CASE HandshakeComplete
    BY <1>2, <2>5 DEF HandshakeComplete
  <2>6. QED
    BY <1>3, <2>1, <2>2, <2>3, <2>4, <2>5 DEF Host
<1>4. CASE User
  <2>1. ASSUME NEW status \in Previews, NEW token \in Tokens, PreviewStatus(status, token)
        PROVE  (AnnouncedNewsIsCurrent /\ Restored)'
    <3>1. status \in Statuses
      BY EventConstants
    <3>2. QED
      BY <2>1, <3>1, PreviewNewsCurrent
  <2>2. QED
    BY <1>2, <1>4, <2>1 DEF User, SelectSlot, ChangeSurface
<1>5. CASE GoQuiet \/ Worker \/ UNCHANGED vars
  BY <1>2, <1>5 DEF GoQuiet, Worker, PrepareScore, vars
<1>6. ASSUME NEW k \in DOMAIN queue, Ripen(k)
      PROVE  (AnnouncedNewsIsCurrent /\ Restored)'
  <2>1. /\ DOMAIN queue' = DOMAIN queue
        /\ \A i \in DOMAIN queue : /\ queue'[i].slot = queue[i].slot
                                   /\ queue'[i].status = queue[i].status
                                   /\ queue'[i].preview = queue[i].preview
    <3>1. \A i \in DOMAIN queue : queue[i] \in Events
      BY <1>0, EventTyped DEF IInv
    <3>2. queue' = [queue EXCEPT ![k].ripe = TRUE]
      BY <1>6 DEF Ripen
    <3>3. QED
      BY <3>1, <3>2 DEF Events
  <2>2. UNCHANGED <<tasks, anim, baseline, unannounced>>
    BY <1>6 DEF Ripen
  <2>3. QueuedSlots' = QueuedSlots
    <3>1. \A s : s \in QueuedSlots' <=> s \in QueuedSlots
      BY <2>1, QueuedHere, QueuedNext
    <3>2. QED
      BY <3>1
  <2>4. AnnouncedNewsIsCurrent /\ Restored
    BY DEF NewsInv
  <2>5. AnnouncedNewsIsCurrent'
    BY <2>1, <2>2, <2>3, <2>4 DEF AnnouncedNewsIsCurrent
  <2>6. Restored'
    BY <2>1, <2>2, <2>4 DEF Restored
  <2>7. QED
    BY <2>5, <2>6
<1>7. CASE Player
  <2>1. ASSUME NEW i \in DOMAIN queue, StartAnnouncement(i)
        PROVE  (AnnouncedNewsIsCurrent /\ Restored)'
    BY <2>1, StartNewsCurrent
  <2>2. ASSUME NEW t \in TaskRecords, NEW s
        PROVE  /\ Finalised(t) \in TaskRecords /\ Settled(t, s) \in TaskRecords
               /\ Finalised(t).status = t.status /\ Finalised(t).seen = t.seen
               /\ Settled(t, s).status = t.status /\ Settled(t, s).seen = t.seen
    BY DEF Finalised, Settled, TaskRecords
  <2>3. CASE FinishAnnouncement
    <3>1. ASSUME NEW s \in Slots
          PROVE  tasks'[s].status = tasks[s].status /\ tasks'[s].seen = tasks[s].seen
      <4> DEFINE u == IF s = anim.slot /\ anim.status = "done" THEN Finalised(tasks[s]) ELSE tasks[s]
      <4>1. u \in TaskRecords /\ u.status = tasks[s].status /\ u.seen = tasks[s].seen
        BY <1>0, <2>2
      <4>2. tasks'[s] = Settled(u, s)
        BY <2>3 DEF FinishAnnouncement
      <4> HIDE DEF u
      <4>3. QED
        BY <2>2, <4>1, <4>2
    <3>2. \A s \in Slots : StatusKept(s)
      <4>1. UNCHANGED unannounced
        BY <2>3 DEF FinishAnnouncement
      <4>2. QED
        BY <3>1, <4>1, StatusSame
    <3>3. /\ UNCHANGED <<queue, baseline, unannounced>> /\ anim' = NoAnim
      BY <2>3 DEF FinishAnnouncement
    <3>4. AnnouncedNewsIsCurrent /\ Restored
      BY DEF NewsInv
    <3>5. \A i \in DOMAIN queue : queue[i].slot \in Slots
      BY <1>0, EventTyped DEF IInv
    <3>6. AnnouncedNewsIsCurrent'
      BY <3>1, <3>3, <3>4, <3>5 DEF AnnouncedNewsIsCurrent
    <3>7. Restored'
      BY <3>1, <3>3, <3>4, <3>5 DEF Restored
    <3>8. QED
      BY <3>6, <3>7
  <2>4. CASE SettleFrame
    <3>1. ASSUME NEW s \in Slots
          PROVE  tasks'[s].status = tasks[s].status /\ tasks'[s].seen = tasks[s].seen
      <4>1. tasks'[s] = Settled(tasks[s], s)
        BY <2>4 DEF SettleFrame
      <4>2. QED
        BY <1>0, <2>2, <4>1
    <3>2. UNCHANGED <<queue, anim, baseline, unannounced>>
      BY <2>4 DEF SettleFrame
    <3>3. QED
      BY <1>1, <3>1, <3>2
  <2>5. QED
    BY <1>7, <2>1, <2>3, <2>4 DEF Player
<1>8. QED
  BY <1>3, <1>4, <1>5, <1>6, <1>7 DEF Next, Debounce

LEMMA NewsInvariance == Spec => []NewsInv
<1>1. Init => NewsInv
  <2>1. Init => DOMAIN queue = {} /\ anim = NoAnim
    BY DEF Init
  <2>2. QED
    BY <2>1, InitIInv DEF NewsInv, AnnouncedNewsIsCurrent, Restored
<1>2. QED
  BY <1>1, NextNews, PTL DEF Spec

\* "A new state for that slot replaces stale news" (model.h:114): whatever frames,
\* previews and sessions come while events wait or show, what is announced of a
\* slot is its status by now, unless the last change of the slot was given no event.
THEOREM CurrentNewsCorrect == Spec => []AnnouncedNewsIsCurrent
<1>1. NewsInv => AnnouncedNewsIsCurrent
  BY DEF NewsInv
<1>2. QED
  BY <1>1, NewsInvariance, PTL
-----------------------------------------------------------------------------
(* The order of the news.                                                  *)

\* Every event keeps its place, replaced or not.
InPlace ==
  /\ \A i \in DOMAIN queue : i \in DOMAIN queue' /\ queue'[i].slot = queue[i].slot
  /\ Unique(queue')

Places(i) == {m \in DOMAIN queue' : queue'[m].slot = queue[i].slot}

\* queue_announcement() leaves the events that wait in their places.
LEMMA RequeuedPlaces ==
  ASSUME IInv, NEW D \in SUBSET Slots, NEW news, NewsFor(news, D),
         NEW order \in SetToSeqs(D \ QueuedSlots), queue' = Requeued(news, order)
  PROVE  InPlace
<1> DEFINE p == [i \in DOMAIN queue |-> IF queue[i].slot \in D THEN news[queue[i].slot] ELSE queue[i]]
           a == Added(news, order)
<1>1. queue \in Seq(Events) /\ DOMAIN queue = 1..Len(queue) /\ Len(queue) \in Nat
  BY LenProperties DEF IInv, QueueGood
<1>2. Unique(queue')
  BY RequeuedStep DEF Requeues
<1>3. /\ p \in Seq(Events) /\ Len(p) = Len(queue)
      /\ \A i \in 1..Len(queue) : p[i].slot = queue[i].slot
  BY <1>1, ReplacedFacts DEF NewsFor
<1>4. a \in Seq(Events)
  <2>1. IsFiniteSet(D \ QueuedSlots)
    BY EventConstants, FS_Subset
  <2>2. order \in Seq(D \ QueuedSlots)
    BY <2>1, OrderFacts DEF Lists
  <2>3. order \in Seq(D)
    BY <2>2, SeqMonotonic
  <2>4. QED
    BY <2>3, AddedFacts DEF NewsFor
<1>5. queue' = p \o a
  BY DEF Requeued, NewsFor
<1> HIDE DEF p, a
<1>6. /\ DOMAIN queue' = 1..(Len(p) + Len(a)) /\ Len(a) \in Nat
      /\ \A i \in 1..Len(p) : queue'[i] = p[i]
  <2>1. Len(a) \in Nat
    BY <1>4, LenProperties
  <2>2. p \in Seq(Events)
    BY <1>3
  <2>3. QED
    BY <1>4, <1>5, <2>1, <2>2, ConcatFacts, SMT
<1>7. ASSUME NEW i \in DOMAIN queue
      PROVE  i \in DOMAIN queue' /\ queue'[i].slot = queue[i].slot
  <2>1. i \in 1..Len(p)
    BY <1>1, <1>3
  <2>2. i \in 1..(Len(p) + Len(a))
    BY <1>1, <1>3, <1>6, <2>1
  <2>3. QED
    BY <1>1, <1>3, <1>6, <2>1, <2>2
<1>8. QED
  BY <1>2, <1>7 DEF InPlace

\* Events that keep their places keep their order.
LEMMA InPlaceTurns ==
  ASSUME IInv, InPlace, NEW i \in DOMAIN queue
  PROVE  Places(i) = {i}
<1>1. i \in DOMAIN queue' /\ queue'[i].slot = queue[i].slot
  BY DEF InPlace
<1>2. ASSUME NEW m \in DOMAIN queue', queue'[m].slot = queue[i].slot PROVE m = i
  BY <1>1, <1>2 DEF InPlace, Unique
<1>3. QED
  BY <1>1, <1>2 DEF Places

\* "Different slots preserve arrival order" (model.h:115): only the event that the
\* player starts leaves the queue, with the score that was prepared for its
\* slot, and the order of the others stays through replacements, previews and
\* removals from the middle; only a new session drops events.
THEOREM TurnCorrect == Spec => NewsKeepsItsTurn
<1> DEFINE Step ==
      ~baseline' =>
        /\ \A i \in DOMAIN queue :
             Places(i) = {} => cued = queue[i].slot /\ anim'.slot = queue[i].slot
        /\ \A i, j \in DOMAIN queue :
             i < j => \A a \in Places(i), b \in Places(j) : a < b
<1>1. IInv /\ [Next]_vars => [Step]_vars
  <2> SUFFICES ASSUME IInv, [Next]_vars PROVE Step
    OBVIOUS
  <2>0. queue \in Seq(Events) /\ Unique(queue)
    BY DEF IInv, QueueGood
  <2>1. ASSUME InPlace PROVE Step
    BY <2>1, InPlaceTurns
  <2>2. CASE UNCHANGED queue
    <3>1. InPlace
      BY <2>0, <2>2 DEF InPlace
    <3>2. QED
      BY <2>1, <3>1
  <2>3. ASSUME NEW k \in DOMAIN queue, Ripen(k) PROVE Step
    <3>1. queue' = [queue EXCEPT ![k].ripe = TRUE] /\ \A i \in DOMAIN queue : queue[i] \in Events
      BY <2>3, EventTyped DEF Ripen, IInv
    <3>2. DOMAIN queue' = DOMAIN queue /\ \A i \in DOMAIN queue : queue'[i].slot = queue[i].slot
      BY <3>1 DEF Events
    <3>3. InPlace
      BY <2>0, <3>2 DEF InPlace, Unique
    <3>4. QED
      BY <2>1, <3>3
  <2>4. ASSUME NEW frame \in Frames, NEW target \in Inferable(frame),
               NEW order \in SetToSeqs(NewsOf(frame) \ QueuedSlots),
               NEW tokens \in [NewsOf(frame) -> Tokens],
               TaskFrame(frame, target, order, tokens)
        PROVE  Step
    <3> DEFINE news == FrameNewsOf(frame, tokens)
    <3>1. queue' = Requeued(news, order)
      BY <2>4 DEF TaskFrame, FrameNewsOf
    <3>2. NewsOf(frame) \in SUBSET Slots /\ NewsFor(news, NewsOf(frame))
      BY FrameNews
    <3> HIDE DEF news
    <3>3. InPlace
      BY <3>1, <3>2, RequeuedPlaces
    <3>4. QED
      BY <2>1, <3>3
  <2>5. ASSUME NEW status \in Previews, NEW token \in Tokens, PreviewStatus(status, token)
        PROVE  Step
    <3> DEFINE news == [s \in {selected} |-> NewEvent(s, status, token, TRUE)]
    <3>1. status \in Statuses /\ {selected} \in SUBSET Slots
      BY EventConstants DEF IInv, RestTyped
    <3>2. NewsFor(news, {selected})
      BY <2>5, <3>1, PreviewEvent
    <3>3. PICK order \in SetToSeqs({selected} \ QueuedSlots) : queue' = Requeued(news, order)
      BY <2>5, <3>1, PreviewEvent
    <3> HIDE DEF news
    <3>4. InPlace
      BY <3>1, <3>2, <3>3, RequeuedPlaces
    <3>5. QED
      BY <2>1, <3>4
  <2>6. CASE ResetPresentation
    BY <2>6 DEF ResetPresentation
  <2>7. ASSUME NEW k \in DOMAIN queue, StartAnnouncement(k) PROVE Step
    <3> DEFINE place(m) == IF m < k THEN m ELSE m + 1
    <3>1. /\ DOMAIN queue = 1..Len(queue) /\ Len(queue) \in Nat /\ k \in 1..Len(queue)
          /\ DOMAIN queue' = 1..(Len(queue) - 1)
          /\ \A m \in DOMAIN queue' : queue'[m] = queue[place(m)]
      BY <2>7, StartedPlaces
    <3>2. ASSUME NEW i \in DOMAIN queue, NEW m \in Places(i)
          PROVE  m \in Int /\ place(m) = i
      <4>1. m \in DOMAIN queue' /\ queue'[m].slot = queue[i].slot
        BY <3>2 DEF Places
      <4>2. place(m) \in DOMAIN queue /\ m \in Int
        BY <3>1, <4>1
      <4>3. QED
        BY <2>0, <3>1, <4>1, <4>2 DEF Unique
    <3>3. ASSUME NEW i \in DOMAIN queue, i # k PROVE Places(i) # {}
      <4> DEFINE m == IF i < k THEN i ELSE i - 1
      <4>1. m \in DOMAIN queue' /\ place(m) = i
        BY <3>1, <3>3
      <4>2. queue'[m] = queue[i]
        BY <3>1, <4>1
      <4>3. m \in Places(i)
        BY <4>1, <4>2 DEF Places
      <4>4. QED
        BY <4>3
    <3>4. cued = queue[k].slot /\ anim'.slot = queue[k].slot
      BY <2>7 DEF StartAnnouncement, CanStart
    <3>5. ASSUME NEW i \in DOMAIN queue, NEW j \in DOMAIN queue, i < j,
                 NEW a \in Places(i), NEW b \in Places(j)
          PROVE  a < b
      <4>1. a \in Int /\ place(a) = i /\ b \in Int /\ place(b) = j
        BY <3>2
      <4>2. k \in Int
        BY <3>1
      <4>3. QED
        BY <3>5, <4>1, <4>2
    <3> HIDE DEF place
    <3>6. QED
      BY <3>3, <3>4, <3>5
  <2>8. CASE \/ \E frame \in Frames : AllOffFrame(frame) \/ PickerFrame(frame)
             \/ HandshakeComplete \/ GoQuiet \/ Worker \/ FinishAnnouncement \/ SettleFrame
             \/ ChangeSurface \/ (\E s \in Slots : SelectSlot(s)) \/ UNCHANGED vars
    BY <2>2, <2>8
    DEF AllOffFrame, PickerFrame, HandshakeComplete, GoQuiet, Worker, PrepareScore,
        FinishAnnouncement, SettleFrame, ChangeSurface, SelectSlot, vars
  <2> HIDE DEF Step
  <2>9. QED
    BY <2>3, <2>4, <2>5, <2>6, <2>7, <2>8 DEF Next, Host, User, Player, Debounce
<1>2. Step => (~baseline' =>
        LET place(i) == {m \in DOMAIN queue' : queue'[m].slot = queue[i].slot}
        IN /\ \A i \in DOMAIN queue :
                place(i) = {} => cued = queue[i].slot /\ anim'.slot = queue[i].slot
           /\ \A i, j \in DOMAIN queue :
                i < j => \A a \in place(i), b \in place(j) : a < b)
  BY DEF Places
<1> HIDE DEF Step
<1>3. QED
  BY <1>1, <1>2, Invariance, PTL DEF Spec, NewsKeepsItsTurn

-----------------------------------------------------------------------------
(* The unread mark of a completion.                                        *)

\* What a step may do to the marks of one slot.
MarksKept(s) ==
  /\ tasks'[s].viewed /\ ~tasks[s].viewed =>
       s \in {selected, selected'} \/ baseline \/ ~tasks[s].seen
  /\ tasks[s].unseen /\ ~tasks'[s].unseen /\ tasks'[s].status = "done" /\ tasks'[s].color = "green" =>
       tasks'[s].viewed

\* A frame: the reducer, and the marking of the slots that are looked at.
LEMMA FrameMarks ==
  ASSUME IInv, NEW frame \in Frames, NEW target \in Inferable(frame), NEW order, NEW tokens,
         TaskFrame(frame, target, order, tokens), NEW s \in Slots
  PROVE  MarksKept(s)
<1> DEFINE t == tasks[s]
           u == IF s \in DOMAIN frame THEN Reduced(t, frame[s]) ELSE t
           v == tasks'[s]
<1>1. t \in TaskRecords
  BY DEF IInv, TasksGood
<1>2. v = IF s \in ViewedIn(frame, target) THEN MarkViewed(u) ELSE u
  BY DEF TaskFrame
<1>3. s \in ViewedIn(frame, target) => s \in {selected, selected'} \/ baseline
  <2>1. selected' = IF target = None THEN selected ELSE target
    BY DEF TaskFrame
  <2>2. s # None
    BY EventConstants
  <2>3. QED
    BY <2>1, <2>2 DEF ViewedIn
<1>4. s \in DOMAIN frame => u \in TaskRecords
  BY <1>1, FrameType, ReducedGood DEF Good
<1>5. u \in TaskRecords
  BY <1>1, <1>4
<1>6. s \in DOMAIN frame =>
        /\ u.viewed => Initial(t) \/ t.viewed
        /\ u.status = "done" /\ u.color = "green" /\ ~u.unseen => u.viewed
  <2> SUFFICES ASSUME s \in DOMAIN frame
               PROVE  /\ u.viewed => Initial(t) \/ t.viewed
                      /\ u.status = "done" /\ u.color = "green" /\ ~u.unseen => u.viewed
    OBVIOUS
  <2> DEFINE st == StatusAfter(t, frame[s])
             vi == st = "done" /\ ViewedAfter(t)
             un == st = "done" /\ (HoldAfter(t) \/ (frame[s].color = "green" /\ ~ViewedAfter(t)))
  <2>1. u.viewed = vi /\ u.unseen = un /\ u.status = st /\ u.color = frame[s].color
    BY DEF Reduced
  <2> HIDE DEF u
  <2>2. vi => Initial(t) \/ t.viewed
    BY Zenon DEF ViewedAfter
  <2>3. st = "done" /\ frame[s].color = "green" /\ ~un => vi
    BY Zenon
  <2> HIDE DEF vi, un, st
  <2>4. QED
    BY <2>1, <2>2, <2>3
<1>7. s \notin DOMAIN frame => u = t
  OBVIOUS
<1> HIDE DEF u
<1>8. /\ MarkViewed(u).status = u.status /\ MarkViewed(u).color = u.color
      /\ u.status = "done" => MarkViewed(u).viewed
      /\ u.status # "done" => MarkViewed(u) = u
  BY <1>5 DEF MarkViewed, TaskRecords
<1>9. v.viewed /\ ~t.viewed => s \in {selected, selected'} \/ baseline \/ ~t.seen
  <2>1. CASE s \in ViewedIn(frame, target)
    BY <1>3, <2>1
  <2>2. CASE s \notin ViewedIn(frame, target)
    <3>1. v = u
      BY <1>2, <2>2
    <3>2. v.viewed /\ ~t.viewed => Initial(t)
      BY <1>6, <1>7, <3>1
    <3>3. QED
      BY <3>2 DEF Initial
  <2>3. QED
    BY <2>1, <2>2
<1>10. t.unseen /\ ~v.unseen /\ v.status = "done" /\ v.color = "green" => v.viewed
  <2>1. CASE s \in ViewedIn(frame, target)
    <3>1. v = MarkViewed(u)
      BY <1>2, <2>1
    <3>2. v.status = "done" => v.viewed
      BY <1>8, <3>1
    <3>3. QED
      BY <3>2
  <2>2. CASE s \notin ViewedIn(frame, target)
    <3>1. v = u
      BY <1>2, <2>2
    <3>2. QED
      BY <1>6, <1>7, <3>1
  <2>3. QED
    BY <2>1, <2>2
<1>11. QED
  BY <1>9, <1>10 DEF MarksKept

\* "Background completions remain unread" (main.cpp:420): a completion counts as
\* viewed only when its slot is or just became the selected one, or when a new
\* session restores old lamps; and nothing else ends the unread mark of a
\* completion that the host still shows green.
THEOREM BackgroundCorrect == Spec => BackgroundStaysUnread
<1> DEFINE Step == \A s \in Slots : MarksKept(s)
<1>1. IInv /\ [Next]_vars => [Step]_vars
  <2> SUFFICES ASSUME IInv, [Next]_vars, NEW s \in Slots PROVE MarksKept(s)
    OBVIOUS
  <2>0. tasks[s] \in TaskRecords
    BY DEF IInv, TasksGood
  <2>1. CASE UNCHANGED tasks
    BY <2>1 DEF MarksKept
  <2>2. ASSUME NEW frame \in Frames, NEW target \in Inferable(frame),
               NEW order \in SetToSeqs(NewsOf(frame) \ QueuedSlots),
               NEW tokens \in [NewsOf(frame) -> Tokens],
               TaskFrame(frame, target, order, tokens)
        PROVE  MarksKept(s)
    BY <2>2, FrameMarks
  <2>3. ASSUME NEW frame \in Frames, AllOffFrame(frame) PROVE MarksKept(s)
    <3>1. tasks'[s] = [tasks[s] EXCEPT !.interrupted = TRUE]
      BY <2>3 DEF AllOffFrame
    <3>2. QED
      BY <2>0, <3>1 DEF MarksKept, TaskRecords
  <2>4. CASE ResetPresentation
    <3>1. tasks'[s] = [tasks[s] EXCEPT !.hold = FALSE, !.seen = FALSE]
      BY <2>4 DEF ResetPresentation
    <3>2. QED
      BY <2>0, <3>1 DEF MarksKept, TaskRecords
  <2>5. ASSUME NEW t \in TaskRecords
        PROVE  /\ Settled(t, s) \in TaskRecords /\ Settled(t, s).viewed = t.viewed
               /\ t.unseen /\ ~Settled(t, s).unseen => t.viewed
               /\ Settled(t, s).status = t.status /\ Settled(t, s).color = t.color
               /\ Finalised(t) \in TaskRecords /\ Finalised(t).viewed = t.viewed
               /\ Finalised(t).status = t.status /\ Finalised(t).color = t.color
               /\ t.unseen /\ ~Finalised(t).unseen => t.color # "green" \/ t.viewed
    BY DEF Settled, Finalised, TaskRecords
  <2>6. CASE SettleFrame
    <3>1. tasks'[s] = Settled(tasks[s], s)
      BY <2>6 DEF SettleFrame
    <3>2. QED
      BY <2>0, <2>5, <3>1 DEF MarksKept
  <2>7. CASE FinishAnnouncement
    <3> DEFINE u == IF s = anim.slot /\ anim.status = "done" THEN Finalised(tasks[s]) ELSE tasks[s]
    <3>1. tasks'[s] = Settled(u, s)
      BY <2>7 DEF FinishAnnouncement
    <3>2. /\ u \in TaskRecords /\ u.viewed = tasks[s].viewed
          /\ u.status = tasks[s].status /\ u.color = tasks[s].color
          /\ tasks[s].unseen /\ ~u.unseen => tasks[s].color # "green" \/ tasks[s].viewed
      BY <2>0, <2>5
    <3> HIDE DEF u
    <3>3. /\ tasks'[s].viewed = u.viewed /\ (u.unseen /\ ~tasks'[s].unseen => u.viewed)
          /\ tasks'[s].status = u.status /\ tasks'[s].color = u.color
      BY <2>5, <3>1, <3>2
    <3>4. QED
      BY <3>2, <3>3 DEF MarksKept
  <2>8. QED
    BY <2>1, <2>2, <2>3, <2>4, <2>6, <2>7
    DEF Next, Host, User, Player, Debounce, Worker, PickerFrame, HandshakeComplete, SelectSlot,
        ChangeSurface, PreviewStatus, GoQuiet, Ripen, PrepareScore, StartAnnouncement, vars
<1>2. Step => \A s \in Slots :
        LET before == tasks[s]
            after == tasks'[s]
        IN /\ after.viewed /\ ~before.viewed =>
                s \in {selected, selected'} \/ baseline \/ ~before.seen
           /\ before.unseen /\ ~after.unseen /\ after.status = "done" /\ after.color = "green" =>
                after.viewed
  BY DEF MarksKept
<1> HIDE DEF Step
<1>3. QED
  BY <1>1, <1>2, Invariance, PTL DEF Spec, BackgroundStaysUnread

-----------------------------------------------------------------------------
(***************************************************************************)
(* The score of a takeover: StatusAudio.                                   *)
(***************************************************************************)

(* The inductive invariant, part by part: first what the three tasks are at. *)

AudioSteps == {"idle", "request", "request_token", "notify", "take", "arm", "play",
               "disarm", "mark", "chime_reserve", "chime_play"}
Loaded == {"target", "render", "check", "publish_cue", "publish_buffer", "publish_token"}
Rendered == {"check", "publish_cue", "publish_buffer", "publish_token"}
WorkerSteps == {"wait", "token", "cue"} \cup Loaded

\* Tokens are unique, and the cores know none that was not given.
QueueSound ==
  /\ \A i \in DOMAIN backlog : backlog[i].token \in 1..count
  /\ \A i, j \in DOMAIN backlog :
       backlog[i].slot = backlog[j].slot \/ backlog[i].token = backlog[j].token => i = j
  /\ {requested.token, prepared.token, worker.score.token} \subseteq 0..count

\* The worker loads the request it was notified of, and publishes its token last.
WorkerSound ==
  /\ worker.at = "wait" => worker = Waiting
  /\ worker.at = "token" => worker.score = Silence
  /\ worker.at \notin {"wait", "token"} => worker.score.token > 0
  /\ notified \/ worker.at # "wait" \/ at = "notify" => requested.token > 0
  /\ ~notified /\ at \notin {"request_token", "notify"} =>
       /\ worker.at = "cue" => worker.score.token = requested.token
       /\ worker.at \in Loaded => worker.score = requested
  /\ worker.at \in {"publish_buffer", "publish_token"} => prepared.cue = worker.score.cue
  /\ worker.at = "publish_token" => prepared.buffer = worker.target

\* Whatever the worker has rendered, and what is published while it rests, is in its buffer.
BufferSound ==
  /\ worker.clash => rehearsed
  /\ at \in {"chime_reserve", "chime_play"} => rehearsed /\ overtaken /\ speaker.buffer = -1
  /\ ~rehearsed /\ worker.at \in Rendered => pcm[worker.target] = worker.score
  /\ Resting /\ ~rehearsed /\ at \notin {"request_token", "notify"} /\ prepared.buffer >= 0
       => pcm[prepared.buffer] = Score(prepared.token, prepared.cue)

\* As long as no score was asked for since, the armed buffer holds the score of the panel.
ArmSound ==
  /\ ~overtaken => Resting
  /\ at = "notify" => overtaken
  /\ pending /\ ~overtaken /\ at \notin {"arm", "mark"} /\ armed >= 0 => pcm[armed] = Of(panel)

\* What plays is whole, and the worker renders into the other buffer.
SpeakerSound ==
  ~speaker.overtaken /\ speaker.buffer >= 0 =>
    /\ pcm[speaker.buffer] = speaker.score
    /\ at \in {"disarm", "mark"} => ~overtaken
    /\ at \notin {"disarm", "mark"} =>
         /\ playing = speaker.buffer
         /\ worker.at = "render" => worker.target # speaker.buffer

\* The event a frame may take: the newer one of the slot on the panel, else the oldest.
MayTake(i) == IF panel.on THEN backlog[i].slot = panel.slot ELSE i = 1
\* The tokens the cores know: the published one and the one the worker is at.
InUse == {prepared.token, worker.score.token}

\* Whatever the cores know of an event is a part of the last request for it.
Followed(e) ==
  e.token \in InUse =>
    /\ requested = Of(e)
    /\ prepared.token = e.token => Prepared(e) /\ worker.score.token \in {0, e.token}
    /\ worker.score.token = e.token /\ worker.at # "cue" => worker.score = Of(e)

\* No score of the event was asked for yet.
Untouched(e) == e.token \notin InUse \cup {requested.token}

\* A request that is half stored is one for the event that may be taken.
RequestSound ==
  /\ at # "request_token" =>
       \A i \in DOMAIN backlog : requested.token = backlog[i].token =>
         requested.cue = backlog[i].cue
  /\ at = "request_token" =>
       \E i \in DOMAIN backlog : /\ MayTake(i) /\ requested.cue = backlog[i].cue
                                 /\ requested.token # backlog[i].token

\* What the cores know of the event that may be taken next is its last request, and while
\* the panel is taken they know of no other.
TurnSound ==
  ~skipped =>
    \A i \in DOMAIN backlog :
      /\ MayTake(i) => Followed(backlog[i])
      /\ panel.on /\ backlog[i].slot # panel.slot => Untouched(backlog[i])

\* Between the take and the arm nothing else is published.
TakenSound ==
  at = "arm" /\ ~muted /\ ~skipped =>
    prepared.token = panel.token /\ panel.token > 0 /\ Followed(panel)

-----------------------------------------------------------------------------
\* The types.
AudioSlots == Chats \cup {"none"}
AudioCues == Cues \cup {"none", "torn", "chime"}
AudioEvents == [slot : Chats, token : Nat, cue : Cues, ripe : BOOLEAN]
Scores == [token : Nat, cue : AudioCues]

EventsTyped == backlog \in Seq(AudioEvents) /\ count \in Nat
SurfaceTyped ==
  /\ page \in {"deck", "other"} /\ muted \in BOOLEAN
  /\ panel \in [slot : AudioSlots, token : Nat, cue : AudioCues, on : BOOLEAN, drawn : BOOLEAN]
  /\ pending \in BOOLEAN /\ at \in AudioSteps
SynthTyped ==
  /\ requested \in Scores /\ notified \in BOOLEAN
  /\ prepared \in [token : Nat, cue : AudioCues, buffer : {-1, 0, 1}]
  /\ worker \in [at : WorkerSteps, score : Scores, target : {0, 1}, clash : BOOLEAN]
BuffersTyped ==
  /\ armed \in {-1, 0, 1} /\ playing \in {-1, 0, 1}
  /\ pcm \in [{0, 1} -> Scores]
  /\ speaker \in [buffer : {-1, 0, 1}, score : Scores, overtaken : BOOLEAN]
TaintTyped == overtaken \in BOOLEAN /\ rehearsed \in BOOLEAN /\ skipped \in BOOLEAN

AudioTypeOK == EventsTyped /\ SurfaceTyped /\ SynthTyped /\ BuffersTyped /\ TaintTyped

\* The queue and the scores, as the provers need them.
LEMMA AudioQueue ==
  ASSUME AudioTypeOK
  PROVE  /\ DOMAIN backlog = 1..Len(backlog) /\ Len(backlog) \in Nat
         /\ \A i \in DOMAIN backlog : backlog[i] \in AudioEvents
  BY LenProperties, ElementOfSeq DEF AudioTypeOK, EventsTyped

LEMMA ScoresTyped ==
  /\ Silence \in Scores /\ Torn \in Scores /\ Chime \in Scores
  /\ \A e \in AudioEvents : Of(e) \in Scores /\ Of(e).token = e.token /\ Of(e).cue = e.cue
  /\ \A t \in Nat, c \in AudioCues : Score(t, c) \in Scores
  /\ Silence.token = 0 /\ Silence.cue = "none"
  BY DEF Silence, Torn, Chime, Of, Score, Scores, AudioCues, AudioEvents

\* Who changes the queue, the requests, the scores, the buffers and the history: what no
\* action of these lists does is left as it is.
LEMMA QueueKept ==
  ASSUME [AudioNext]_audio
  PROVE  \/ \E slot \in Chats, cue \in Cues : Announce(slot, cue)
         \/ \E i \in DOMAIN backlog : DebounceEnds(i)
         \/ Reset \/ Take
         \/ UNCHANGED events
  BY DEF AudioNext, MainLoop, Mute, Turn, ChimeRender, FrameStep, Frame, RequestCue, RequestToken,
     RequestNotify, NoRequest, Arm, Age, NothingToPlay, PlayMuted, PlayRefused, Play, Disarm,
     MarkPlaying, ChimeReserve, ChimePlay, WorkerStep, WakeUp, LoadToken, LoadCue, BeginRender,
     EndRender, StillWanted, PublishCue, PublishBuffer, PublishToken, Time, SpeakerEnds, audio,
     events

LEMMA WorkerLeaves ==
  WorkerStep => UNCHANGED <<events, shown, pending, at, requested, sound, taint>>
  BY DEF WorkerStep, WakeUp, LoadToken, LoadCue, BeginRender, EndRender, StillWanted, PublishCue,
     PublishBuffer, PublishToken

LEMMA TimeLeaves ==
  Time => UNCHANGED <<count, shown, pending, at, requested, synth, armed, playing, taint>>
  BY DEF Time, SpeakerEnds, DebounceEnds, events, sound

LEMMA SynthKept ==
  ASSUME [AudioNext]_audio
  PROVE  \/ RequestCue \/ RequestToken \/ RequestNotify \/ ChimeRender
         \/ WorkerStep
         \/ UNCHANGED <<requested, notified, prepared, worker>>
  BY TimeLeaves
  DEF AudioNext, MainLoop, Announce, Mute, Turn, Reset, FrameStep, Frame,
     NoRequest, Take, Arm, Age, NothingToPlay, PlayMuted, PlayRefused, Play, Disarm,
     MarkPlaying, ChimeReserve, ChimePlay, audio, synth

LEMMA BuffersKept ==
  ASSUME [AudioNext]_audio
  PROVE  \/ ChimeRender \/ ChimeReserve \/ ChimePlay \/ SpeakerEnds
         \/ Arm \/ PlayMuted \/ Play \/ Disarm \/ MarkPlaying
         \/ BeginRender \/ EndRender
         \/ UNCHANGED <<armed, playing, pcm, speaker>>
  BY DEF AudioNext, MainLoop, Announce, Mute, Turn, Reset, FrameStep, Frame, RequestCue,
     RequestToken, RequestNotify, NoRequest, Take, Age, NothingToPlay, PlayRefused, WorkerStep,
     WakeUp, LoadToken, LoadCue, StillWanted, PublishCue, PublishBuffer, PublishToken, Time,
     DebounceEnds, audio, sound, synth

LEMMA TaintKept ==
  ASSUME [AudioNext]_audio
  PROVE  Reset \/ ChimeRender \/ RequestToken \/ Take \/ Arm \/ UNCHANGED taint
  BY WorkerLeaves, TimeLeaves
  DEF AudioNext, MainLoop, Announce, Mute, Turn, FrameStep, Frame, RequestCue, RequestNotify,
     NoRequest, Age, NothingToPlay, PlayMuted, PlayRefused, Play, Disarm, MarkPlaying,
     ChimeReserve, ChimePlay, audio, taint

LEMMA AudioInitType == AudioInit => AudioTypeOK
<1> SUFFICES ASSUME AudioInit PROVE AudioTypeOK
  OBVIOUS
<1>1. 0..1 = {0, 1} /\ <<>> \in Seq(AudioEvents)
  BY EmptySeq
<1>2. EventsTyped /\ TaintTyped
  BY <1>1 DEF AudioInit, EventsTyped, TaintTyped
<1>3. SurfaceTyped
  BY DEF AudioInit, SurfaceTyped, AudioSlots, AudioCues, AudioSteps
<1>4. SynthTyped
  BY ScoresTyped DEF AudioInit, SynthTyped, AudioCues, Waiting, WorkerSteps, Loaded
<1>5. BuffersTyped
  <2>1. [b \in 0..1 |-> Silence] \in [{0, 1} -> Scores]
    BY <1>1, ScoresTyped
  <2>2. [b \in 0..1 |-> IF b = 0 THEN Chime ELSE Silence] \in [{0, 1} -> Scores]
    BY <1>1, ScoresTyped
  <2>3. pcm \in [{0, 1} -> Scores]
    BY <2>1, <2>2 DEF AudioInit
  <2>4. \A b \in {-1, 0}, score \in Scores :
          [buffer |-> b, score |-> score, overtaken |-> FALSE]
            \in [buffer : {-1, 0, 1}, score : Scores, overtaken : BOOLEAN]
    OBVIOUS
  <2>5. speaker \in [buffer : {-1, 0, 1}, score : Scores, overtaken : BOOLEAN]
    <3>1. \E b \in {-1, 0}, score \in Scores :
             speaker = [buffer |-> b, score |-> score, overtaken |-> FALSE]
      BY ScoresTyped DEF AudioInit
    <3>2. QED
      BY <2>4, <3>1
  <2>6. QED
    BY <2>3, <2>5 DEF AudioInit, BuffersTyped
<1>6. QED
  BY <1>2, <1>3, <1>4, <1>5 DEF AudioTypeOK

\* What a step of the worker makes of its record.
Workers == [at : WorkerSteps, score : Scores, target : {0, 1}, clash : BOOLEAN]

LEMMA WaitingFacts ==
  /\ Waiting \in Workers
  /\ Waiting.at = "wait" /\ Waiting.score = Silence /\ Waiting.clash = FALSE
  /\ Waiting.score.token = 0
  BY ScoresTyped DEF Waiting, Workers, WorkerSteps, Loaded

LEMMA WorkerMoves ==
  ASSUME worker \in Workers, NEW step \in WorkerSteps, WorkerAt(step)
  PROVE  /\ worker' \in Workers /\ worker'.at = step
         /\ step = "wait" => worker' = Waiting
         /\ step # "wait" => /\ worker'.score = worker.score
                             /\ worker'.target = worker.target
                             /\ worker'.clash = worker.clash
  BY WaitingFacts DEF WorkerAt, Workers

\* The types of the queue, and of the rest of the state.
LEMMA QueueTyped ==
  ASSUME AudioTypeOK, [AudioNext]_audio
  PROVE  EventsTyped'
<1> USE AudioQueue
<1>1. ASSUME NEW slot \in Chats, NEW cue \in Cues, Announce(slot, cue) PROVE EventsTyped'
  <2> DEFINE event == [slot |-> slot, token |-> count + 1, cue |-> cue, ripe |-> FALSE]
             old == {i \in DOMAIN backlog : backlog[i].slot = slot}
  <2>1. event \in AudioEvents /\ count + 1 \in Nat
    BY DEF AudioTypeOK, EventsTyped, AudioEvents
  <2>2. CASE old = {}
    <3>1. backlog' = Append(backlog, event) /\ count' = count + 1
      BY <1>1, <2>2 DEF Announce
    <3> HIDE DEF event
    <3>2. backlog' \in Seq(AudioEvents)
      BY <2>1, <3>1, AppendProperties DEF AudioTypeOK, EventsTyped
    <3>3. QED
      BY <2>1, <3>1, <3>2 DEF EventsTyped
  <2>3. CASE old # {}
    <3>1. /\ backlog' = [i \in DOMAIN backlog |-> IF i \in old THEN event ELSE backlog[i]]
          /\ count' = count + 1
      BY <1>1, <2>3 DEF Announce
    <3> HIDE DEF event, old
    <3>2. backlog' \in [1..Len(backlog) -> AudioEvents]
      BY <2>1, <3>1
    <3>3. backlog' \in Seq(AudioEvents)
      BY <3>2, IsASeq
    <3>4. QED
      BY <2>1, <3>1, <3>3 DEF EventsTyped
  <2>4. QED
    BY <2>2, <2>3
<1>2. ASSUME NEW i \in DOMAIN backlog, DebounceEnds(i) PROVE EventsTyped'
  <2>1. [backlog[i] EXCEPT !.ripe = TRUE] \in AudioEvents
    BY DEF AudioEvents
  <2>2. backlog' = [backlog EXCEPT ![i] = [backlog[i] EXCEPT !.ripe = TRUE]] /\ UNCHANGED count
    BY <1>2 DEF DebounceEnds
  <2>3. backlog' \in [1..Len(backlog) -> AudioEvents]
    BY <2>1, <2>2
  <2>4. QED
    BY <2>2, <2>3, IsASeq DEF AudioTypeOK, EventsTyped
<1>3. CASE Reset
  BY <1>3, EmptySeq DEF Reset, AudioTypeOK, EventsTyped
<1>4. CASE Take
  <2>1. PICK i \in DOMAIN backlog : backlog' = RemoveAt(backlog, i)
    BY <1>4 DEF Take, Candidates
  <2>2. QED
    BY <1>4, <2>1, RemoveAtFacts DEF Take, AudioTypeOK, EventsTyped
<1>5. CASE UNCHANGED events
  BY <1>5 DEF AudioTypeOK, EventsTyped, events
<1>6. QED
  BY <1>1, <1>2, <1>3, <1>4, <1>5, QueueKept

LEMMA SurfaceTypedNext ==
  ASSUME AudioTypeOK, [AudioNext]_audio
  PROVE  SurfaceTyped'
<1> USE DEF AudioTypeOK, SurfaceTyped, shown
<1>1. CASE Take
  <2>1. PICK i \in DOMAIN backlog :
          panel' = [slot |-> backlog[i].slot, token |-> backlog[i].token, cue |-> backlog[i].cue,
                    on |-> TRUE, drawn |-> FALSE]
    BY <1>1 DEF Take, Candidates
  <2>2. backlog[i] \in AudioEvents
    BY AudioQueue
  <2>3. panel' \in [slot : AudioSlots, token : Nat, cue : AudioCues, on : BOOLEAN, drawn : BOOLEAN]
    BY <2>1, <2>2 DEF AudioEvents, AudioSlots, AudioCues
  <2>4. QED
    BY <1>1, <2>3 DEF Take, AudioSteps
<1>2. CASE Age
  BY <1>2 DEF Age, AudioSteps
<1>3. CASE Reset
  BY <1>3 DEF Reset, AudioSlots
<1>4. CASE Arm
  BY <1>4 DEF Arm, AudioSteps
<1>5. ASSUME NEW p \in {"deck", "other"}, Turn(p) PROVE SurfaceTyped'
  BY <1>5 DEF Turn
<1>6. CASE \/ Mute \/ ChimeRender \/ Frame \/ RequestCue \/ RequestToken \/ RequestNotify
           \/ NoRequest
           \/ NothingToPlay \/ PlayMuted \/ PlayRefused \/ Play \/ Disarm \/ MarkPlaying
           \/ ChimeReserve \/ ChimePlay
  BY <1>6 DEF Mute, ChimeRender, Frame, RequestCue, RequestToken, RequestNotify, NoRequest,
     NothingToPlay, PlayMuted, PlayRefused, Kept, Play, Disarm, MarkPlaying, ChimeReserve,
     ChimePlay, AudioSteps
<1>7. ASSUME UNCHANGED <<shown, pending, at>> PROVE SurfaceTyped'
  BY <1>7
<1>8. QED
  BY <1>1, <1>2, <1>3, <1>4, <1>5, <1>6, <1>7, WorkerLeaves, TimeLeaves
  DEF AudioNext, MainLoop, FrameStep, Announce, audio

LEMMA SynthTypedNext ==
  ASSUME AudioTypeOK, [AudioNext]_audio
  PROVE  SynthTyped'
<1> USE DEF AudioTypeOK, SynthTyped
<1>1. CASE RequestCue
  <2>1. PICK i \in DOMAIN backlog : requested' = [requested EXCEPT !.cue = backlog[i].cue]
    BY <1>1 DEF RequestCue, Candidates
  <2>2. backlog[i].cue \in AudioCues
    BY AudioQueue DEF AudioEvents, AudioCues
  <2>3. requested' \in Scores
    BY <2>1, <2>2 DEF Scores
  <2>4. QED
    BY <1>1, <2>3 DEF RequestCue, synth
<1>2. CASE RequestToken
  <2>1. PICK i \in DOMAIN backlog : requested' = [requested EXCEPT !.token = backlog[i].token]
    BY <1>2 DEF RequestToken, Candidates
  <2>2. backlog[i].token \in Nat
    BY AudioQueue DEF AudioEvents
  <2>3. requested' \in Scores
    BY <2>1, <2>2 DEF Scores
  <2>4. QED
    BY <1>2, <2>3 DEF RequestToken, synth
<1>3. CASE RequestNotify
  BY <1>3 DEF RequestNotify, Notify
<1>4. CASE ChimeRender
  <2>1. worker' \in [at : WorkerSteps, score : Scores, target : {0, 1}, clash : BOOLEAN]
    BY <1>4 DEF ChimeRender
  <2>2. QED
    BY <1>4, <2>1 DEF ChimeRender
<1>5. CASE WakeUp
  BY <1>5, WorkerMoves DEF WakeUp, Workers, WorkerSteps
<1>6. CASE LoadToken
  <2>1. requested.token \in Nat /\ [worker.score EXCEPT !.token = requested.token] \in Scores
    BY DEF Scores
  <2>2. worker' \in Workers
    BY <1>6, <2>1, WaitingFacts DEF LoadToken, Workers, WorkerSteps
  <2>3. QED
    BY <1>6, <2>2 DEF LoadToken, Workers
<1>7. CASE LoadCue
  <2>1. [worker.score EXCEPT !.cue = requested.cue] \in Scores
    BY DEF Scores
  <2>2. worker' \in Workers
    BY <1>7, <2>1 DEF LoadCue, Workers, WorkerSteps, Loaded
  <2>3. QED
    BY <1>7, <2>2 DEF LoadCue, Workers
<1>8. CASE BeginRender
  <2>1. Target(playing) \in {0, 1}
    BY DEF Target
  <2>2. worker' \in Workers
    BY <1>8, <2>1 DEF BeginRender, Workers, WorkerSteps, Loaded
  <2>3. QED
    BY <1>8, <2>2 DEF BeginRender, Workers
<1>9. CASE EndRender \/ StillWanted
  BY <1>9, WorkerMoves DEF EndRender, StillWanted, Workers, WorkerSteps, Loaded
<1>10. CASE PublishCue \/ PublishBuffer \/ PublishToken
  <2>1. worker' \in Workers
    BY <1>10, WorkerMoves
    DEF PublishCue, PublishBuffer, PublishToken, Workers, WorkerSteps, Loaded
  <2>2. worker.score.cue \in AudioCues /\ worker.score.token \in Nat /\ worker.target \in {-1, 0, 1}
    BY DEF Scores
  <2>3. prepared' \in [token : Nat, cue : AudioCues, buffer : {-1, 0, 1}]
    BY <1>10, <2>2 DEF PublishCue, PublishBuffer, PublishToken
  <2>4. QED
    BY <1>10, <2>1, <2>3 DEF PublishCue, PublishBuffer, PublishToken, Workers
<1>11. ASSUME UNCHANGED <<requested, notified, prepared, worker>> PROVE SynthTyped'
  BY <1>11
<1>12. QED
  BY <1>1, <1>2, <1>3, <1>4, <1>5, <1>6, <1>7, <1>8, <1>9, <1>10, <1>11, SynthKept
  DEF WorkerStep

LEMMA BuffersTypedNext ==
  ASSUME AudioTypeOK, [AudioNext]_audio
  PROVE  BuffersTyped'
<1> USE DEF AudioTypeOK, BuffersTyped
<1> DEFINE Speakers == [buffer : {-1, 0, 1}, score : Scores, overtaken : BOOLEAN]
<1>1. ASSUME NEW b \in {-1, 0, 1}, NEW score \in Scores, NEW o \in BOOLEAN,
             speaker' = [buffer |-> b, score |-> score, overtaken |-> o]
      PROVE  speaker' \in Speakers
  BY <1>1
<1>2. ASSUME NEW b \in {0, 1}, NEW score \in Scores, pcm' = [pcm EXCEPT ![b] = score]
      PROVE  pcm' \in [{0, 1} -> Scores]
  BY <1>2
<1>3. CASE ChimeRender
  <2>1. speaker' \in Speakers
    BY <1>1, <1>3, ScoresTyped DEF ChimeRender
  <2>2. pcm' \in [{0, 1} -> Scores]
    BY <1>2, <1>3, ScoresTyped DEF ChimeRender
  <2>3. QED
    BY <1>3, <2>1, <2>2 DEF ChimeRender
<1>4. CASE ChimeReserve
  <2>1. pcm' \in [{0, 1} -> Scores]
    <3>1. (IF worker.clash /\ worker.target = 0 THEN Torn ELSE Chime) \in Scores
      BY ScoresTyped
    <3>2. QED
      BY <1>2, <1>4, <3>1 DEF ChimeReserve
  <2>2. QED
    BY <1>4, <2>1 DEF ChimeReserve
<1>5. CASE ChimePlay \/ SpeakerEnds
  <2>1. speaker' \in Speakers
    BY <1>1, <1>5, ScoresTyped DEF ChimePlay, SpeakerEnds
  <2>2. QED
    BY <1>5, <2>1 DEF ChimePlay, SpeakerEnds, synth
<1>6. CASE Arm
  <2>1. armed' \in {-1, 0, 1}
    BY <1>6 DEF Arm, PreparedBuffer, SynthTyped
  <2>2. QED
    BY <1>6, <2>1 DEF Arm, synth
<1>7. CASE Play
  <2>1. Of(panel) \in Scores
    BY DEF SurfaceTyped, Of, Score, Scores
  <2>2. speaker' \in Speakers
    BY <1>1, <1>7, <2>1 DEF Play, TaintTyped
  <2>3. QED
    BY <1>7, <2>2 DEF Play, synth
<1>8. CASE PlayMuted \/ Disarm \/ MarkPlaying
  <2>1. armed' \in {-1, 0, 1} /\ playing' \in {-1, 0, 1}
    BY <1>8 DEF PlayMuted, Disarm, MarkPlaying
  <2>2. QED
    BY <1>8, <2>1 DEF PlayMuted, Disarm, MarkPlaying, synth
<1>9. CASE BeginRender
  <2>1. Target(playing) \in {0, 1}
    BY DEF Target
  <2>2. pcm' \in [{0, 1} -> Scores]
    BY <1>2, <1>9, <2>1, ScoresTyped DEF BeginRender
  <2>3. QED
    BY <1>9, <2>2 DEF BeginRender, sound
<1>10. CASE EndRender
  <2>1. /\ (IF worker.clash THEN Torn ELSE worker.score) \in Scores
        /\ worker.target \in {0, 1}
    BY ScoresTyped DEF SynthTyped
  <2>2. pcm' \in [{0, 1} -> Scores]
    BY <1>2, <1>10, <2>1 DEF EndRender
  <2>3. QED
    BY <1>10, <2>2 DEF EndRender, sound
<1>11. CASE UNCHANGED <<armed, playing, pcm, speaker>>
  BY <1>11
<1>12. QED
  BY <1>3, <1>4, <1>5, <1>6, <1>7, <1>8, <1>9, <1>10, <1>11, BuffersKept

LEMMA TaintTypedNext ==
  ASSUME AudioTypeOK, [AudioNext]_audio
  PROVE  TaintTyped'
<1> USE DEF AudioTypeOK, TaintTyped
<1>1. CASE Reset
  BY <1>1 DEF Reset
<1>2. CASE ChimeRender
  BY <1>2 DEF ChimeRender
<1>3. CASE RequestToken
  <2>1. rehearsed' \in BOOLEAN
    BY <1>3, Zenon DEF RequestToken
  <2>2. QED
    BY <1>3, <2>1 DEF RequestToken
<1>4. CASE Take
  BY <1>4, Zenon DEF Take, SurfaceTyped
<1>5. CASE Arm
  <2>1. overtaken' \in BOOLEAN /\ skipped' \in BOOLEAN
    BY <1>5, Zenon DEF Arm
  <2>2. QED
    BY <1>5, <2>1 DEF Arm
<1>6. CASE UNCHANGED taint
  BY <1>6 DEF taint
<1>7. QED
  BY <1>1, <1>2, <1>3, <1>4, <1>5, <1>6, TaintKept

LEMMA AudioTypeNext == AudioTypeOK /\ [AudioNext]_audio => AudioTypeOK'
  BY QueueTyped, SurfaceTypedNext, SynthTypedNext, BuffersTypedNext, TaintTypedNext
  DEF AudioTypeOK

-----------------------------------------------------------------------------
\* What the changes of the queue leave of its events.
LEMMA AnnounceFacts ==
  ASSUME AudioTypeOK, QueueSound, NEW slot \in Chats, NEW cue \in Cues, Announce(slot, cue)
  PROVE  /\ count' = count + 1
         /\ \E k \in DOMAIN backlog' :
              /\ backlog'[k].slot = slot /\ backlog'[k].token = count + 1
              /\ \A m \in DOMAIN backlog' : m # k =>
                   /\ m \in DOMAIN backlog /\ backlog'[m] = backlog[m]
                   /\ backlog[m].slot # slot
<1> DEFINE event == [slot |-> slot, token |-> count + 1, cue |-> cue, ripe |-> FALSE]
           old == {i \in DOMAIN backlog : backlog[i].slot = slot}
<1>1. /\ DOMAIN backlog = 1..Len(backlog) /\ Len(backlog) \in Nat
      /\ \A i \in DOMAIN backlog : backlog[i] \in AudioEvents
  BY AudioQueue
<1>2. event.slot = slot /\ event.token = count + 1 /\ event \in AudioEvents
  BY DEF AudioTypeOK, EventsTyped, AudioEvents
<1>3. CASE old = {}
  <2>1. backlog' = Append(backlog, event) /\ count' = count + 1
    BY <1>3 DEF Announce
  <2> HIDE DEF event
  <2>2. /\ DOMAIN backlog' = 1..(Len(backlog) + 1) /\ backlog'[Len(backlog) + 1] = event
        /\ \A m \in 1..Len(backlog) : backlog'[m] = backlog[m]
    BY <1>1, <1>2, <2>1, AppendProperties DEF AudioTypeOK, EventsTyped
  <2>3. \A m \in DOMAIN backlog : backlog[m].slot # slot
    BY <1>3
  <2>4. ASSUME NEW m \in DOMAIN backlog', m # Len(backlog) + 1
        PROVE  m \in DOMAIN backlog /\ backlog'[m] = backlog[m] /\ backlog[m].slot # slot
    BY <1>1, <2>2, <2>3, <2>4
  <2>5. Len(backlog) + 1 \in DOMAIN backlog'
    BY <1>1, <2>2
  <2>6. QED
    BY <1>2, <2>1, <2>2, <2>4, <2>5
<1>4. CASE old # {}
  <2>1. /\ backlog' = [i \in DOMAIN backlog |-> IF i \in old THEN event ELSE backlog[i]]
        /\ count' = count + 1
    BY <1>4 DEF Announce
  <2>2. PICK k \in DOMAIN backlog : backlog[k].slot = slot
    BY <1>4
  <2> HIDE DEF event
  <2>3. \A m \in DOMAIN backlog : m # k => backlog[m].slot # slot
    BY <2>2 DEF QueueSound
  <2>4. k \in DOMAIN backlog' /\ backlog'[k] = event
    BY <2>1, <2>2
  <2>5. \A m \in DOMAIN backlog' : m # k => m \in DOMAIN backlog /\ backlog'[m] = backlog[m]
    BY <2>1, <2>3
  <2>6. QED
    BY <1>2, <2>1, <2>3, <2>4, <2>5
<1>5. QED
  BY <1>3, <1>4

LEMMA TakenFacts ==
  ASSUME AudioTypeOK, NEW i \in DOMAIN backlog, backlog' = RemoveAt(backlog, i),
         NEW m \in DOMAIN backlog', NEW k, k = (IF m < i THEN m ELSE m + 1)
  PROVE  k \in DOMAIN backlog /\ k # i /\ backlog'[m] = backlog[k] /\ m \in Nat
<1>1. DOMAIN backlog = 1..Len(backlog) /\ Len(backlog) \in Nat /\ backlog \in Seq(AudioEvents)
  BY AudioQueue DEF AudioTypeOK, EventsTyped
<1>2. /\ backlog' \in Seq(AudioEvents) /\ Len(backlog') = Len(backlog) - 1
      /\ \A n \in 1..(Len(backlog) - 1) : backlog'[n] = IF n < i THEN backlog[n] ELSE backlog[n + 1]
  BY <1>1, RemoveAtFacts
<1>3. DOMAIN backlog' = 1..(Len(backlog) - 1)
  BY <1>2, LenProperties
<1>4. QED
  BY <1>1, <1>2, <1>3

LEMMA RipenFacts ==
  ASSUME AudioTypeOK, NEW i \in DOMAIN backlog, DebounceEnds(i)
  PROVE  /\ DOMAIN backlog' = DOMAIN backlog /\ UNCHANGED count
         /\ \A m \in DOMAIN backlog : /\ backlog'[m].slot = backlog[m].slot
                                      /\ backlog'[m].token = backlog[m].token
                                      /\ backlog'[m].cue = backlog[m].cue
<1>1. \A m \in DOMAIN backlog : backlog[m] \in AudioEvents
  BY AudioQueue
<1>2. backlog' = [backlog EXCEPT ![i] = [backlog[i] EXCEPT !.ripe = TRUE]]
  BY DEF DebounceEnds
<1>3. /\ [backlog[i] EXCEPT !.ripe = TRUE].slot = backlog[i].slot
      /\ [backlog[i] EXCEPT !.ripe = TRUE].token = backlog[i].token
      /\ [backlog[i] EXCEPT !.ripe = TRUE].cue = backlog[i].cue
  BY <1>1 DEF AudioEvents
<1>4. backlog \in [DOMAIN backlog -> AudioEvents]
  BY <1>1, AudioQueue DEF AudioTypeOK, EventsTyped
<1>5. QED
  BY <1>2, <1>3, <1>4 DEF DebounceEnds

LEMMA NoEvents == DOMAIN <<>> = {}
  OBVIOUS

\* Tokens are the numbers of events that happened, and no two events share one.
TokensKnown == {requested.token, prepared.token, worker.score.token} \subseteq 0..count

LEMMA TokensNext ==
  ASSUME AudioTypeOK, QueueSound, [AudioNext]_audio, count' >= count
  PROVE  TokensKnown'
<1> USE DEF QueueSound, TokensKnown
<1>1. /\ requested.token \in 0..count /\ prepared.token \in 0..count
      /\ worker.score.token \in 0..count
      /\ count \in Nat /\ count' \in Nat
      /\ worker \in Workers /\ requested \in Scores
      /\ prepared \in [token : Nat, cue : AudioCues, buffer : {-1, 0, 1}]
  BY QueueTyped DEF AudioTypeOK, EventsTyped, SynthTyped, Workers
<1> USE WaitingFacts
<1>2. CASE RequestCue
  <2>1. requested'.token = requested.token /\ UNCHANGED <<prepared, worker>>
    BY <1>1, <1>2 DEF RequestCue, synth, Scores
  <2>2. QED
    BY <1>1, <2>1
<1>3. CASE RequestToken
  <2>1. PICK i \in DOMAIN backlog : requested' = [requested EXCEPT !.token = backlog[i].token]
    BY <1>3 DEF RequestToken, Candidates
  <2>2. requested'.token = backlog[i].token /\ backlog[i].token \in 1..count
    BY <1>1, <2>1 DEF Scores
  <2>3. UNCHANGED <<prepared, worker>>
    BY <1>3 DEF RequestToken, synth
  <2>4. QED
    BY <1>1, <2>2, <2>3
<1>4. CASE RequestNotify
  BY <1>1, <1>4 DEF RequestNotify
<1>5. CASE ChimeRender
  <2>1. worker'.score = worker.score /\ UNCHANGED <<requested, prepared>>
    BY <1>1, <1>5 DEF ChimeRender, Workers
  <2>2. QED
    BY <1>1, <2>1
<1>6. CASE LoadToken
  <2>1. worker'.score.token \in {0, requested.token} /\ UNCHANGED <<requested, prepared>>
    BY <1>1, <1>6 DEF LoadToken, Workers, Scores
  <2>2. QED
    BY <1>1, <2>1
<1>7. CASE LoadCue \/ BeginRender
  <2>1. CASE LoadCue
    <3>1. worker'.score = [worker.score EXCEPT !.cue = requested.cue]
      BY <1>1, <2>1 DEF LoadCue, Workers
    <3>2. worker.score \in Scores
      BY <1>1 DEF Workers
    <3>3. worker'.score.token = worker.score.token /\ UNCHANGED <<requested, prepared>>
      BY <2>1, <3>1, <3>2 DEF LoadCue, Scores
    <3>4. QED
      BY <1>1, <3>3
  <2>2. CASE BeginRender
    <3>1. worker'.score = worker.score /\ UNCHANGED <<requested, prepared>>
      BY <1>1, <2>2 DEF BeginRender, Workers
    <3>2. QED
      BY <1>1, <3>1
  <2>3. QED
    BY <1>7, <2>1, <2>2
<1>8. CASE WakeUp \/ EndRender \/ StillWanted
  <2>1. \E step \in WorkerSteps : WorkerAt(step)
    BY <1>8 DEF WakeUp, EndRender, StillWanted, WorkerSteps, Loaded
  <2>2. worker'.score.token \in {0, worker.score.token}
    BY <1>1, <2>1, WorkerMoves
  <2>3. UNCHANGED <<requested, prepared>>
    BY <1>8 DEF WakeUp, EndRender, StillWanted
  <2>4. QED
    BY <1>1, <2>2, <2>3
<1>9. CASE PublishCue \/ PublishBuffer \/ PublishToken
  <2>1. \E step \in WorkerSteps : WorkerAt(step)
    BY <1>9 DEF PublishCue, PublishBuffer, PublishToken, WorkerSteps, Loaded
  <2>2. worker'.score.token \in {0, worker.score.token}
    BY <1>1, <2>1, WorkerMoves
  <2>3. UNCHANGED requested /\ prepared'.token \in {prepared.token, worker.score.token}
    BY <1>1, <1>9 DEF PublishCue, PublishBuffer, PublishToken
  <2>4. QED
    BY <1>1, <2>2, <2>3
<1>10. CASE UNCHANGED <<requested, notified, prepared, worker>>
  BY <1>1, <1>10
<1>11. QED
  BY <1>2, <1>3, <1>4, <1>5, <1>6, <1>7, <1>8, <1>9, <1>10, SynthKept DEF WorkerStep

LEMMA QueueSoundNext ==
  ASSUME AudioTypeOK, QueueSound, [AudioNext]_audio
  PROVE  QueueSound'
<1> DEFINE Known(q, n) ==
      /\ \A i \in DOMAIN q : q[i].token \in 1..n
      /\ \A i, j \in DOMAIN q : q[i].slot = q[j].slot \/ q[i].token = q[j].token => i = j
<1>1. count \in Nat /\ Known(backlog, count)
  BY DEF AudioTypeOK, EventsTyped, QueueSound
<1>2. ASSUME NEW slot \in Chats, NEW cue \in Cues, Announce(slot, cue)
      PROVE  Known(backlog', count') /\ count' >= count
  <2>1. PICK k \in DOMAIN backlog' :
          /\ backlog'[k].slot = slot /\ backlog'[k].token = count + 1
          /\ \A m \in DOMAIN backlog' : m # k =>
               m \in DOMAIN backlog /\ backlog'[m] = backlog[m] /\ backlog[m].slot # slot
    BY <1>2, AnnounceFacts
  <2>2. count' = count + 1
    BY <1>2, AnnounceFacts
  <2>3. QED
    BY <1>1, <2>1, <2>2
<1>3. ASSUME NEW i \in DOMAIN backlog, DebounceEnds(i)
      PROVE  Known(backlog', count') /\ count' >= count
  BY <1>1, <1>3, RipenFacts
<1>4. ASSUME Reset PROVE Known(backlog', count') /\ count' >= count
  BY <1>1, <1>4, NoEvents DEF Reset
<1>5. ASSUME Take PROVE Known(backlog', count') /\ count' >= count
  <2>1. PICK i \in DOMAIN backlog : backlog' = RemoveAt(backlog, i)
    BY <1>5 DEF Take, Candidates
  <2> DEFINE f(m) == IF m < i THEN m ELSE m + 1
  <2>2. \A m \in DOMAIN backlog' : f(m) \in DOMAIN backlog /\ backlog'[m] = backlog[f(m)]
          /\ m \in Nat
    BY <2>1, TakenFacts
  <2>3. i \in Nat
    BY AudioQueue
  <2>4. \A m, n \in Nat : f(m) = f(n) => m = n
    BY <2>3
  <2> HIDE DEF f
  <2>5. count' = count
    BY <1>5 DEF Take
  <2>6. QED
    BY <1>1, <2>2, <2>4, <2>5
<1>6. ASSUME UNCHANGED events PROVE Known(backlog', count') /\ count' >= count
  BY <1>1, <1>6 DEF events
<1>7. Known(backlog', count') /\ count' >= count
  BY <1>2, <1>3, <1>4, <1>5, <1>6, QueueKept
<1>8. TokensKnown'
  BY <1>7, TokensNext
<1>9. QED
  BY <1>7, <1>8 DEF QueueSound, TokensKnown

-----------------------------------------------------------------------------
\* What each step of the worker makes of its record and of what is prepared.
LEMMA WorkerFields ==
  ASSUME AudioTypeOK
  PROVE  /\ WakeUp => worker.at = "wait" /\ worker'.at = "token" /\ worker'.score = worker.score
                      /\ worker'.target = worker.target /\ worker'.clash = worker.clash
         /\ LoadToken => \/ requested.token = 0 /\ worker' = Waiting
                         \/ /\ requested.token # 0 /\ worker'.at = "cue"
                            /\ worker'.score.token = requested.token
                            /\ worker'.clash = worker.clash
         /\ LoadCue => /\ worker'.at = "target" /\ worker'.score.token = worker.score.token
                       /\ worker'.score.cue = requested.cue /\ worker'.clash = worker.clash
         /\ BeginRender => /\ worker'.at = "render" /\ worker'.score = worker.score
                           /\ worker'.target = Target(playing)
                           /\ worker'.clash = (at = "chime_reserve" /\ Target(playing) = 0)
         /\ PublishCue => /\ prepared'.cue = worker.score.cue /\ prepared'.token = prepared.token
                          /\ prepared'.buffer = prepared.buffer
         /\ PublishBuffer => /\ prepared'.buffer = worker.target /\ prepared'.token = prepared.token
                             /\ prepared'.cue = prepared.cue
         /\ PublishToken => /\ prepared'.token = worker.score.token /\ prepared'.cue = prepared.cue
                            /\ prepared'.buffer = prepared.buffer
<1>1. /\ worker \in Workers /\ worker.score \in Scores
      /\ prepared \in [token : Nat, cue : AudioCues, buffer : {-1, 0, 1}]
  BY DEF AudioTypeOK, SynthTyped, Workers
<1>2. ASSUME WakeUp
      PROVE  /\ worker.at = "wait" /\ worker'.at = "token" /\ worker'.score = worker.score
             /\ worker'.target = worker.target /\ worker'.clash = worker.clash
  BY <1>1, <1>2, WorkerMoves DEF WakeUp, WorkerSteps
<1>3. ASSUME LoadToken
      PROVE  \/ requested.token = 0 /\ worker' = Waiting
             \/ /\ requested.token # 0 /\ worker'.at = "cue"
                /\ worker'.score.token = requested.token /\ worker'.clash = worker.clash
  <2>1. [worker.score EXCEPT !.token = requested.token].token = requested.token
    BY <1>1 DEF Scores
  <2>2. QED
    BY <1>1, <1>3, <2>1 DEF LoadToken, Workers
<1>4. ASSUME LoadCue
      PROVE  /\ worker'.at = "target" /\ worker'.score.token = worker.score.token
             /\ worker'.score.cue = requested.cue /\ worker'.clash = worker.clash
  <2>1. /\ [worker.score EXCEPT !.cue = requested.cue].cue = requested.cue
        /\ [worker.score EXCEPT !.cue = requested.cue].token = worker.score.token
    BY <1>1 DEF Scores
  <2>2. QED
    BY <1>1, <1>4, <2>1 DEF LoadCue, Workers
<1>5. ASSUME BeginRender
      PROVE  /\ worker'.at = "render" /\ worker'.score = worker.score
             /\ worker'.target = Target(playing)
             /\ worker'.clash = (at = "chime_reserve" /\ Target(playing) = 0)
  BY <1>1, <1>5 DEF BeginRender, Workers
<1>6. /\ PublishCue => /\ prepared'.cue = worker.score.cue /\ prepared'.token = prepared.token
                       /\ prepared'.buffer = prepared.buffer
      /\ PublishBuffer => /\ prepared'.buffer = worker.target /\ prepared'.token = prepared.token
                          /\ prepared'.cue = prepared.cue
      /\ PublishToken => /\ prepared'.token = worker.score.token /\ prepared'.cue = prepared.cue
                         /\ prepared'.buffer = prepared.buffer
  BY <1>1 DEF PublishCue, PublishBuffer, PublishToken
<1>7. QED
  BY <1>2, <1>3, <1>4, <1>5, <1>6

LEMMA SameScore ==
  ASSUME NEW s \in Scores, NEW t \in Scores, s.token = t.token, s.cue = t.cue
  PROVE  s = t
  BY DEF Scores

\* Only a request brings the main task to the stores of a request and to the notification.
Asking == at \in {"request_token", "notify"}

LEMMA AskingKept ==
  ASSUME [AudioNext]_audio
  PROVE  \/ RequestCue \/ RequestToken \/ RequestNotify
         \/ /\ Asking' = Asking /\ (at' = "notify") = (at = "notify")
            /\ (at' = "request_token") = (at = "request_token")
            /\ requested' = requested
<1> DEFINE Elsewhere == at \notin {"request_token", "notify"}
             /\ at' \notin {"request_token", "notify"}
<1>1. \/ RequestCue \/ RequestToken \/ RequestNotify
      \/ at' = at /\ requested' = requested
      \/ Elsewhere /\ requested' = requested
  <2>1. WorkerStep \/ Time \/ UNCHANGED audio => at' = at /\ requested' = requested
    BY WorkerLeaves, TimeLeaves DEF audio
  <2>2. MainLoop => (at' = at \/ Elsewhere) /\ requested' = requested
    BY DEF MainLoop, Announce, Mute, Turn, Reset, ChimeRender
  <2>3. FrameStep => \/ RequestCue \/ RequestToken \/ RequestNotify
                     \/ Elsewhere /\ requested' = requested
    BY DEF FrameStep, Frame, NoRequest, Take, Arm, Age, NothingToPlay, PlayMuted, Due,
           PlayRefused, Play, Disarm, MarkPlaying, ChimeReserve, ChimePlay
  <2>4. QED
    BY <2>1, <2>2, <2>3 DEF AudioNext
<1>2. CASE at' = at /\ requested' = requested
  BY <1>2 DEF Asking
<1>3. CASE Elsewhere /\ requested' = requested
  BY <1>3 DEF Asking
<1>4. QED
  BY <1>1, <1>2, <1>3

LEMMA WorkerSoundNext ==
  ASSUME AudioTypeOK, QueueSound, WorkerSound, [AudioNext]_audio
  PROVE  WorkerSound'
<1> USE WaitingFacts DEF WorkerSound, Asking
<1>1. /\ worker \in Workers /\ requested \in Scores /\ worker.score \in Scores
      /\ prepared \in [token : Nat, cue : AudioCues, buffer : {-1, 0, 1}]
      /\ requested' \in Scores /\ worker'.score \in Scores
      /\ requested.token \in Nat /\ worker.score.token \in Nat
  BY SynthTypedNext DEF AudioTypeOK, SynthTyped, Workers, Scores
<1>2. CASE RequestCue
  <2>1. requested'.token = requested.token
    BY <1>1, <1>2 DEF RequestCue, Scores
  <2>2. QED
    BY <1>1, <1>2, <2>1 DEF RequestCue, synth
<1>3. CASE RequestToken
  <2>1. PICK i \in DOMAIN backlog : requested' = [requested EXCEPT !.token = backlog[i].token]
    BY <1>3 DEF RequestToken, Candidates
  <2>2. requested'.token = backlog[i].token /\ backlog[i].token \in 1..count
    BY <1>1, <2>1 DEF Scores, QueueSound
  <2>3. requested'.token > 0
    BY <2>2 DEF AudioTypeOK, EventsTyped
  <2>4. QED
    BY <1>1, <1>3, <2>3 DEF RequestToken, synth
<1>4. CASE RequestNotify
  BY <1>1, <1>4 DEF RequestNotify, Notify
<1>5. ASSUME \/ (at' = "notify") = (at = "notify") /\ Asking' = Asking /\ requested' = requested
      PROVE  WorkerSound'
  <2> USE <1>5
  <2>1. CASE ChimeRender
    <3>1. /\ worker'.at = worker.at /\ worker'.score = worker.score
          /\ worker'.target = worker.target /\ worker' \in Workers
          /\ worker.at = "wait" => worker'.clash = FALSE
      BY <1>1, <2>1 DEF ChimeRender, Workers
    <3>2. worker'.at = "wait" => worker' = Waiting
      BY <3>1 DEF Workers, Waiting
    <3>3. UNCHANGED <<notified, prepared>>
      BY <2>1 DEF ChimeRender
    <3>4. QED
      BY <1>1, <3>1, <3>2, <3>3
  <2>2. CASE WakeUp
    <3>1. worker'.at = "token" /\ worker'.score = Silence
      BY <2>2, WorkerFields
    <3>2. QED
      BY <1>1, <2>2, <3>1 DEF WakeUp, Loaded
  <2>3. CASE LoadToken
    <3>1. CASE worker' = Waiting
      BY <1>1, <2>3, <3>1 DEF LoadToken, Loaded
    <3>2. CASE worker'.at = "cue" /\ worker'.score.token = requested.token
      BY <1>1, <2>3, <3>2 DEF LoadToken, Loaded
    <3>3. QED
      BY <2>3, <3>1, <3>2, WorkerFields
  <2>4. CASE LoadCue
    <3>1. /\ worker.at = "cue" /\ worker'.at = "target" /\ worker'.score.token = worker.score.token
          /\ worker'.score.cue = requested.cue /\ UNCHANGED <<notified, prepared>>
      BY <2>4, WorkerFields DEF LoadCue
    <3>2. ~notified /\ ~Asking => worker'.score = requested
      BY <1>1, <3>1, SameScore
    <3>3. QED
      BY <1>1, <3>1, <3>2 DEF Loaded
  <2>5. CASE BeginRender
    <3>1. /\ worker.at = "target" /\ worker'.at = "render" /\ worker'.score = worker.score
          /\ UNCHANGED <<notified, prepared>>
      BY <2>5, WorkerFields DEF BeginRender
    <3>2. QED
      BY <1>1, <3>1 DEF Loaded
  <2>6. ASSUME NEW step \in Rendered \cup {"wait"}, WorkerAt(step), worker.at \in Loaded,
               UNCHANGED <<notified, prepared>>, step \notin {"publish_buffer", "publish_token"}
        PROVE  WorkerSound'
    <3>1. /\ worker'.at = step
          /\ step = "wait" => worker' = Waiting
          /\ step # "wait" => worker'.score = worker.score
      <4>1. step \in WorkerSteps
        BY DEF Rendered, WorkerSteps, Loaded
      <4>2. QED
        BY <1>1, <2>6, <4>1, WorkerMoves
    <3>2. QED
      BY <1>1, <2>6, <3>1 DEF Rendered, Loaded
  <2>7. CASE EndRender
    BY <2>6, <2>7 DEF EndRender, Rendered, Loaded
  <2>8. CASE StillWanted
    BY <2>6, <2>8 DEF StillWanted, Rendered, Loaded
  <2>9. CASE PublishCue
    <3>1. /\ worker'.at = "publish_buffer" /\ worker'.score = worker.score
          /\ prepared'.cue = worker.score.cue
      BY <1>1, <2>9, WorkerFields, WorkerMoves DEF PublishCue, WorkerSteps, Loaded
    <3>2. QED
      BY <1>1, <2>9, <3>1 DEF PublishCue, Loaded
  <2>10. CASE PublishBuffer
    <3>1. /\ worker'.at = "publish_token" /\ worker'.score = worker.score
          /\ worker'.target = worker.target
          /\ prepared'.cue = prepared.cue /\ prepared'.buffer = worker.target
      BY <1>1, <2>10, WorkerFields, WorkerMoves DEF PublishBuffer, WorkerSteps, Loaded
    <3>2. QED
      BY <1>1, <2>10, <3>1 DEF PublishBuffer, Loaded
  <2>11. CASE PublishToken
    <3>1. worker' = Waiting
      BY <1>1, <2>11, WorkerMoves DEF PublishToken, WorkerSteps, Loaded
    <3>2. QED
      BY <1>1, <2>11, <3>1 DEF PublishToken, Loaded
  <2>12. CASE UNCHANGED <<requested, notified, prepared, worker>>
    BY <2>12
  <2>13. QED
    BY <2>1, <2>2, <2>3, <2>4, <2>5, <2>7, <2>8, <2>9, <2>10, <2>11, <2>12,
       <1>2, <1>3, <1>4, SynthKept DEF WorkerStep
<1>6. QED
  BY <1>2, <1>3, <1>4, <1>5, AskingKept

-----------------------------------------------------------------------------
\* Who may disturb what is said of the buffers, of the armed score and of the speaker.
LEMMA BufferSteps ==
  ASSUME [AudioNext]_audio
  PROVE  \/ ChimeRender \/ ChimeReserve \/ RequestToken \/ RequestNotify \/ WorkerStep
         \/ /\ UNCHANGED <<notified, prepared, worker, pcm, rehearsed>>
            /\ at' \in {"chime_reserve", "chime_play"} => UNCHANGED <<at, overtaken, speaker>>
            /\ at' \notin {"request_token", "notify"} => at \notin {"request_token", "notify"}
<1> DEFINE Rest ==
      /\ UNCHANGED <<notified, prepared, worker, pcm, rehearsed>>
      /\ at' \in {"chime_reserve", "chime_play"} => UNCHANGED <<at, overtaken, speaker>>
      /\ at' \notin {"request_token", "notify"} => at \notin {"request_token", "notify"}
<1> USE DEF synth, sound, taint
<1>1. UNCHANGED audio => Rest
  BY DEF audio
<1>2. Time => Rest
  BY DEF Time, SpeakerEnds, DebounceEnds
<1>3. MainLoop => ChimeRender \/ Rest
  BY DEF MainLoop, Announce, Mute, Turn, Reset
<1>4. FrameStep => ChimeReserve \/ RequestToken \/ RequestNotify \/ Rest
  BY DEF FrameStep, Frame, RequestCue, NoRequest, Take, Arm, Age, NothingToPlay, PlayMuted, Due,
         PlayRefused, Play, Disarm, MarkPlaying, ChimePlay
<1> HIDE DEF Rest
<1>5. ChimeRender \/ ChimeReserve \/ RequestToken \/ RequestNotify \/ WorkerStep \/ Rest
  BY <1>1, <1>2, <1>3, <1>4 DEF AudioNext
<1>6. QED
  BY <1>5 DEF Rest

LEMMA ArmSteps ==
  ASSUME AudioTypeOK, [AudioNext]_audio
  PROVE  \/ ChimeRender \/ ChimeReserve \/ ChimePlay \/ RequestToken \/ RequestNotify \/ Arm
         \/ WorkerStep
         \/ /\ UNCHANGED <<notified, worker, pcm, overtaken>>
            /\ at' = "notify" => at = "notify"
            /\ pending' /\ at' \notin {"arm", "mark"} =>
                 /\ pending /\ at \notin {"arm", "mark"} /\ armed' = armed
                 /\ panel'.token = panel.token /\ panel'.cue = panel.cue
<1> DEFINE Rest ==
      /\ UNCHANGED <<notified, worker, pcm, overtaken>>
      /\ at' = "notify" => at = "notify"
      /\ pending' /\ at' \notin {"arm", "mark"} =>
           /\ pending /\ at \notin {"arm", "mark"} /\ armed' = armed
           /\ panel'.token = panel.token /\ panel'.cue = panel.cue
<1> USE DEF synth, sound, taint, shown
<1>1. UNCHANGED audio => Rest
  BY DEF audio
<1>2. Time => Rest
  BY DEF Time, SpeakerEnds, DebounceEnds
<1>3. MainLoop => ChimeRender \/ Rest
  <2>1. Reset => Rest
    BY DEF Reset
  <2>2. Mute \/ (\E p \in {"deck", "other"} : Turn(p)) => Rest
    BY DEF Mute, Turn
  <2>3. ASSUME NEW slot \in Chats, NEW cue \in Cues, Announce(slot, cue) PROVE Rest
    BY <2>3 DEF Announce
  <2> HIDE DEF Rest
  <2>4. QED
    BY <2>1, <2>2, <2>3 DEF MainLoop
<1>4. ASSUME Age PROVE Rest
  <2>1. panel'.token = panel.token /\ panel'.cue = panel.cue
    BY <1>4 DEF Age, AudioTypeOK, SurfaceTyped
  <2>2. QED
    BY <1>4, <2>1 DEF Age
<1>5. FrameStep => ChimeReserve \/ ChimePlay \/ RequestToken \/ RequestNotify \/ Arm \/ Age \/ Rest
  BY DEF FrameStep, Frame, RequestCue, NoRequest, Take, NothingToPlay, PlayMuted, Due,
         PlayRefused, Kept, Play, Disarm, MarkPlaying
<1> HIDE DEF Rest
<1>6. \/ ChimeRender \/ ChimeReserve \/ ChimePlay \/ RequestToken \/ RequestNotify \/ Arm
      \/ WorkerStep
      \/ Rest
  BY <1>1, <1>2, <1>3, <1>4, <1>5 DEF AudioNext
<1>7. QED
  BY <1>6 DEF Rest

LEMMA SpeakerSteps ==
  ASSUME [AudioNext]_audio
  PROVE  \/ ChimeRender \/ ChimeReserve \/ ChimePlay \/ SpeakerEnds \/ Play \/ MarkPlaying
         \/ WorkerStep
         \/ /\ UNCHANGED <<worker, pcm, speaker, playing>>
            /\ at' \in {"disarm", "mark"} => at \in {"disarm", "mark"} /\ overtaken' = overtaken
            /\ at' \notin {"disarm", "mark"} => at \notin {"disarm", "mark"}
<1> DEFINE Rest ==
      /\ UNCHANGED <<worker, pcm, speaker, playing>>
      /\ at' \in {"disarm", "mark"} => at \in {"disarm", "mark"} /\ overtaken' = overtaken
      /\ at' \notin {"disarm", "mark"} => at \notin {"disarm", "mark"}
<1> USE DEF synth, sound, taint
<1>1. UNCHANGED audio => Rest
  BY DEF audio
<1>2. Time => SpeakerEnds \/ Rest
  BY DEF Time, DebounceEnds
<1>3. MainLoop => ChimeRender \/ Rest
  BY DEF MainLoop, Announce, Mute, Turn, Reset
<1>4. FrameStep => ChimeReserve \/ ChimePlay \/ Play \/ MarkPlaying \/ Rest
  BY DEF FrameStep, Frame, RequestCue, RequestToken, RequestNotify, NoRequest, Take, Arm, Age,
         NothingToPlay, PlayMuted, Due, PlayRefused, Disarm
<1> HIDE DEF Rest
<1>5. \/ ChimeRender \/ ChimeReserve \/ ChimePlay \/ SpeakerEnds \/ Play \/ MarkPlaying
      \/ WorkerStep
      \/ Rest
  BY <1>1, <1>2, <1>3, <1>4 DEF AudioNext
<1>6. QED
  BY <1>5 DEF Rest

LEMMA BufferSoundNext ==
  ASSUME AudioTypeOK, WorkerSound, BufferSound, [AudioNext]_audio
  PROVE  BufferSound'
<1> USE WaitingFacts DEF BufferSound, Resting
<1>1. /\ worker \in Workers /\ requested \in Scores /\ worker.score \in Scores
      /\ prepared \in [token : Nat, cue : AudioCues, buffer : {-1, 0, 1}]
      /\ pcm \in [{0, 1} -> Scores] /\ worker.target \in {0, 1}
  BY DEF AudioTypeOK, SynthTyped, BuffersTyped, Workers
<1>2. CASE ChimeRender
  BY <1>2 DEF ChimeRender
<1>3. CASE ChimeReserve
  BY <1>3 DEF ChimeReserve, taint
<1>4. CASE RequestToken
  <2>1. worker.at = "wait" => ~worker.clash
    BY DEF WorkerSound
  <2>2. /\ UNCHANGED <<notified, prepared, worker, pcm>> /\ at' = "notify"
        /\ rehearsed' = (rehearsed /\ ~Resting)
    BY <1>4 DEF RequestToken, synth
  <2>3. QED
    BY <2>1, <2>2, Zenon DEF Rendered
<1>5. CASE RequestNotify
  BY <1>5 DEF RequestNotify, Notify, taint
<1>6. CASE WakeUp
  <2>1. worker'.at = "token" /\ worker'.clash = worker.clash
    BY <1>6, WorkerFields
  <2>2. QED
    BY <1>6, <2>1 DEF WakeUp, Rendered, sound, taint
<1>7. CASE LoadToken
  <2>1. worker'.at = "cue" /\ worker'.clash = worker.clash
    BY <1>7, WorkerFields DEF LoadToken, WorkerSound
  <2>2. QED
    BY <1>7, <2>1 DEF LoadToken, Rendered, sound, taint
<1>8. CASE LoadCue
  <2>1. worker'.at = "target" /\ worker'.clash = worker.clash
    BY <1>8, WorkerFields
  <2>2. QED
    BY <1>8, <2>1 DEF LoadCue, Rendered, sound, taint
<1>9. CASE BeginRender
  <2>1. worker'.at = "render" /\ (worker'.clash => at = "chime_reserve")
    BY <1>9, WorkerFields
  <2>2. QED
    BY <1>9, <2>1 DEF BeginRender, Rendered, sound, taint
<1>10. CASE EndRender
  <2>1. /\ worker'.at = "check" /\ worker'.clash = worker.clash /\ worker'.target = worker.target
        /\ worker'.score = worker.score
    BY <1>1, <1>10, WorkerMoves DEF EndRender, WorkerSteps, Loaded
  <2>2. ~rehearsed => pcm'[worker.target] = worker.score
    BY <1>1, <1>10 DEF EndRender
  <2>3. QED
    BY <1>10, <2>1, <2>2 DEF EndRender, sound, taint
<1>11. CASE StillWanted
  <2>1. CASE requested = worker.score
    <3>1. /\ worker'.at = "publish_cue" /\ worker'.clash = worker.clash
          /\ worker'.target = worker.target
          /\ worker'.score = worker.score
      BY <1>1, <1>11, <2>1, WorkerMoves DEF StillWanted, WorkerSteps, Loaded
    <3>2. QED
      BY <1>11, <3>1 DEF StillWanted, Rendered, sound, taint
  <2>2. CASE requested # worker.score
    <3>1. worker' = Waiting
      BY <1>1, <1>11, <2>2, WorkerMoves DEF StillWanted, WorkerSteps, Loaded
    <3>2. notified \/ at \in {"request_token", "notify"}
      BY <1>11, <2>2 DEF StillWanted, WorkerSound, Loaded
    <3>3. QED
      BY <1>11, <3>1, <3>2 DEF StillWanted, Rendered, sound, taint
  <2>3. QED
    BY <2>1, <2>2
<1>12. CASE PublishCue \/ PublishBuffer
  <2>1. /\ worker'.at \in {"publish_buffer", "publish_token"} /\ worker'.clash = worker.clash
        /\ worker'.target = worker.target /\ worker'.score = worker.score
    BY <1>1, <1>12, WorkerMoves DEF PublishCue, PublishBuffer, WorkerSteps, Loaded
  <2>2. QED
    BY <1>12, <2>1 DEF PublishCue, PublishBuffer, Rendered, sound, taint
<1>13. CASE PublishToken
  <2>1. worker' = Waiting
    BY <1>1, <1>13, WorkerMoves DEF PublishToken, WorkerSteps, Loaded
  <2>2. /\ prepared'.token = worker.score.token /\ prepared'.cue = worker.score.cue
        /\ prepared'.buffer = worker.target
    BY <1>13, WorkerFields DEF PublishToken, WorkerSound
  <2>3. Score(worker.score.token, worker.score.cue) = worker.score
    BY <1>1 DEF Score, Scores
  <2>4. ~rehearsed => pcm[worker.target] = worker.score
    BY <1>13 DEF PublishToken, Rendered
  <2>5. QED
    BY <1>13, <2>1, <2>2, <2>3, <2>4 DEF PublishToken, Rendered, sound, taint
<1>14. ASSUME /\ UNCHANGED <<notified, prepared, worker, pcm, rehearsed>>
              /\ at' \in {"chime_reserve", "chime_play"} => UNCHANGED <<at, overtaken, speaker>>
              /\ at' \notin {"request_token", "notify"} => at \notin {"request_token", "notify"}
       PROVE  BufferSound'
  BY <1>14
<1>15. QED
  BY <1>2, <1>3, <1>4, <1>5, <1>6, <1>7, <1>8, <1>9, <1>10, <1>11, <1>12, <1>13, <1>14,
     BufferSteps
  DEF WorkerStep

\* A worker at rest takes no step until it is notified.
LEMMA RestingStays == Resting => ~WorkerStep
  BY DEF Resting, WorkerStep, WakeUp, LoadToken, LoadCue, BeginRender, EndRender, StillWanted,
         PublishCue, PublishBuffer, PublishToken

LEMMA ArmSoundNext ==
  ASSUME AudioTypeOK, BufferSound, ArmSound, [AudioNext]_audio
  PROVE  ArmSound'
<1> USE DEF ArmSound
<1>1. CASE ChimeRender
  BY <1>1 DEF ChimeRender
<1>2. CASE ChimeReserve \/ ChimePlay
  BY <1>2 DEF ChimeReserve, ChimePlay, BufferSound, taint
<1>3. CASE RequestToken
  BY <1>3 DEF RequestToken
<1>4. CASE RequestNotify
  BY <1>4 DEF RequestNotify, taint
<1>5. CASE Arm
  <2>1. /\ UNCHANGED <<notified, worker, prepared, pcm, panel, rehearsed>>
        /\ overtaken' = (rehearsed \/ ~Resting) /\ at = "arm" /\ at' = "play"
        /\ pending' = (~muted /\ Prepared(panel))
        /\ armed' = IF pending' THEN prepared.buffer ELSE armed
    BY <1>5 DEF Arm, synth, shown, PreparedBuffer
  <2>2. ~overtaken' => Resting'
    BY <2>1 DEF Resting
  <2>3. ASSUME pending', ~overtaken', armed' >= 0 PROVE pcm'[armed'] = Of(panel')
    <3>1. Resting /\ ~rehearsed /\ armed' = prepared.buffer
      BY <2>1, <2>3
    <3>2. /\ prepared.token = panel.token /\ prepared.cue = panel.cue /\ prepared.buffer >= 0
      BY <2>1, <2>3 DEF Prepared
    <3>3. pcm[prepared.buffer] = Score(prepared.token, prepared.cue)
      BY <2>1, <3>1, <3>2 DEF BufferSound
    <3>4. QED
      BY <2>1, <3>1, <3>2, <3>3 DEF Of
  <2>4. QED
    BY <2>1, <2>2, <2>3
<1>6. CASE WorkerStep
  <2>1. overtaken /\ UNCHANGED <<overtaken, at>>
    BY <1>6, RestingStays, WorkerLeaves DEF taint
  <2>2. QED
    BY <2>1
<1>7. ASSUME /\ UNCHANGED <<notified, worker, pcm, overtaken>>
             /\ at' = "notify" => at = "notify"
             /\ pending' /\ at' \notin {"arm", "mark"} =>
                  /\ pending /\ at \notin {"arm", "mark"} /\ armed' = armed
                  /\ panel'.token = panel.token /\ panel'.cue = panel.cue
      PROVE  ArmSound'
  BY <1>7 DEF Resting, Of, Score
<1>8. QED
  BY <1>1, <1>2, <1>3, <1>4, <1>5, <1>6, <1>7, ArmSteps

LEMMA SpeakerSoundNext ==
  ASSUME AudioTypeOK, BufferSound, ArmSound, SpeakerSound, [AudioNext]_audio
  PROVE  SpeakerSound'
<1> USE DEF SpeakerSound
<1>1. /\ worker \in Workers /\ pcm \in [{0, 1} -> Scores] /\ worker.target \in {0, 1}
      /\ playing \in {-1, 0, 1} /\ armed \in {-1, 0, 1}
      /\ speaker \in [buffer : {-1, 0, 1}, score : Scores, overtaken : BOOLEAN]
  BY DEF AudioTypeOK, SynthTyped, BuffersTyped, Workers
<1>2. CASE ChimeRender \/ SpeakerEnds
  BY <1>2 DEF ChimeRender, SpeakerEnds
<1>3. CASE ChimeReserve
  BY <1>3 DEF ChimeReserve, BufferSound
<1>4. CASE ChimePlay
  BY <1>4 DEF ChimePlay
<1>5. CASE Play
  <2>1. /\ at = "play" /\ pending /\ at' = "disarm" /\ UNCHANGED <<pcm, overtaken>>
        /\ speaker'.buffer = armed /\ speaker'.score = Of(panel) /\ speaker'.overtaken = overtaken
    BY <1>5 DEF Play, Due, synth, taint
  <2>2. ~overtaken /\ armed >= 0 => pcm[armed] = Of(panel)
    BY <2>1 DEF ArmSound
  <2>3. QED
    BY <2>1, <2>2
<1>6. CASE MarkPlaying
  <2>1. /\ at = "mark" /\ at' = "idle" /\ UNCHANGED <<pcm, worker, speaker>>
        /\ playing' = speaker.buffer
    BY <1>6 DEF MarkPlaying, synth
  <2>2. ~overtaken => worker.at = "wait"
    BY DEF ArmSound, Resting
  <2>3. QED
    BY <2>1, <2>2
<1>7. ASSUME WorkerStep PROVE SpeakerSound'
  <2>1. UNCHANGED <<at, playing, speaker, overtaken>> /\ overtaken
    BY <1>7, RestingStays, WorkerLeaves DEF sound, taint, ArmSound
  <2>2. CASE BeginRender
    <3>1. /\ worker'.target = Target(playing)
          /\ \A b \in {0, 1} : b # Target(playing) => pcm'[b] = pcm[b]
      BY <1>1, <2>2, WorkerFields DEF BeginRender
    <3>2. Target(playing) # playing
      BY <1>1 DEF Target
    <3>3. QED
      BY <1>1, <2>1, <3>1, <3>2
  <2>3. CASE EndRender
    <3>1. /\ worker.at = "render" /\ worker'.at = "check"
          /\ \A b \in {0, 1} : b # worker.target => pcm'[b] = pcm[b]
      BY <1>1, <2>3, WorkerMoves DEF EndRender, WorkerSteps, Loaded
    <3>2. QED
      BY <1>1, <2>1, <3>1
  <2>4. CASE ~BeginRender /\ ~EndRender
    <3>1. pcm' = pcm
      BY <1>7, <2>4
      DEF WorkerStep, WakeUp, LoadToken, LoadCue, StillWanted, PublishCue, PublishBuffer,
          PublishToken
    <3>2. worker'.at # "render"
      <4>1. (WakeUp \/ LoadToken \/ LoadCue) => worker'.at # "render"
        BY WorkerFields, WaitingFacts
      <4>2. (StillWanted \/ PublishCue \/ PublishBuffer \/ PublishToken) => worker'.at # "render"
        BY <1>1, WorkerMoves
        DEF StillWanted, PublishCue, PublishBuffer, PublishToken, WorkerSteps, Loaded
      <4>3. QED
        BY <1>7, <2>4, <4>1, <4>2 DEF WorkerStep
    <3>3. QED
      BY <2>1, <3>1, <3>2
  <2>5. QED
    BY <2>2, <2>3, <2>4
<1>8. ASSUME /\ UNCHANGED <<worker, pcm, speaker, playing>>
             /\ at' \in {"disarm", "mark"} => at \in {"disarm", "mark"} /\ overtaken' = overtaken
             /\ at' \notin {"disarm", "mark"} => at \notin {"disarm", "mark"}
      PROVE  SpeakerSound'
  BY <1>8
<1>9. QED
  BY <1>2, <1>3, <1>4, <1>5, <1>6, <1>7, <1>8, SpeakerSteps

-----------------------------------------------------------------------------
(* The invariant holds initially and through every step.                  *)

SoundInv ==
  /\ AudioTypeOK /\ QueueSound /\ WorkerSound
  /\ BufferSound /\ ArmSound /\ SpeakerSound

LEMMA InitSound == AudioInit => SoundInv
<1> SUFFICES ASSUME AudioInit PROVE SoundInv
  OBVIOUS
<1>1. backlog = <<>> /\ DOMAIN backlog = {}
  BY NoEvents DEF AudioInit
<1>2. QueueSound
  BY <1>1, ScoresTyped, WaitingFacts DEF AudioInit, QueueSound
<1>3. WorkerSound
  BY ScoresTyped, WaitingFacts DEF AudioInit, WorkerSound, Loaded
<1>4. BufferSound
  BY WaitingFacts DEF AudioInit, BufferSound, Rendered
<1>5. ArmSound
  BY WaitingFacts DEF AudioInit, ArmSound, Resting
<1>6. SpeakerSound
  BY WaitingFacts DEF AudioInit, SpeakerSound
<1>7. QED
  BY <1>2, <1>3, <1>4, <1>5, <1>6, AudioInitType DEF SoundInv

LEMMA SoundNext == SoundInv /\ [AudioNext]_audio => SoundInv'
  BY AudioTypeNext, QueueSoundNext, WorkerSoundNext, BufferSoundNext, ArmSoundNext,
     SpeakerSoundNext
  DEF SoundInv

LEMMA SoundInvariance == AudioSpec => []SoundInv
  BY InitSound, SoundNext, PTL DEF AudioSpec

\* The buffer the speaker reads holds the score it was started for until it ends, if no
\* other score was asked for since that one was armed: synth_task (audio.cpp:741-770)
\* renders into the buffer that does not play, whatever the two cores interleave.
THEOREM HeardWholeCorrect == AudioSpec => []HeardWhole
<1>1. SoundInv => HeardWhole
  BY DEF SoundInv, SpeakerSound, HeardWhole, Intact, AudioTypeOK, BuffersTyped
<1>2. QED
  BY <1>1, SoundInvariance, PTL

\* arm_status() (audio.cpp:959) finds the score of the takeover's own event in the buffer
\* it arms, if the worker rests: a request that replaced another one (request_status,
\* audio.cpp:940) never leaves the older PCM under the newer token.
THEOREM OwnScoreCorrect == AudioSpec => ArmsOwnScore
<1> DEFINE Step == Arm /\ pending' /\ Resting /\ ~rehearsed => pcm[armed'] = Of(panel)
<1>1. SoundInv /\ [AudioNext]_audio => [Step]_audio
  <2> SUFFICES ASSUME SoundInv, Arm, pending', Resting, ~rehearsed PROVE pcm[armed'] = Of(panel)
    OBVIOUS
  <2>1. armed' = prepared.buffer /\ Prepared(panel) /\ at = "arm"
    BY DEF Arm, PreparedBuffer
  <2>2. pcm[prepared.buffer] = Score(prepared.token, prepared.cue)
    BY <2>1 DEF SoundInv, BufferSound, Prepared
  <2>3. QED
    BY <2>1, <2>2 DEF Prepared, Of
<1>2. Step => (Arm /\ pending' /\ Resting /\ ~rehearsed => pcm[armed'] = Of(panel))
  OBVIOUS
<1> HIDE DEF Step
<1>3. QED
  BY <1>1, <1>2, SoundInvariance, PTL DEF AudioSpec, ArmsOwnScore

-----------------------------------------------------------------------------
\* What a step of the worker leaves of what is said of one event.
LEMMA FollowedWorker ==
  ASSUME AudioTypeOK, WorkerSound, WorkerStep,
         NEW t \in Nat, t > 0, NEW c,
         NEW e, e.token = t, e.cue = c, Of(e) \in Scores, Of(e).token = t, Of(e).cue = c,
         requested.token = t => requested = Of(e),
         Followed(e)
  PROVE  Followed(e)'
<1> USE WaitingFacts DEF Followed, InUse
<1>1. /\ worker \in Workers /\ worker.score \in Scores /\ worker'.score \in Scores
      /\ worker.target \in {0, 1} /\ worker.score.token \in Nat
  BY SynthTypedNext DEF AudioTypeOK, SynthTyped, Workers, Scores, AudioNext
<1>2. UNCHANGED requested
  BY WorkerLeaves
<1>3. CASE WakeUp
  <2>1. worker'.score = worker.score /\ worker.score.token = 0 /\ UNCHANGED prepared
    BY <1>3, WorkerFields DEF WakeUp, WorkerSound
  <2>2. QED
    BY <1>2, <2>1 DEF Prepared
<1>4. CASE LoadToken
  <2>1. worker'.at = "cue" /\ worker'.score.token = requested.token /\ UNCHANGED prepared
    BY <1>4, WorkerFields DEF LoadToken, WorkerSound
  <2>2. QED
    BY <1>2, <2>1 DEF Prepared
<1>5. CASE LoadCue
  <2>1. /\ worker'.score.token = worker.score.token /\ worker'.score.cue = requested.cue
        /\ UNCHANGED prepared
    BY <1>5, WorkerFields DEF LoadCue
  <2>2. ASSUME worker.score.token = t PROVE worker'.score = Of(e)
    BY <1>1, <2>1, <2>2, SameScore
  <2>3. QED
    BY <1>2, <2>1, <2>2 DEF Prepared
<1>6. CASE BeginRender
  <2>1. worker'.score = worker.score /\ worker.at # "cue" /\ UNCHANGED prepared
    BY <1>6, WorkerFields DEF BeginRender
  <2>2. QED
    BY <1>2, <2>1 DEF Prepared
<1>7. CASE EndRender \/ StillWanted
  <2>1. /\ worker'.score = worker.score \/ worker' = Waiting
        /\ worker.at # "cue" /\ UNCHANGED prepared
    BY <1>1, <1>7, WorkerMoves DEF EndRender, StillWanted, WorkerSteps, Loaded
  <2>2. QED
    BY <1>2, <2>1 DEF Prepared
<1>8. CASE PublishCue
  <2>1. worker'.score = worker.score /\ worker.at \notin {"cue", "wait", "token"}
    BY <1>1, <1>8, WorkerMoves DEF PublishCue, WorkerSteps, Loaded
  <2>2. /\ prepared'.cue = worker.score.cue /\ prepared'.token = prepared.token
        /\ prepared'.buffer = prepared.buffer
    BY <1>8, WorkerFields
  <2>3. worker.score.token > 0
    BY <2>1 DEF WorkerSound
  <2>4. prepared.token = t => worker.score = Of(e)
    BY <2>1, <2>3
  <2>5. QED
    BY <1>2, <2>1, <2>2, <2>4 DEF Prepared
<1>9. CASE PublishBuffer
  <2>1. worker'.score = worker.score /\ worker.at \notin {"cue", "wait", "token"}
    BY <1>1, <1>9, WorkerMoves DEF PublishBuffer, WorkerSteps, Loaded
  <2>2. /\ prepared'.cue = prepared.cue /\ prepared'.token = prepared.token
        /\ prepared'.buffer >= 0
    BY <1>1, <1>9, WorkerFields
  <2>3. QED
    BY <1>2, <2>1, <2>2 DEF Prepared
<1>10. CASE PublishToken
  <2>1. worker' = Waiting /\ worker.at = "publish_token"
    BY <1>1, <1>10, WorkerMoves DEF PublishToken, WorkerSteps, Loaded
  <2>2. /\ prepared'.token = worker.score.token /\ prepared'.cue = worker.score.cue
        /\ prepared'.buffer >= 0
    BY <1>1, <1>10, <2>1, WorkerFields DEF WorkerSound
  <2>3. QED
    BY <1>2, <2>1, <2>2 DEF Prepared
<1>11. QED
  BY <1>3, <1>4, <1>5, <1>6, <1>7, <1>8, <1>9, <1>10 DEF WorkerStep

\* The worker takes up no token but the one that is asked for.
LEMMA UntouchedWorker ==
  ASSUME AudioTypeOK, WorkerStep, NEW e, e.token # 0, Untouched(e)
  PROVE  Untouched(e)'
<1> USE WaitingFacts DEF Untouched, InUse
<1>1. worker \in Workers /\ UNCHANGED requested
  BY WorkerLeaves DEF AudioTypeOK, SynthTyped, Workers
<1>2. CASE WakeUp \/ LoadToken \/ LoadCue \/ BeginRender
  <2>1. worker'.score.token \in {0, requested.token, worker.score.token} /\ UNCHANGED prepared
    BY <1>2, WorkerFields DEF WakeUp, LoadToken, LoadCue, BeginRender
  <2>2. QED
    BY <1>1, <2>1
<1>3. CASE EndRender \/ StillWanted
  <2>1. worker'.score.token \in {0, worker.score.token} /\ UNCHANGED prepared
    BY <1>1, <1>3, WorkerMoves DEF EndRender, StillWanted, WorkerSteps, Loaded
  <2>2. QED
    BY <1>1, <2>1
<1>4. CASE PublishCue \/ PublishBuffer \/ PublishToken
  <2>1. worker'.score.token \in {0, worker.score.token}
    BY <1>1, <1>4, WorkerMoves DEF PublishCue, PublishBuffer, PublishToken, WorkerSteps, Loaded
  <2>2. prepared'.token \in {prepared.token, worker.score.token}
    BY <1>4, WorkerFields
  <2>3. QED
    BY <1>1, <2>1, <2>2
<1>5. QED
  BY <1>2, <1>3, <1>4 DEF WorkerStep

LEMMA EventFacts ==
  ASSUME AudioTypeOK, QueueSound, NEW i \in DOMAIN backlog
  PROVE  /\ backlog[i].token \in Nat /\ backlog[i].token > 0 /\ backlog[i].token <= count
         /\ backlog[i].cue \in Cues /\ backlog[i].slot \in Chats
         /\ Of(backlog[i]) \in Scores /\ Of(backlog[i]).token = backlog[i].token
         /\ Of(backlog[i]).cue = backlog[i].cue
         /\ requested.token = backlog[i].token /\ requested.cue = backlog[i].cue =>
              requested = Of(backlog[i])
<1>1. backlog[i] \in AudioEvents /\ backlog[i].token \in 1..count /\ count \in Nat
        /\ requested \in Scores
  BY AudioQueue DEF QueueSound, AudioTypeOK, EventsTyped, SynthTyped
<1>2. /\ Of(backlog[i]) \in Scores /\ Of(backlog[i]).token = backlog[i].token
      /\ Of(backlog[i]).cue = backlog[i].cue
  BY <1>1, ScoresTyped
<1>3. QED
  BY <1>1, <1>2, SameScore DEF AudioEvents

\* At most one event may take the panel next, and what is asked for is asked for it.
LEMMA OneMayTake ==
  ASSUME QueueSound, NEW i \in DOMAIN backlog, NEW j \in DOMAIN backlog, MayTake(i), MayTake(j)
  PROVE  i = j
  BY DEF QueueSound, MayTake

LEMMA CandidatesMayTake ==
  ASSUME NEW i \in Candidates
  PROVE  i \in DOMAIN backlog /\ MayTake(i)
  BY DEF Candidates, MayTake

\* Who may disturb what is said of the events and of the one that was taken.
LEMMA TurnSteps ==
  ASSUME AudioTypeOK, [AudioNext]_audio
  PROVE  \/ \E slot \in Chats, cue \in Cues : Announce(slot, cue)
         \/ \E i \in DOMAIN backlog : DebounceEnds(i)
         \/ Reset \/ Take \/ Age \/ Arm \/ RequestCue \/ RequestToken \/ WorkerStep
         \/ /\ UNCHANGED <<backlog, count, panel, requested, prepared, skipped>>
            /\ worker'.at = worker.at /\ worker'.score = worker.score
            /\ (at' = "request_token") = (at = "request_token")
            /\ at' = "arm" => at = "arm" /\ muted' = muted
<1> DEFINE Rest ==
      /\ UNCHANGED <<backlog, count, panel, requested, prepared, skipped>>
      /\ worker'.at = worker.at /\ worker'.score = worker.score
      /\ (at' = "request_token") = (at = "request_token")
      /\ at' = "arm" => at = "arm" /\ muted' = muted
<1> USE DEF synth, taint, shown, events
<1>1. UNCHANGED audio => Rest
  BY DEF audio
<1>2. Time => (\E i \in DOMAIN backlog : DebounceEnds(i)) \/ Rest
  BY DEF Time, SpeakerEnds
<1>3. MainLoop => (\E slot \in Chats, cue \in Cues : Announce(slot, cue)) \/ Reset \/ Rest
  <2>1. ASSUME ChimeRender PROVE Rest
    <3>1. worker'.at = worker.at /\ worker'.score = worker.score
      BY <2>1 DEF ChimeRender, AudioTypeOK, SynthTyped
    <3>2. QED
      BY <2>1, <3>1 DEF ChimeRender
  <2>2. Mute \/ (\E p \in {"deck", "other"} : Turn(p)) => Rest
    BY DEF Mute, Turn
  <2> HIDE DEF Rest
  <2>3. QED
    BY <2>1, <2>2 DEF MainLoop
<1>4. FrameStep => Take \/ Age \/ Arm \/ RequestCue \/ RequestToken \/ Rest
  BY DEF FrameStep, Frame, RequestNotify, NoRequest, NothingToPlay, PlayMuted, Due, PlayRefused,
         Kept, Play, Disarm, MarkPlaying, ChimeReserve, ChimePlay
<1> HIDE DEF Rest
<1>5. \/ \E slot \in Chats, cue \in Cues : Announce(slot, cue)
      \/ \E i \in DOMAIN backlog : DebounceEnds(i)
      \/ Reset \/ Take \/ Age \/ Arm \/ RequestCue \/ RequestToken \/ WorkerStep \/ Rest
  BY <1>1, <1>2, <1>3, <1>4 DEF AudioNext
<1>6. QED
  BY <1>5 DEF Rest

TurnInv == SoundInv /\ RequestSound /\ TurnSound /\ TakenSound

\* An event that is announced is of no concern to the cores yet.
LEMMA AnnounceTurn ==
  ASSUME TurnInv, NEW slot \in Chats, NEW cue \in Cues, Announce(slot, cue)
  PROVE  RequestSound' /\ TurnSound'
<1>1. AudioTypeOK /\ QueueSound /\ count \in Nat
  BY DEF TurnInv, SoundInv, AudioTypeOK, EventsTyped
<1>2. PICK k \in DOMAIN backlog' :
        /\ backlog'[k].slot = slot /\ backlog'[k].token = count + 1
        /\ \A m \in DOMAIN backlog' : m # k =>
             m \in DOMAIN backlog /\ backlog'[m] = backlog[m] /\ backlog[m].slot # slot
  BY <1>1, AnnounceFacts
<1>3. /\ at = "idle" /\ at' = "idle" /\ UNCHANGED <<panel, requested, prepared, worker, skipped>>
  BY DEF Announce, shown, synth, taint
<1>4. count + 1 \notin InUse \cup {requested.token}
  BY <1>1 DEF QueueSound, InUse
<1>5. RequestSound'
  <2> SUFFICES ASSUME NEW m \in DOMAIN backlog', requested.token = backlog'[m].token
               PROVE  requested.cue = backlog'[m].cue
    BY <1>3 DEF RequestSound
  <2>1. m # k
    BY <1>2, <1>4
  <2>2. QED
    BY <1>2, <1>3, <2>1 DEF TurnInv, RequestSound
<1>6. TurnSound'
  <2> SUFFICES ASSUME ~skipped, NEW m \in DOMAIN backlog', NEW e, e = backlog'[m]
               PROVE  /\ (IF panel.on THEN e.slot = panel.slot ELSE m = 1) => Followed(e)
                      /\ panel.on /\ e.slot # panel.slot => Untouched(e)
    BY <1>3 DEF TurnSound, MayTake, Followed, Untouched, InUse, Prepared
  <2>1. CASE m = k
    BY <1>2, <1>4, <2>1 DEF Followed, Untouched
  <2>2. CASE m # k
    BY <1>2, <2>2 DEF TurnInv, TurnSound, MayTake
  <2>3. QED
    BY <2>1, <2>2
<1>7. QED
  BY <1>5, <1>6

\* The event that is taken is the one the worker is done with: what waits behind it
\* is not in use.
LEMMA TakeTurn ==
  ASSUME TurnInv, Take
  PROVE  RequestSound' /\ TurnSound' /\ TakenSound'
<1>1. AudioTypeOK /\ QueueSound
  BY DEF TurnInv, SoundInv
<1>2. PICK i \in Candidates :
        /\ Startable(i) /\ backlog' = RemoveAt(backlog, i)
        /\ panel' = [slot |-> backlog[i].slot, token |-> backlog[i].token, cue |-> backlog[i].cue,
                     on |-> TRUE, drawn |-> FALSE]
  BY DEF Take
<1>3. i \in DOMAIN backlog /\ MayTake(i)
  BY CandidatesMayTake
<1>4. /\ at = "take" /\ at' = "arm" /\ UNCHANGED <<muted, requested, prepared, worker>>
      /\ skipped' = (skipped \/ muted)
  BY DEF Take, synth
<1>5. /\ panel'.on /\ panel'.slot = backlog[i].slot /\ panel'.token = backlog[i].token
      /\ panel'.cue = backlog[i].cue
  BY <1>2
<1>6. ASSUME NEW m \in DOMAIN backlog'
      PROVE  \E k \in DOMAIN backlog : k # i /\ backlog'[m] = backlog[k]
  BY <1>1, <1>2, <1>3, TakenFacts
<1>7. RequestSound'
  BY <1>4, <1>6 DEF TurnInv, RequestSound
<1>8. ASSUME ~skipped, ~muted
      PROVE  /\ requested = Of(backlog[i]) /\ Prepared(backlog[i]) /\ Followed(backlog[i])
             /\ prepared.token = backlog[i].token
             /\ worker.score.token \in {0, backlog[i].token}
  <2>1. Prepared(backlog[i])
    BY <1>2, <1>8 DEF Startable
  <2>2. Followed(backlog[i])
    BY <1>3, <1>8 DEF TurnInv, TurnSound
  <2>3. QED
    BY <2>1, <2>2 DEF Prepared, Followed, InUse
<1>9. TakenSound'
  <2> SUFFICES ASSUME ~skipped, ~muted
               PROVE  prepared.token = panel'.token /\ panel'.token > 0 /\ Followed(panel)'
    BY <1>4, Zenon DEF TakenSound
  <2>1. Followed(backlog[i])
    BY <1>8
  <2>2. Followed(panel)'
    BY <1>4, <1>5, <2>1 DEF Followed, InUse, Of, Prepared
  <2>3. backlog[i].token > 0
    BY <1>1, <1>3, EventFacts
  <2>4. QED
    BY <1>5, <1>8, <2>2, <2>3
<1>10. TurnSound'
  <2> SUFFICES ASSUME ~skipped, ~muted, NEW m \in DOMAIN backlog', NEW e, e = backlog'[m]
               PROVE  e.slot # backlog[i].slot /\ Untouched(e)
    BY <1>4, <1>5, Zenon DEF TurnSound, MayTake, Followed, Untouched, InUse, Prepared
  <2>1. PICK k \in DOMAIN backlog : k # i /\ e = backlog[k]
    BY <1>6
  <2>2. backlog[k].slot # backlog[i].slot /\ backlog[k].token # backlog[i].token
    BY <1>1, <1>3, <2>1 DEF QueueSound
  <2>3. backlog[k].token > 0 /\ backlog[k].token \in Nat
    BY <1>1, EventFacts
  <2>4. requested.token = backlog[i].token
    BY <1>1, <1>3, <1>8, EventFacts
  <2>5. QED
    BY <1>8, <2>1, <2>2, <2>3, <2>4 DEF Untouched, InUse
<1>11. QED
  BY <1>7, <1>9, <1>10

\* The end of a takeover lets the oldest event on the panel: either it was next before,
\* or no core has touched it.
LEMMA AgeTurn ==
  ASSUME TurnInv, Age
  PROVE  RequestSound' /\ TurnSound'
<1>1. /\ UNCHANGED <<backlog, requested, prepared, worker, skipped>> /\ at = "take" /\ at' = "play"
      /\ panel'.slot = panel.slot /\ (panel'.on => panel.on)
  BY DEF Age, events, synth, taint, TurnInv, SoundInv, AudioTypeOK, SurfaceTyped
<1>2. RequestSound'
  BY <1>1 DEF TurnInv, RequestSound
<1>3. TurnSound'
  <2> SUFFICES ASSUME ~skipped, NEW m \in DOMAIN backlog, NEW e, e = backlog[m]
               PROVE  /\ (IF panel'.on THEN e.slot = panel.slot ELSE m = 1) => Followed(e)
                      /\ panel'.on /\ e.slot # panel.slot => Untouched(e)
    BY <1>1 DEF TurnSound, MayTake, Followed, Untouched, InUse, Prepared
  <2>1. /\ (IF panel.on THEN e.slot = panel.slot ELSE m = 1) => Followed(e)
        /\ panel.on /\ e.slot # panel.slot => Untouched(e)
    BY DEF TurnInv, TurnSound, MayTake
  <2>2. Untouched(e) => Followed(e)
    BY DEF Untouched, Followed
  <2>3. QED
    BY <1>1, <2>1, <2>2
<1>4. QED
  BY <1>2, <1>3

\* An event that is asked for anew was not in use before.
LEMMA RequestTurn ==
  ASSUME TurnInv, RequestCue \/ RequestToken
  PROVE  RequestSound' /\ TurnSound'
<1>1. AudioTypeOK /\ QueueSound /\ requested \in Scores
  BY DEF TurnInv, SoundInv, AudioTypeOK, SynthTyped
<1>2. UNCHANGED <<backlog, panel, prepared, worker, skipped>>
  BY DEF RequestCue, RequestToken, events, shown, synth, taint
<1>3. \E i \in DOMAIN backlog :
        /\ MayTake(i) /\ requested.token # backlog[i].token
        /\ requested'.cue = backlog[i].cue
        /\ \/ at' = "request_token" /\ requested'.token = requested.token
           \/ at' = "notify" /\ requested'.token = backlog[i].token
  <2>1. CASE RequestCue
    <3>1. PICK i \in Candidates : Wanted(i)
            /\ requested' = [requested EXCEPT !.cue = backlog[i].cue]
      BY <2>1 DEF RequestCue
    <3>2. i \in DOMAIN backlog /\ MayTake(i)
      BY CandidatesMayTake
    <3>3. requested'.cue = backlog[i].cue /\ requested'.token = requested.token
      BY <1>1, <3>1 DEF Scores
    <3>4. at = "request" /\ at' = "request_token"
      BY <2>1 DEF RequestCue
    <3>5. requested.token # backlog[i].token
      BY <1>1, <3>1, <3>2, <3>4, EventFacts DEF TurnInv, RequestSound, Wanted
    <3>6. QED
      BY <3>2, <3>3, <3>4, <3>5
  <2>2. CASE RequestToken
    <3>1. PICK i \in Candidates : requested' = [requested EXCEPT !.token = backlog[i].token]
      BY <2>2 DEF RequestToken
    <3>2. i \in DOMAIN backlog /\ MayTake(i)
      BY CandidatesMayTake
    <3>3. requested'.cue = requested.cue /\ requested'.token = backlog[i].token
      BY <1>1, <3>1 DEF Scores
    <3>4. at = "request_token" /\ at' = "notify"
      BY <2>2 DEF RequestToken
    <3>5. PICK j \in DOMAIN backlog : /\ MayTake(j) /\ requested.cue = backlog[j].cue
                                      /\ requested.token # backlog[j].token
      BY <3>4 DEF TurnInv, RequestSound
    <3>6. i = j
      BY <1>1, <3>2, <3>5, OneMayTake
    <3>7. QED
      BY <3>2, <3>3, <3>4, <3>5, <3>6
  <2>3. QED
    BY <2>1, <2>2
<1>4. PICK i \in DOMAIN backlog :
        /\ MayTake(i) /\ requested.token # backlog[i].token
        /\ requested'.cue = backlog[i].cue
        /\ \/ at' = "request_token" /\ requested'.token = requested.token
           \/ at' = "notify" /\ requested'.token = backlog[i].token
  BY <1>3
<1>5. RequestSound'
  <2>1. CASE at' = "request_token" /\ requested'.token = requested.token
    BY <1>2, <1>4, <2>1 DEF RequestSound, MayTake
  <2>2. CASE at' = "notify" /\ requested'.token = backlog[i].token
    <3>1. \A m \in DOMAIN backlog : backlog[m].token = backlog[i].token => m = i
      BY <1>1 DEF QueueSound
    <3>2. QED
      BY <1>2, <1>4, <2>2, <3>1 DEF RequestSound
  <2>3. QED
    BY <1>4, <2>1, <2>2
<1>6. TurnSound'
  <2> SUFFICES ASSUME ~skipped, NEW m \in DOMAIN backlog, NEW e, e = backlog[m]
               PROVE  /\ MayTake(m) => Followed(e)'
                      /\ panel.on /\ e.slot # panel.slot => Untouched(e)'
    BY <1>2 DEF TurnSound, MayTake, Followed, Untouched, InUse, Prepared
  <2>1. InUse' = InUse
    BY <1>2 DEF InUse
  <2>2. ASSUME MayTake(m) PROVE Followed(e)'
    <3>1. m = i
      BY <1>1, <1>4, <2>2, OneMayTake
    <3>2. Followed(e)
      BY <2>2 DEF TurnInv, TurnSound
    <3>3. e.token \notin InUse
      BY <1>1, <1>4, <3>1, <3>2, EventFacts DEF Followed
    <3>4. QED
      BY <2>1, <3>3 DEF Followed
  <2>3. ASSUME panel.on, e.slot # panel.slot PROVE Untouched(e)'
    <3>1. Untouched(e)
      BY <2>3 DEF TurnInv, TurnSound
    <3>2. backlog[i].slot = panel.slot
      BY <1>4, <2>3 DEF MayTake
    <3>3. m # i
      BY <2>3, <3>2
    <3>4. e.token # backlog[i].token
      BY <1>1, <3>3 DEF QueueSound
    <3>5. requested'.token \in {requested.token, backlog[i].token}
      BY <1>4
    <3>6. QED
      BY <2>1, <3>1, <3>4, <3>5 DEF Untouched
  <2>4. QED
    BY <2>2, <2>3
<1>7. QED
  BY <1>5, <1>6

LEMMA WorkerTurn ==
  ASSUME TurnInv, WorkerStep
  PROVE  RequestSound' /\ TurnSound' /\ TakenSound'
<1>1. AudioTypeOK /\ QueueSound /\ WorkerSound
  BY DEF TurnInv, SoundInv
<1>2. UNCHANGED <<backlog, panel, at, muted, requested, skipped>>
  BY WorkerLeaves DEF events, shown, taint
<1>3. RequestSound'
  BY <1>2 DEF TurnInv, RequestSound, MayTake
<1>4. TurnSound'
  <2> SUFFICES ASSUME ~skipped, NEW m \in DOMAIN backlog, NEW e, e = backlog[m]
               PROVE  /\ MayTake(m) => Followed(e)'
                      /\ panel.on /\ e.slot # panel.slot => Untouched(e)'
    BY <1>2 DEF TurnSound, MayTake, Followed, Untouched, InUse, Prepared
  <2>1. /\ e.token \in Nat /\ e.token > 0 /\ Of(e) \in Scores /\ Of(e).token = e.token
        /\ Of(e).cue = e.cue
        /\ requested.token = e.token /\ requested.cue = e.cue => requested = Of(e)
    BY <1>1, EventFacts
  <2>2. ASSUME MayTake(m) PROVE Followed(e)'
    <3>1. Followed(e)
      BY <2>2 DEF TurnInv, TurnSound
    <3>2. ASSUME requested.token = e.token PROVE requested = Of(e)
      <4>1. at # "request_token"
        <5>1. SUFFICES ASSUME at = "request_token" PROVE FALSE
          OBVIOUS
        <5>2. PICK j \in DOMAIN backlog : MayTake(j) /\ requested.token # backlog[j].token
          BY <5>1 DEF TurnInv, RequestSound
        <5>3. j = m
          BY <1>1, <2>2, <5>2, OneMayTake
        <5>4. QED
          BY <3>2, <5>2, <5>3
      <4>2. requested.cue = e.cue
        BY <3>2, <4>1 DEF TurnInv, RequestSound
      <4>3. QED
        BY <2>1, <3>2, <4>2
    <3>3. QED
      BY <1>1, <2>1, <3>1, <3>2, FollowedWorker
  <2>3. ASSUME panel.on, e.slot # panel.slot PROVE Untouched(e)'
    <3>1. Untouched(e)
      BY <2>3 DEF TurnInv, TurnSound
    <3>2. e.token # 0
      BY <2>1
    <3>3. QED
      BY <1>1, <3>1, <3>2, UntouchedWorker
  <2>4. QED
    BY <2>2, <2>3
<1>5. TakenSound'
  <2> SUFFICES ASSUME at = "arm", ~muted, ~skipped
               PROVE  prepared'.token = panel.token /\ panel.token > 0 /\ Followed(panel)'
    BY <1>2, Zenon DEF TakenSound
  <2>1. prepared.token = panel.token /\ panel.token > 0 /\ Followed(panel)
    BY DEF TurnInv, TakenSound
  <2>2. PICK e : e = panel
    OBVIOUS
  <2>3. /\ e.token \in Nat /\ Of(e) \in Scores /\ Of(e).token = e.token /\ Of(e).cue = e.cue
    BY <1>1, <2>2 DEF AudioTypeOK, SurfaceTyped, Of, Score, Scores
  <2>4. Followed(e) /\ requested = Of(e)
    BY <2>1, <2>2 DEF Followed, InUse
  <2>5. Followed(e)'
    BY <1>1, <2>1, <2>2, <2>3, <2>4, FollowedWorker
  <2>6. prepared'.token = e.token
    <3>1. CASE PublishToken
      <4>1. prepared'.token = worker.score.token /\ worker.score.token > 0
        BY <1>1, <3>1, WorkerFields DEF PublishToken, WorkerSound
      <4>2. worker.score.token \in {0, e.token}
        BY <2>1, <2>2 DEF Followed, InUse
      <4>3. QED
        BY <4>1, <4>2
    <3>2. CASE ~PublishToken
      <4>1. prepared'.token = prepared.token
        BY <1>1, <3>2, WorkerFields
        DEF WorkerStep, WakeUp, LoadToken, LoadCue, BeginRender, EndRender, StillWanted
      <4>2. QED
        BY <2>1, <2>2, <4>1
    <3>3. QED
      BY <3>1, <3>2
  <2>7. Followed(panel)'
    BY <1>2, <2>2, <2>5 DEF Followed, Of, Prepared
  <2>8. QED
    BY <2>1, <2>2, <2>6, <2>7
<1>6. QED
  BY <1>3, <1>4, <1>5

LEMMA TurnNext == TurnInv /\ [AudioNext]_audio => TurnInv'
<1> SUFFICES ASSUME TurnInv, [AudioNext]_audio PROVE TurnInv'
  OBVIOUS
<1>1. SoundInv' /\ AudioTypeOK
  BY SoundNext DEF TurnInv, SoundInv
<1>2. ASSUME NEW slot \in Chats, NEW cue \in Cues, Announce(slot, cue)
      PROVE  RequestSound' /\ TurnSound' /\ TakenSound'
  <2>1. at' = "idle"
    BY <1>2 DEF Announce
  <2>2. QED
    BY <1>2, <2>1, AnnounceTurn DEF TakenSound
<1>3. ASSUME NEW i \in DOMAIN backlog, DebounceEnds(i)
      PROVE  RequestSound' /\ TurnSound' /\ TakenSound'
  <2>1. /\ DOMAIN backlog' = DOMAIN backlog
        /\ \A m \in DOMAIN backlog : /\ backlog'[m].slot = backlog[m].slot
                                     /\ backlog'[m].token = backlog[m].token
                                     /\ backlog'[m].cue = backlog[m].cue
    BY <1>1, <1>3, RipenFacts
  <2>2. at = "idle" /\ UNCHANGED <<at, panel, requested, prepared, worker, skipped>>
    BY <1>3 DEF DebounceEnds, shown, synth, taint
  <2>3. RequestSound' /\ TakenSound'
    BY <2>1, <2>2 DEF TurnInv, RequestSound, TakenSound
  <2>4. TurnSound'
    <3> SUFFICES ASSUME ~skipped, NEW m \in DOMAIN backlog, NEW e, e = backlog[m]
                 PROVE  /\ (IF panel.on THEN e.slot = panel.slot ELSE m = 1) => Followed(e)
                        /\ panel.on /\ e.slot # panel.slot => Untouched(e)
      BY <2>1, <2>2 DEF TurnSound, MayTake, Followed, Untouched, InUse, Prepared, Of
    <3>1. QED
      BY DEF TurnInv, TurnSound, MayTake
  <2>5. QED
    BY <2>3, <2>4
<1>4. CASE Reset
  <2>1. backlog' = <<>> /\ DOMAIN backlog' = {} /\ at' = "idle"
    BY <1>4, NoEvents DEF Reset
  <2>2. QED
    BY <1>1, <2>1 DEF TurnInv, RequestSound, TurnSound, TakenSound
<1>5. ASSUME Age PROVE RequestSound' /\ TurnSound' /\ TakenSound'
  BY <1>5, AgeTurn DEF Age, TakenSound
<1>6. ASSUME Arm PROVE RequestSound' /\ TurnSound' /\ TakenSound'
  <2>1. /\ UNCHANGED <<backlog, panel, requested, prepared, worker>> /\ at = "arm" /\ at' = "play"
        /\ skipped' = (skipped /\ backlog # <<>>)
    BY <1>6 DEF Arm, events, shown, synth
  <2>2. RequestSound' /\ TakenSound'
    BY <2>1 DEF TurnInv, RequestSound, TakenSound
  <2>3. CASE backlog = <<>>
    BY <2>1, <2>2, <2>3, NoEvents DEF TurnSound
  <2>4. CASE backlog # <<>>
    <3>1. skipped' = skipped
      BY <1>1, <2>1, <2>4, Zenon DEF AudioTypeOK, TaintTyped
    <3>2. TurnSound'
      BY <2>1, <3>1 DEF TurnInv, TurnSound, MayTake, Followed, Untouched, InUse, Prepared
    <3>3. QED
      BY <2>2, <3>2
  <2>5. QED
    BY <2>3, <2>4
<1>7. ASSUME RequestCue \/ RequestToken PROVE RequestSound' /\ TurnSound' /\ TakenSound'
  BY <1>7, RequestTurn DEF RequestCue, RequestToken, TakenSound
<1>8. ASSUME /\ UNCHANGED <<backlog, count, panel, requested, prepared, skipped>>
             /\ worker'.at = worker.at /\ worker'.score = worker.score
             /\ (at' = "request_token") = (at = "request_token")
             /\ at' = "arm" => at = "arm" /\ muted' = muted
      PROVE  RequestSound' /\ TurnSound' /\ TakenSound'
  <2>1. RequestSound'
    BY <1>8 DEF TurnInv, RequestSound, MayTake
  <2>2. TurnSound'
    BY <1>8 DEF TurnInv, TurnSound, MayTake, Followed, Untouched, InUse, Prepared
  <2>3. TakenSound'
    BY <1>8 DEF TurnInv, TakenSound, Followed, InUse, Prepared
  <2>4. QED
    BY <2>1, <2>2, <2>3
<1>9. RequestSound' /\ TurnSound' /\ TakenSound'
  <2>1. Reset => RequestSound' /\ TurnSound' /\ TakenSound'
    BY <1>1, <1>4 DEF TurnInv
  <2>2. QED
    BY <1>1, <1>2, <1>3, <1>5, <1>6, <1>7, <1>8, <2>1, TakeTurn, WorkerTurn, TurnSteps
<1>10. QED
  BY <1>1, <1>9 DEF TurnInv

LEMMA TurnInvariance == AudioSpec => []TurnInv
<1>1. AudioInit => TurnInv
  <2> SUFFICES ASSUME AudioInit PROVE TurnInv
    OBVIOUS
  <2>1. DOMAIN backlog = {} /\ at = "idle"
    BY NoEvents DEF AudioInit
  <2>2. QED
    BY <2>1, InitSound DEF TurnInv, RequestSound, TurnSound, TakenSound
<1>2. QED
  BY <1>1, TurnNext, PTL DEF AudioSpec

\* A takeover that starts with the sound on has its score armed, and keeps it until it
\* plays (start_announcement, ui.cpp:1112; play_prepared_status, audio.cpp:968): the
\* player takes an event only once its score is published (ui.cpp:2495-2517), and by
\* then the worker is done with every other, unless a takeover with the sound off
\* overtook the worker.
THEOREM SilentTakeoverCorrect == AudioSpec => NoSilentTakeover
<1> DEFINE Step ==
      /\ Arm /\ ~muted /\ ~skipped => pending'
      /\ pending /\ ~pending' => at \in {"arm", "mark"} \/ muted \/ panel'.slot = "none"
<1>1. TurnInv /\ [AudioNext]_audio => [Step]_audio
  <2> SUFFICES ASSUME TurnInv, [AudioNext]_audio PROVE Step
    OBVIOUS
  <2>1. ASSUME Arm, ~muted, ~skipped PROVE pending'
    <3>1. at = "arm" /\ pending' = (~muted /\ Prepared(panel))
      BY <2>1 DEF Arm
    <3>2. Prepared(panel)
      BY <2>1, <3>1 DEF TurnInv, TakenSound, Followed, InUse
    <3>3. QED
      BY <2>1, <3>1, <3>2
  <2>2. ASSUME pending, ~pending' PROVE at \in {"arm", "mark"} \/ muted \/ panel'.slot = "none"
    <3>1. Reset => panel'.slot = "none"
      BY DEF Reset, TurnInv, SoundInv, AudioTypeOK, SurfaceTyped
    <3>2. Arm \/ MarkPlaying => at \in {"arm", "mark"}
      BY DEF Arm, MarkPlaying
    <3>3. PlayMuted => muted
      BY DEF PlayMuted
    <3>4. Reset \/ Arm \/ MarkPlaying \/ PlayMuted \/ UNCHANGED pending
      BY WorkerLeaves, TimeLeaves
      DEF AudioNext, MainLoop, Announce, Mute, Turn, ChimeRender, FrameStep, Frame, RequestCue,
          RequestToken, RequestNotify, NoRequest, Take, Age, NothingToPlay, PlayRefused, Kept,
          Play, Disarm, ChimeReserve, ChimePlay, audio
    <3>5. QED
      BY <2>2, <3>1, <3>2, <3>3, <3>4
  <2>3. QED
    BY <2>1, <2>2
<1>2. Step => (/\ Arm /\ ~muted /\ ~skipped => pending'
               /\ pending /\ ~pending' => \/ at \in {"arm", "mark"}
                                          \/ muted
                                          \/ panel'.slot = "none")
  BY Zenon
<1> HIDE DEF Step
<1>3. QED
  BY <1>1, <1>2, TurnInvariance, PTL DEF AudioSpec, NoSilentTakeover
=============================================================================
