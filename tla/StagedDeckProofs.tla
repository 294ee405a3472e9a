-------------------------- MODULE StagedDeckProofs --------------------------
(***************************************************************************)
(* Theorems about StagedDeck, for every set of threads, number of slots,   *)
(* decks a host may send and number of batches, lost lines and sessions.   *)
(***************************************************************************)
EXTENDS StagedDeck, FiniteSetTheorems, SequenceTheorems, TLAPS

\* Types of what the line and the staging share.
HostTyped ==
  /\ host \in [deck : Seq(Items), hint : 0..Slots, line : Nat, cleared : BOOLEAN]
  /\ Len(host.deck) <= Slots
StagedTyped ==
  /\ staged \in [1..Slots -> [id : Threads \cup {None}, status : Statuses, old : BOOLEAN]]
  /\ open \in BOOLEAN
  /\ ~open => staged = NothingStaged

\* What is staged and not of an earlier batch is a line of this one.
OfThisBatch ==
  \A i \in 1..Slots :
    Present(i) /\ ~staged[i].old =>
      /\ i \in DOMAIN host.deck
      /\ [id |-> staged[i].id, status |-> staged[i].status] = host.deck[i]

\* Once a line of the batch has put older tasks away there are none.
ClearedOfOld == host.cleared => \A i \in 1..Slots : ~staged[i].old

StagingGood == HostTyped /\ StagedTyped /\ OfThisBatch /\ ClearedOfOld

\* Nothing at all is staged in a good way, whatever the host sends.
LEMMA NothingGood ==
  ASSUME HostTyped', staged' = NothingStaged, open' \in BOOLEAN
  PROVE  StagingGood'
  <1>1. StagedTyped'
    BY DeckConstants DEF StagedTyped, NothingStaged, Nothing, Statuses
  <1>2. OfThisBatch'
    BY DEF OfThisBatch, Present, NothingStaged
  <1>3. ClearedOfOld'
    BY DEF ClearedOfOld, NothingStaged, Nothing
  <1> QED BY <1>1, <1>2, <1>3 DEF StagingGood

\* The next line of the same batch leaves the batch what it is.
LEMMA NextLineTyped ==
  ASSUME HostTyped, host' = NextLine
  PROVE  HostTyped' /\ host'.deck = host.deck /\ host'.cleared = host.cleared
  BY DEF HostTyped, NextLine

\* The same of a line that may put older tasks away.
LEMMA ClearingLineTyped ==
  ASSUME HostTyped, NEW c \in BOOLEAN, host' = [host EXCEPT !.line = @ + 1, !.cleared = c]
  PROVE  HostTyped' /\ host'.deck = host.deck /\ host'.cleared = c
  <1> DEFINE next == [host EXCEPT !.line = @ + 1]
  <1>1. /\ next \in [deck : Seq(Items), hint : 0..Slots, line : Nat, cleared : BOOLEAN]
        /\ next.deck = host.deck
    BY DEF HostTyped
  <1>2. host' = [next EXCEPT !.cleared = c]
    BY Zenon
  <1> HIDE DEF next
  <1>3. /\ host' \in [deck : Seq(Items), hint : 0..Slots, line : Nat, cleared : BOOLEAN]
        /\ host'.deck = next.deck /\ host'.cleared = c
    BY <1>1, <1>2
  <1> QED BY <1>1, <1>3 DEF HostTyped

\* A line that only passes changes nothing that is staged.
LEMMA LineGood ==
  ASSUME StagingGood, host' = NextLine, UNCHANGED batch
  PROVE  StagingGood'
  <1>1. HostTyped' /\ host'.deck = host.deck /\ host'.cleared = host.cleared
    BY NextLineTyped DEF StagingGood
  <1>2. StagedTyped'
    BY DEF StagingGood, StagedTyped, batch, NothingStaged
  <1>3. OfThisBatch'
    BY <1>1 DEF StagingGood, OfThisBatch, Present, batch
  <1>4. ClearedOfOld'
    BY <1>1 DEF StagingGood, ClearedOfOld, batch
  <1> QED BY <1>1, <1>2, <1>3, <1>4 DEF StagingGood

\* Steps that do not concern the line.
LEMMA ElsewhereGood ==
  ASSUME StagingGood, UNCHANGED <<host, batch>>
  PROVE  StagingGood'
  BY DEF StagingGood, HostTyped, StagedTyped, OfThisBatch, ClearedOfOld, batch, Present,
         NothingStaged

\* A batch begun makes everything that is staged older.
LEMMA BeginGood ==
  ASSUME StagingGood, NEW d \in Decks, NEW hint \in Hints, BeginBatch(d, hint)
  PROVE  StagingGood'
  <1>1. HostTyped'
    BY DeckConstants DEF BeginBatch, HostTyped
  <1>2. ASSUME NEW i \in 1..Slots
        PROVE  staged'[i] = IF Present(i) THEN [staged[i] EXCEPT !.old = TRUE] ELSE Nothing
    BY DEF BeginBatch
  <1>3. StagedTyped'
    <2>1. staged' \in [1..Slots -> [id : Threads \cup {None}, status : Statuses, old : BOOLEAN]]
      BY DEF BeginBatch, StagingGood, StagedTyped, Nothing, Statuses
    <2>2. open' = open
      BY DEF BeginBatch
    <2>3. ASSUME ~open PROVE staged' = NothingStaged
      <3>1. staged = NothingStaged
        BY <2>3 DEF StagingGood, StagedTyped
      <3> QED BY <3>1 DEF BeginBatch, NothingStaged, Present
    <2> QED BY <2>1, <2>2, <2>3 DEF StagedTyped, StagingGood, NothingStaged
  <1>4. OfThisBatch'
    <2> SUFFICES ASSUME NEW i \in 1..Slots, staged'[i] # Nothing, ~staged'[i].old
                 PROVE  FALSE
      BY DEF OfThisBatch, Present
    <2>1. staged[i] \in [id : Threads \cup {None}, status : Statuses, old : BOOLEAN]
      BY DEF StagingGood, StagedTyped
    <2>2. ~Present(i)
      BY <1>2, <2>1
    <2> QED BY <1>2, <2>2
  <1>5. ClearedOfOld'
    BY DEF BeginBatch, ClearedOfOld
  <1> QED BY <1>1, <1>3, <1>4, <1>5 DEF StagingGood

\* A TASK| line stages the line of the batch that it is.
LEMMA TaskGood ==
  ASSUME StagingGood, HandleTask
  PROVE  StagingGood'
  <1> DEFINE slot == host.line
             item == host.deck[slot]
             before == Staging(slot)
             clears == slot = 1 /\ (Present(1) \/ ~open)
  <1>1. slot \in DOMAIN host.deck /\ slot \in 1..Slots /\ item \in Items
    BY DeckConstants DEF HandleTask, StagingGood, HostTyped
  <1>2. staged' = [before EXCEPT ![slot] = [id |-> item.id, status |-> item.status, old |-> FALSE]]
    BY DEF HandleTask
  <1>3. /\ host' = [host EXCEPT !.line = @ + 1, !.cleared = @ \/ clears]
        /\ open' = TRUE
    BY DEF HandleTask
  <1>4. HostTyped' /\ host'.deck = host.deck /\ host'.cleared = (host.cleared \/ clears)
    <2> DEFINE c == host.cleared \/ clears
    <2>1. c \in BOOLEAN
      OBVIOUS
    <2>2. host' = [host EXCEPT !.line = @ + 1, !.cleared = c]
      BY <1>3
    <2> HIDE DEF c
    <2>3. HostTyped' /\ host'.deck = host.deck /\ host'.cleared = c
      BY <2>1, <2>2, ClearingLineTyped DEF StagingGood
    <2> QED BY <2>3 DEF c
  <1>5. /\ before \in [1..Slots -> [id : Threads \cup {None}, status : Statuses, old : BOOLEAN]]
        /\ before = staged \/ before = NothingStaged
    BY DEF StagingGood, StagedTyped, Staging, NothingStaged, Nothing, Statuses
  <1>6. StagedTyped'
    BY <1>1, <1>2, <1>3, <1>5 DEF StagedTyped, Items
  <1>7. OfThisBatch'
    <2> SUFFICES ASSUME NEW i \in 1..Slots, staged'[i] # Nothing, ~staged'[i].old
                 PROVE  /\ i \in DOMAIN host.deck
                        /\ [id |-> staged'[i].id, status |-> staged'[i].status] = host.deck[i]
      BY <1>4 DEF OfThisBatch, Present
    <2>1. CASE i = slot
      BY <2>1, <1>1, <1>2, <1>5 DEF Items
    <2>2. CASE i # slot
      <3>1. staged'[i] = before[i]
        BY <2>2, <1>2, <1>5
      <3>2. before = staged
        BY <3>1, <1>5 DEF NothingStaged
      <3> QED BY <3>1, <3>2 DEF StagingGood, OfThisBatch, Present
    <2> QED BY <2>1, <2>2
  <1>8. ClearedOfOld'
    <2> SUFFICES ASSUME host.cleared \/ clears, NEW i \in 1..Slots
                 PROVE  ~staged'[i].old
      BY <1>4 DEF ClearedOfOld
    <2>1. ~before[i].old
      <3>1. CASE host.cleared
        <4>1. ~staged[i].old /\ ~NothingStaged[i].old
          BY <3>1 DEF StagingGood, ClearedOfOld, NothingStaged, Nothing
        <4> QED BY <4>1, <1>5
      <3>2. CASE clears
        <4>1. before = NothingStaged
          BY <3>2 DEF Staging, StagingGood, StagedTyped
        <4> QED BY <4>1 DEF NothingStaged, Nothing
      <3> QED BY <3>1, <3>2
    <2> QED BY <2>1, <1>2, <1>5
  <1> QED BY <1>4, <1>6, <1>7, <1>8 DEF StagingGood

LEMMA InitGood == Init => StagingGood
  <1> SUFFICES ASSUME Init PROVE StagingGood
    OBVIOUS
  <1>1. HostTyped
    BY DeckConstants DEF Init, HostTyped
  <1>2. StagedTyped
    BY DEF Init, StagedTyped, NothingStaged, Nothing, Statuses
  <1>3. OfThisBatch /\ ClearedOfOld
    BY DEF Init, OfThisBatch, ClearedOfOld, Present, NothingStaged
  <1> QED BY <1>1, <1>2, <1>3 DEF StagingGood

\* Every step keeps the staging good.
LEMMA StepGood == StagingGood /\ [Next]_vars => StagingGood'
  <1> SUFFICES ASSUME StagingGood, [Next]_vars PROVE StagingGood'
    OBVIOUS
  <1>1. CASE HandleHost
    <2>1. /\ host' = [host EXCEPT !.line = @ + 1, !.cleared = TRUE]
          /\ staged' = NothingStaged /\ open' = FALSE
      BY <1>1 DEF HandleHost, Discard, ResetStaged
    <2>2. HostTyped'
      BY <2>1, ClearingLineTyped DEF StagingGood
    <2> QED BY <2>1, <2>2, NothingGood
  <1>2. CASE HandleTask
    BY <1>2, TaskGood
  <1>3. CASE HandleTasks \/ RefuseTasks
    <2>1. host' = NextLine /\ staged' = NothingStaged /\ open' = FALSE
      BY <1>3 DEF HandleTasks, RefuseTasks, ResetStaged
    <2>2. HostTyped'
      BY <2>1, NextLineTyped DEF StagingGood
    <2> QED BY <2>1, <2>2, NothingGood
  <1>4. CASE IgnoreLine \/ LoseLine
    BY <1>4, LineGood DEF IgnoreLine, LoseLine
  <1>5. CASE Expire
    <2>1. host' = host /\ staged' = NothingStaged /\ open' = FALSE
      BY <1>5 DEF Expire, ResetStaged
    <2>2. HostTyped'
      BY <2>1 DEF StagingGood, HostTyped
    <2> QED BY <2>1, <2>2, NothingGood
  <1>6. CASE Quiet \/ UNCHANGED vars
    BY <1>6, ElsewhereGood DEF Quiet, vars, batch
  <1>7. CASE \E d \in Decks, hint \in Hints : BeginBatch(d, hint)
    BY <1>7, BeginGood
  <1>8. CASE Panel
    BY <1>8, ElsewhereGood DEF Panel, Finish, Settle, Start
  <1>9. CASE \E i \in 1..Slots : Select(i)
    BY <1>9, ElsewhereGood DEF Select
  <1>10. CASE SessionStarts \/ LampFrame \/ SessionEnds
    BY <1>10, ElsewhereGood DEF SessionStarts, LampFrame, SessionEnds
  <1> QED
    BY <1>1, <1>2, <1>3, <1>4, <1>5, <1>6, <1>7, <1>8, <1>9, <1>10 DEF Next, Serial, Host

\* "So a stale partial batch can no longer merge into the next deck"
\* (CHANGELOG.md:643): whatever lines are lost and however often the program of
\* the host is started anew, a deck that is committed after a line that put
\* older tasks away is the deck that was sent.
THEOREM OneBatchCorrect == Spec => []OneBatch
  <1>1. StagingGood => OneBatch
    <2> SUFFICES ASSUME StagingGood, Committing, host.cleared, NEW i \in DOMAIN host.deck
                 PROVE  /\ ~staged[i].old
                        /\ [id |-> staged[i].id, status |-> staged[i].status] = host.deck[i]
      BY DEF OneBatch
    <2>1. i \in 1..Len(host.deck) /\ i \in 1..Slots
      BY DeckConstants DEF StagingGood, HostTyped
    <2>2. Present(i)
      BY <2>1 DEF Committing, Complete
    <2> QED BY <2>1, <2>2 DEF StagingGood, OfThisBatch, ClearedOfOld
  <1> QED BY <1>1, InitGood, StepGood, PTL DEF Spec
-----------------------------------------------------------------------------
(* The tasks and the queue of the deck.                                    *)

TaskRecords ==
  [id : Threads \cup {None}, status : Statuses, unseen : BOOLEAN, hold : BOOLEAN,
   green : BOOLEAN, viewed : BOOLEAN]
EventRecords == [slot : 1..Slots, status : Statuses]

\* One event per slot.
Unique(q) == \A a, b \in DOMAIN q : q[a].slot = q[b].slot => a = b

\* The parts of a concatenation.
LEMMA ConcatFacts ==
  ASSUME NEW S, NEW p \in Seq(S), NEW a \in Seq(S), NEW q, q = p \o a
  PROVE  /\ q \in Seq(S) /\ Len(q) = Len(p) + Len(a)
         /\ DOMAIN q = 1..(Len(p) + Len(a))
         /\ \A i \in 1..Len(p) : q[i] = p[i]
         /\ \A i \in 1..Len(a) : q[Len(p) + i] = a[i]
  OBVIOUS

\* What is left of a queue when one event of it starts.
LEMMA StartedFacts ==
  ASSUME NEW q \in Seq(EventRecords), Unique(q), NEW k \in DOMAIN q
  PROVE  RemoveAt(q, k) \in Seq(EventRecords) /\ Unique(RemoveAt(q, k))
<1> DEFINE front == SubSeq(q, 1, k - 1)
           back == SubSeq(q, k + 1, Len(q))
           r == RemoveAt(q, k)
<1>1. DOMAIN q = 1..Len(q) /\ Len(q) \in Nat /\ k \in 1..Len(q)
  BY LenProperties
<1>2. /\ front \in Seq(EventRecords) /\ Len(front) = k - 1
      /\ \A i \in 1..(k - 1) : front[i] = q[i]
      /\ back \in Seq(EventRecords) /\ Len(back) = Len(q) - k
      /\ \A i \in 1..(Len(q) - k) : back[i] = q[k + i]
  BY <1>1
<1>3. r = front \o back
  BY DEF RemoveAt
<1> HIDE DEF front, back, r
<1>4. /\ r \in Seq(EventRecords) /\ Len(r) = Len(front) + Len(back)
      /\ DOMAIN r = 1..(Len(front) + Len(back))
      /\ \A i \in 1..Len(front) : r[i] = front[i]
      /\ \A i \in 1..Len(back) : r[Len(front) + i] = back[i]
  <2>1. front \in Seq(EventRecords) /\ back \in Seq(EventRecords)
    BY <1>2
  <2> QED BY <1>3, <2>1, ConcatFacts, SMT
<1> DEFINE at(i) == IF i < k THEN i ELSE i + 1
<1>5. ASSUME NEW i \in DOMAIN r PROVE i \in Int /\ at(i) \in DOMAIN q /\ r[i] = q[at(i)]
  <2>1. i \in 1..((k - 1) + (Len(q) - k))
    BY <1>2, <1>4
  <2>2. CASE i < k
    <3>1. i \in 1..(k - 1)
      BY <1>1, <2>1, <2>2
    <3> QED BY <1>1, <1>2, <1>4, <2>2, <3>1
  <2>3. CASE ~(i < k)
    <3>1. /\ i - (k - 1) \in 1..(Len(q) - k)
          /\ (k - 1) + (i - (k - 1)) = i /\ k + (i - (k - 1)) = i + 1
      BY <1>1, <2>1, <2>3
    <3>2. r[(k - 1) + (i - (k - 1))] = q[k + (i - (k - 1))]
      BY <1>2, <1>4, <3>1
    <3>3. r[i] = q[i + 1] /\ i + 1 \in 1..Len(q)
      BY <1>1, <2>1, <2>3, <3>1, <3>2
    <3> QED BY <1>1, <2>1, <2>3, <3>3
  <2> QED BY <2>2, <2>3
<1>6. Unique(r)
  <2> SUFFICES ASSUME NEW i \in DOMAIN r, NEW j \in DOMAIN r, r[i].slot = r[j].slot
               PROVE  i = j
    BY DEF Unique
  <2>1. at(i) = at(j)
    BY <1>5 DEF Unique
  <2>2. i \in Int /\ j \in Int
    BY <1>5
  <2> QED BY <1>1, <2>1, <2>2
<1> QED BY <1>4, <1>6 DEF r

\* A queue without two events of one slot is no longer than the deck.
LEMMA UniqueBound ==
  ASSUME NEW q \in Seq(EventRecords), Unique(q)
  PROVE  Len(q) <= Slots
<1>1. DOMAIN q = 1..Len(q) /\ Len(q) \in Nat /\ \A i \in 1..Len(q) : q[i] \in EventRecords
  BY LenProperties, ElementOfSeq
<1> DEFINE f == [i \in 1..Len(q) |-> q[i].slot]
           n == Len(q)
<1>2. f \in [1..Len(q) -> 1..Slots]
  <2>1. \A i \in 1..Len(q) : q[i].slot \in 1..Slots
    BY <1>1 DEF EventRecords
  <2> QED BY <2>1
<1>3. /\ IsFiniteSet(1..n) /\ Cardinality(1..n) = n
      /\ IsFiniteSet(1..Slots) /\ Cardinality(1..Slots) = Slots
  <2>1. n \in Int /\ 1 \in Int /\ n >= 0 /\ Slots \in Int /\ Slots >= 0
    BY <1>1, DeckConstants
  <2> HIDE DEF n
  <2>2. IsFiniteSet(1..n) /\ Cardinality(1..n) = IF 1 > n THEN 0 ELSE n - 1 + 1
    BY <2>1, FS_Interval
  <2>3. IsFiniteSet(1..Slots) /\ Cardinality(1..Slots) = IF 1 > Slots THEN 0 ELSE Slots - 1 + 1
    BY <2>1, FS_Interval
  <2> QED BY <2>1, <2>2, <2>3
<1>4. ASSUME Slots < n PROVE FALSE
  <2>1. \E x, y \in 1..Len(q) : x # y /\ f[x] = f[y]
    <3> HIDE DEF f
    <3>1. Cardinality(1..Slots) < Cardinality(1..n)
      BY <1>3, <1>4
    <3> QED BY <1>2, <1>3, <3>1, FS_PigeonHole
  <2> QED BY <1>1, <2>1 DEF Unique
<1> QED BY <1>1, <1>4, DeckConstants

\* What commit_tasks() makes of the queue: an event that was not replaced where
\* it stands, or one of a changed slot.
LEMMA QueuedFacts ==
  ASSUME StagedTyped, queue \in Seq(EventRecords), Unique(queue),
         NEW changed \in SUBSET (1..Slots), NEW order \in InTurn(changed \ QueuedSlots),
         NEW r, r = Queued(changed, order)
  PROVE  /\ r \in Seq(EventRecords) /\ Unique(r)
         /\ \A k \in DOMAIN r : \/ k \in DOMAIN queue /\ r[k] = queue[k]
                                \/ r[k].slot \in changed /\ r[k] = Event(r[k].slot)
<1> DEFINE new == changed \ QueuedSlots
           n == Cardinality(new)
           m == Len(queue)
           p == [k \in DOMAIN queue |->
                   IF queue[k].slot \in changed THEN Event(queue[k].slot) ELSE queue[k]]
           a == [k \in DOMAIN order |-> Event(order[k])]
<1>1. n \in Nat
  <2>1. IsFiniteSet(1..Slots)
    BY DeckConstants, FS_Interval
  <2>2. IsFiniteSet(new)
    BY <2>1, FS_Subset
  <2> QED BY <2>2, FS_CardinalityType
<1>2. order \in [1..n -> new] /\ \A i, j \in 1..n : i < j => order[i] < order[j]
  BY DEF InTurn
<1>3. DOMAIN queue = 1..m /\ m \in Nat /\ \A i \in 1..m : queue[i] \in EventRecords
  BY LenProperties, ElementOfSeq
<1>4. ASSUME NEW i \in 1..Slots
      PROVE  Event(i) \in EventRecords /\ Event(i).slot = i
  BY <1>4 DEF Event, EventRecords, StagedTyped
<1>5. /\ p \in Seq(EventRecords) /\ Len(p) = m
      /\ \A k \in 1..m : /\ p[k].slot = queue[k].slot
                         /\ p[k] = queue[k] \/ (p[k].slot \in changed /\ p[k] = Event(p[k].slot))
  <2>1. ASSUME NEW k \in 1..m
        PROVE  /\ p[k] \in EventRecords /\ p[k].slot = queue[k].slot
               /\ p[k] = queue[k] \/ (p[k].slot \in changed /\ p[k] = Event(p[k].slot))
    <3>1. queue[k].slot \in 1..Slots
      BY <1>3 DEF EventRecords
    <3>2. p[k] = IF queue[k].slot \in changed THEN Event(queue[k].slot) ELSE queue[k]
      BY <1>3
    <3> QED BY <1>3, <1>4, <3>1, <3>2
  <2>2. p \in [1..m -> EventRecords]
    BY <1>3, <2>1
  <2>3. p \in Seq(EventRecords) /\ Len(p) = m
    BY <1>3, <2>2, IsASeq, LenProperties
  <2> QED BY <2>1, <2>3
<1>6. /\ a \in Seq(EventRecords) /\ Len(a) = n
      /\ \A k \in 1..n : /\ a[k].slot = order[k] /\ order[k] \in changed \ QueuedSlots
                         /\ a[k] = Event(order[k])
  <2>1. ASSUME NEW k \in 1..n
        PROVE  /\ a[k] \in EventRecords /\ a[k].slot = order[k]
               /\ order[k] \in changed \ QueuedSlots /\ a[k] = Event(order[k])
    <3>1. order[k] \in new /\ order[k] \in 1..Slots /\ a[k] = Event(order[k])
      BY <1>2
    <3> QED BY <1>4, <3>1
  <2>2. a \in [1..n -> EventRecords]
    BY <1>2, <2>1
  <2>3. a \in Seq(EventRecords) /\ Len(a) = n
    <3> HIDE DEF a, n
    <3>1. a \in Seq(EventRecords)
      BY <1>1, <2>2, IsASeq
    <3>2. DOMAIN a = 1..n /\ DOMAIN a = 1..Len(a) /\ Len(a) \in Nat
      BY <2>2, <3>1, LenProperties
    <3> QED BY <1>1, <3>1, <3>2
  <2> QED BY <2>1, <2>3
<1>7. r = p \o a
  BY DEF Queued
<1> HIDE DEF p, a, m, n, new
<1>8. /\ r \in Seq(EventRecords) /\ DOMAIN r = 1..(m + n)
      /\ \A i \in 1..m : r[i] = p[i]
      /\ \A i \in 1..n : r[m + i] = a[i]
  <2>1. /\ r \in Seq(EventRecords) /\ DOMAIN r = 1..(Len(p) + Len(a))
        /\ \A i \in 1..Len(p) : r[i] = p[i]
        /\ \A i \in 1..Len(a) : r[Len(p) + i] = a[i]
    BY <1>5, <1>6, <1>7, ConcatFacts, SMT
  <2> QED BY <1>5, <1>6, <2>1
\* Which part of the sum a place belongs to.
<1>9. ASSUME NEW k \in DOMAIN r
      PROVE  \/ k \in 1..m /\ r[k] = p[k]
             \/ k \notin 1..m /\ k - m \in 1..n /\ r[k] = a[k - m]
  <2>1. k \in 1..(m + n)
    BY <1>8
  <2>2. CASE k \in 1..m
    BY <1>8, <2>2
  <2>3. CASE k \notin 1..m
    <3>1. k - m \in 1..n /\ m + (k - m) = k
      BY <1>1, <1>3, <2>1, <2>3
    <3>2. r[m + (k - m)] = a[k - m]
      BY <1>8, <3>1
    <3> QED BY <2>3, <3>1, <3>2
  <2> QED BY <2>2, <2>3
<1>10. ASSUME NEW k \in DOMAIN r
       PROVE  \/ k \in DOMAIN queue /\ r[k] = queue[k]
              \/ r[k].slot \in changed /\ r[k] = Event(r[k].slot)
  <2>1. CASE k \in 1..m /\ r[k] = p[k]
    BY <1>3, <1>5, <2>1
  <2>2. CASE k - m \in 1..n /\ r[k] = a[k - m]
    BY <1>6, <2>2
  <2> QED BY <1>9, <2>1, <2>2
<1>11. ASSUME NEW i \in 1..m, NEW j \in DOMAIN r, r[i].slot = r[j].slot
       PROVE  i = j
  <2>1. r[i].slot = queue[i].slot
    BY <1>5, <1>8
  <2>2. CASE j \in 1..m
    <3>1. r[j].slot = queue[j].slot
      BY <1>5, <1>8, <2>2
    <3> QED BY <1>3, <1>11, <2>1, <2>2, <3>1 DEF Unique
  <2>3. CASE j \notin 1..m
    <3>1. r[j].slot \notin QueuedSlots
      BY <1>6, <1>9, <2>3
    <3>2. queue[i].slot \in QueuedSlots
      BY <1>3 DEF QueuedSlots
    <3> QED BY <1>11, <2>1, <3>1, <3>2
  <2> QED BY <2>2, <2>3
<1>12. ASSUME NEW i \in DOMAIN r, NEW j \in DOMAIN r, i \notin 1..m, j \notin 1..m,
              r[i].slot = r[j].slot
       PROVE  i = j
  <2> DEFINE x == i - m
             y == j - m
  <2>1. /\ x \in 1..n /\ r[i].slot = order[x] /\ order[x] \in 1..Slots
        /\ y \in 1..n /\ r[j].slot = order[y] /\ order[y] \in 1..Slots
    BY <1>6, <1>9, <1>12
  <2>2. x = y
    <3> HIDE DEF x, y
    <3>1. order[x] = order[y]
      BY <1>12, <2>1, Zenon
    <3>2. order[x] \in Int
      BY <2>1
    <3>3. x \in Int /\ y \in Int
      BY <2>1
    <3>4. ~(x < y)
      <4>1. x < y => order[x] < order[y]
        BY <1>2, <2>1, Zenon
      <4> QED BY <3>1, <3>2, <4>1
    <3>5. ~(y < x)
      <4>1. y < x => order[y] < order[x]
        BY <1>2, <2>1, Zenon
      <4> QED BY <3>1, <3>2, <4>1
    <3> QED BY <3>3, <3>4, <3>5
  <2> QED BY <1>3, <1>8, <1>1, <2>2
<1>13. Unique(r)
  <2> SUFFICES ASSUME NEW i \in DOMAIN r, NEW j \in DOMAIN r, r[i].slot = r[j].slot
               PROVE  i = j
    BY DEF Unique
  <2> QED BY <1>11, <1>12
<1> QED BY <1>8, <1>10, <1>13
-----------------------------------------------------------------------------
(* The invariant of the deck.                                              *)

HostSends ==
  /\ host.deck \in Decks \cup {<<>>} /\ host.hint \in Hints \cup {0}
  /\ host.line <= Len(host.deck) + 2
TasksTyped ==
  /\ tasks \in Seq(TaskRecords) /\ Len(tasks) <= Slots
  /\ selected \in 1 .. (IF tasks = <<>> THEN 1 ELSE Len(tasks))
NewsTyped ==
  /\ queue \in Seq(EventRecords) /\ Unique(queue)
  /\ anim \in {NoAnim} \cup EventRecords
  /\ session \in BOOLEAN

DeckInv == StagingGood /\ HostSends /\ TasksTyped /\ NewsTyped

\* The tasks that were shown, one by one.
LEMMA TaskFacts ==
  ASSUME TasksTyped
  PROVE  /\ DOMAIN tasks = 1..Len(tasks) /\ Len(tasks) \in Nat
         /\ \A i \in DOMAIN tasks : tasks[i] \in TaskRecords
         /\ tasks = <<>> <=> Len(tasks) = 0
         /\ selected \in Nat \ {0}
  BY LenProperties, ElementOfSeq, EmptySeq DEF TasksTyped

\* As many tasks as before, and the selection stays.
LEMMA SameTasksTyped ==
  ASSUME TasksTyped, tasks' \in [DOMAIN tasks -> TaskRecords], selected' = selected
  PROVE  TasksTyped'
<1> DEFINE n == Len(tasks)
<1>1. n \in Nat /\ DOMAIN tasks = 1..n /\ (tasks = <<>> <=> n = 0)
  BY TaskFacts
<1> HIDE DEF n
<1>2. tasks' \in Seq(TaskRecords)
  BY <1>1, IsASeq
<1>3. Len(tasks') \in Nat /\ 1..Len(tasks') = 1..n
  <2>1. Len(tasks') \in Nat /\ DOMAIN tasks' = 1..Len(tasks')
    BY <1>2, LenProperties
  <2> QED BY <1>1, <2>1
<1>4. Len(tasks') = n
  BY <1>1, <1>3
<1>5. tasks' = <<>> <=> n = 0
  BY <1>2, <1>4, EmptySeq
<1> QED BY <1>1, <1>2, <1>4, <1>5 DEF TasksTyped, n

\* What is carried to a slot is a task of the thread and the status that was sent.
LEMMA CarriedFacts ==
  ASSUME StagedTyped, NEW i \in 1..Slots
  PROVE  /\ Carried(i) \in TaskRecords
         /\ Carried(i).id = staged[i].id /\ Carried(i).status = staged[i].status
<1> DEFINE un == staged[i].status = "done" /\ (Fresh(i) \/ \E j \in Before(i) : tasks[j]["unseen"])
           ho == staged[i].status = "done" /\ (Fresh(i) \/ \E j \in Before(i) : tasks[j]["hold"])
           gr == Fresh(i)
<1>1. un \in BOOLEAN /\ ho \in BOOLEAN /\ gr \in BOOLEAN /\ FALSE \in BOOLEAN
  BY Zenon DEF Fresh
<1>2. staged[i].id \in Threads \cup {None} /\ staged[i].status \in Statuses
  BY DEF StagedTyped
<1>3. Carried(i) = [id |-> staged[i].id, status |-> staged[i].status, unseen |-> un,
                    hold |-> ho, green |-> gr, viewed |-> FALSE]
  BY DEF Carried
<1> HIDE DEF un, ho, gr
<1>4. Carried(i) \in TaskRecords
  <2>1. [id |-> staged[i].id, status |-> staged[i].status, unseen |-> un,
         hold |-> ho, green |-> gr, viewed |-> FALSE] \in TaskRecords
    BY <1>1, <1>2, Zenon DEF TaskRecords
  <2> QED BY <1>3, <2>1, Zenon
<1> QED BY <1>3, <1>4

\* mark_done_viewed() leaves everything but the two marks.
LEMMA ViewedFacts ==
  ASSUME NEW n \in Nat, NEW ts \in [1..n -> TaskRecords], NEW slot, NEW i \in 1..n
  PROVE  /\ Viewed(ts, slot) \in [1..n -> TaskRecords]
         /\ Viewed(ts, slot)[i].id = ts[i].id /\ Viewed(ts, slot)[i].status = ts[i].status
         /\ i # slot => Viewed(ts, slot)[i] = ts[i]
<1>1. ASSUME NEW t \in TaskRecords
      PROVE  LET v == [t EXCEPT !.viewed = TRUE, !.unseen = @ /\ t.hold]
             IN v \in TaskRecords /\ v.id = t.id /\ v.status = t.status
  BY DEF TaskRecords
<1>2. ASSUME NEW j \in 1..n
      PROVE  /\ Viewed(ts, slot)[j] \in TaskRecords
             /\ Viewed(ts, slot)[j].id = ts[j].id /\ Viewed(ts, slot)[j].status = ts[j].status
             /\ j # slot => Viewed(ts, slot)[j] = ts[j]
  <2>1. ts[j] \in TaskRecords
    OBVIOUS
  <2>2. Viewed(ts, slot)[j] =
          IF j = slot /\ ts[j].status = "done"
          THEN [ts[j] EXCEPT !.viewed = TRUE, !.unseen = @ /\ ts[j].hold] ELSE ts[j]
    BY DEF Viewed
  <2> QED BY <1>1, <2>1, <2>2
<1>3. Viewed(ts, slot) \in [1..n -> TaskRecords]
  <2>1. Viewed(ts, slot) = [j \in 1..n |-> Viewed(ts, slot)[j]]
    BY DEF Viewed
  <2> QED BY <1>2, <2>1
<1> QED BY <1>2, <1>3

\* The batch that is committed, as the deck shows it.
LEMMA CommittedFacts ==
  ASSUME DeckInv, HandleTasks, NEW n, n = Len(host.deck)
  PROVE  /\ n \in 0..Slots
         /\ tasks' \in [1..n -> TaskRecords]
         /\ \A i \in 1..n : tasks'[i].id = staged[i].id /\ tasks'[i].status = staged[i].status
         /\ selected' \in 1 .. (IF n = 0 THEN 1 ELSE n)
<1> DEFINE shown == [i \in 1..n |-> Carried(i)]
           chosen == IF host.hint \in 1..n THEN host.hint ELSE selected
<1>1. n \in 0..Slots
  BY LenProperties, DeckConstants DEF DeckInv, StagingGood, HostTyped
<1>2. tasks' = Viewed(shown, chosen) /\ selected' = Clamped(chosen, n)
  BY DEF HandleTasks, Commit
<1>3. ASSUME NEW i \in 1..n
      PROVE  shown[i] \in TaskRecords /\ shown[i].id = staged[i].id
             /\ shown[i].status = staged[i].status
  <2>1. i \in 1..Slots
    BY <1>1, DeckConstants
  <2> QED BY <2>1, CarriedFacts DEF DeckInv, StagingGood
<1>4. shown \in [1..n -> TaskRecords]
  BY <1>3
<1>5. n \in Nat
  BY <1>1
<1>6. tasks' \in [1..n -> TaskRecords]
  <2> HIDE DEF shown, chosen
  <2>1. CASE n = 0
    BY <1>2, <1>4, <2>1 DEF Viewed
  <2>2. CASE n # 0
    <3>1. 1 \in 1..n
      BY <1>5, <2>2
    <3> QED BY <1>2, <1>4, <1>5, <3>1, ViewedFacts
  <2> QED BY <2>1, <2>2
<1>7. ASSUME NEW i \in 1..n
      PROVE  tasks'[i].id = staged[i].id /\ tasks'[i].status = staged[i].status
  <2> HIDE DEF chosen
  <2>1. shown[i].id = staged[i].id /\ shown[i].status = staged[i].status
    BY <1>3
  <2> HIDE DEF shown
  <2>2. /\ Viewed(shown, chosen)[i].id = shown[i].id
        /\ Viewed(shown, chosen)[i].status = shown[i].status
    BY <1>4, <1>5, ViewedFacts, Zenon
  <2> QED BY <1>2, <2>1, <2>2
<1>8. selected' \in 1 .. (IF n = 0 THEN 1 ELSE n)
  <2>1. chosen \in Nat \ {0}
    BY <1>1, TaskFacts DEF DeckInv
  <2> HIDE DEF chosen
  <2> QED BY <1>2, <1>5, <2>1 DEF Clamped
<1> QED BY <1>1, <1>6, <1>7, <1>8

\* commit_tasks() leaves a deck and a queue of the right types.
LEMMA CommitTyped ==
  ASSUME DeckInv, HandleTasks
  PROVE  TasksTyped' /\ NewsTyped'
<1> DEFINE n == Len(host.deck)
<1>1. /\ n \in 0..Slots /\ tasks' \in [1..n -> TaskRecords]
      /\ selected' \in 1 .. (IF n = 0 THEN 1 ELSE n)
  BY CommittedFacts
<1>2. TasksTyped'
  <2> HIDE DEF n
  <2>1. tasks' \in Seq(TaskRecords)
    BY <1>1, IsASeq
  <2>2. Len(tasks') \in Nat /\ 1..Len(tasks') = 1..n
    <3>1. Len(tasks') \in Nat /\ DOMAIN tasks' = 1..Len(tasks')
      BY <2>1, LenProperties
    <3> QED BY <1>1, <3>1
  <2>3. Len(tasks') = n
    BY <1>1, <2>2
  <2>4. tasks' = <<>> <=> n = 0
    BY <2>1, <2>3, EmptySeq
  <2> QED BY <1>1, <2>1, <2>3, <2>4, DeckConstants DEF TasksTyped
<1>3. NewsTyped'
  <2> DEFINE changed == {i \in 1..n : ChangedStatus(i)}
  <2>1. PICK order \in InTurn(changed \ QueuedSlots) : queue' = Queued(changed, order)
    BY DEF HandleTasks, Commit
  <2>2. changed \in SUBSET (1..Slots)
    BY <1>1, DeckConstants
  <2> HIDE DEF changed
  <2>3. queue' \in Seq(EventRecords) /\ Unique(queue')
    BY <2>1, <2>2, QueuedFacts DEF DeckInv, StagingGood, NewsTyped
  <2>4. anim' = anim /\ session' = session
    BY DEF HandleTasks, Commit
  <2> QED BY <2>3, <2>4 DEF DeckInv, NewsTyped
<1> QED BY <1>2, <1>3
\* The marks that the end of an animation, a viewed completion and a session change.
LEMMA MarksTyped ==
  ASSUME NEW t \in TaskRecords
  PROVE  /\ Finalised(t) \in TaskRecords
         /\ [t EXCEPT !.hold = FALSE] \in TaskRecords
         /\ [t EXCEPT !.hold = FALSE, !.unseen = FALSE] \in TaskRecords
  BY DEF Finalised, TaskRecords

LEMMA InitDeck == Init => DeckInv
<1> SUFFICES ASSUME Init PROVE DeckInv
  OBVIOUS
<1>1. HostSends
  BY DEF Init, HostSends
<1>2. TasksTyped
  BY DeckConstants DEF Init, TasksTyped
<1>3. NewsTyped
  <2>1. queue \in Seq(EventRecords) /\ DOMAIN queue = {}
    BY DEF Init
  <2> QED BY <2>1 DEF Init, NewsTyped, Unique
<1> QED BY <1>1, <1>2, <1>3, InitGood DEF DeckInv

\* The lines of the host go on to the end of the batch and no further.
LEMMA HostKept ==
  ASSUME DeckInv, [Next]_vars
  PROVE  HostSends'
<1>0. /\ host.line \in Nat /\ Len(host.deck) \in Nat
      /\ host \in [deck : Seq(Items), hint : 0..Slots, line : Nat, cleared : BOOLEAN]
  BY LenProperties DEF DeckInv, StagingGood, HostTyped
<1> USE DEF DeckInv
<1>1. ASSUME host.line <= Len(host.deck) + 1,
             \/ host' = [host EXCEPT !.line = @ + 1]
             \/ host'.deck = host.deck /\ host'.hint = host.hint /\ host'.line = host.line + 1
      PROVE  HostSends'
  BY <1>0, <1>1 DEF HostSends
<1>2. CASE HandleHost
  BY <1>0, <1>1, <1>2 DEF HandleHost
<1>3. CASE HandleTask
  <2>1. host'.deck = host.deck /\ host'.hint = host.hint /\ host'.line = host.line + 1
    BY <1>0, <1>3 DEF HandleTask
  <2>2. host.line \in 1..Len(host.deck)
    BY <1>0, <1>3, LenProperties DEF HandleTask
  <2> QED BY <1>0, <1>1, <2>1, <2>2
<1>4. CASE HandleTasks \/ RefuseTasks
  BY <1>0, <1>1, <1>4 DEF HandleTasks, RefuseTasks, Committing, LastLine, NextLine
<1>5. CASE IgnoreLine \/ LoseLine
  BY <1>0, <1>1, <1>5 DEF IgnoreLine, LoseLine, Sending, LastLine, NextLine
<1>6. CASE UNCHANGED host
  BY <1>6 DEF HostSends
<1>7. CASE \E d \in Decks, hint \in Hints : BeginBatch(d, hint)
  <2>1. PICK d \in Decks : \E hint \in Hints : BeginBatch(d, hint)
    BY <1>7
  <2>2. PICK hint \in Hints : BeginBatch(d, hint)
    BY <2>1
  <2>3. host' = [deck |-> d, hint |-> hint, line |-> 0, cleared |-> FALSE]
    BY <2>2 DEF BeginBatch
  <2>4. Len(d) \in Nat
    BY DeckConstants, LenProperties
  <2> QED BY <2>3, <2>4 DEF HostSends
<1> QED
  BY <1>2, <1>3, <1>4, <1>5, <1>6, <1>7
  DEF Next, Serial, Host, Panel, Expire, Quiet, Finish, Settle, Start, Select, SessionStarts,
      LampFrame, SessionEnds, vars

\* One lemma for each step that changes the deck or its news without a batch.
LEMMA FinishDeck ==
  ASSUME DeckInv, Finish
  PROVE  TasksTyped' /\ NewsTyped'
<1>1. TasksTyped'
  <2>1. ASSUME NEW i \in DOMAIN tasks
        PROVE  tasks'[i] \in TaskRecords
    <3>1. tasks[i] \in TaskRecords
      BY TaskFacts DEF DeckInv
    <3>2. tasks'[i] = tasks[i] \/ tasks'[i] = Finalised(tasks[i])
      BY DEF Finish
    <3> QED BY <3>1, <3>2, MarksTyped
  <2>2. tasks' = [i \in DOMAIN tasks |-> tasks'[i]] /\ selected' = selected
    BY DEF Finish
  <2>3. tasks' \in [DOMAIN tasks -> TaskRecords]
    BY <2>1, <2>2
  <2> QED BY <2>2, <2>3, SameTasksTyped DEF DeckInv
<1>2. NewsTyped'
  BY DEF Finish, DeckInv, NewsTyped
<1> QED BY <1>1, <1>2

LEMMA SettleDeck ==
  ASSUME DeckInv, Settle
  PROVE  TasksTyped' /\ NewsTyped'
<1>1. selected \in DOMAIN tasks /\ tasks[selected] \in TaskRecords
  BY TaskFacts DEF Settle, DeckInv
<1>2. /\ tasks' = [tasks EXCEPT ![selected] = [tasks[selected] EXCEPT !.hold = FALSE, !.unseen = FALSE]]
      /\ selected' = selected /\ UNCHANGED <<queue, anim, session>>
  BY DEF Settle, news
<1>3. tasks' \in [DOMAIN tasks -> TaskRecords]
  <2>1. tasks \in [DOMAIN tasks -> TaskRecords]
    <3>1. tasks = [i \in DOMAIN tasks |-> tasks[i]]
      BY DEF DeckInv, TasksTyped
    <3> QED BY <3>1, TaskFacts DEF DeckInv
  <2>2. [tasks[selected] EXCEPT !.hold = FALSE, !.unseen = FALSE] \in TaskRecords
    BY <1>1, MarksTyped
  <2> QED BY <1>1, <1>2, <2>1, <2>2
<1>4. TasksTyped'
  BY <1>2, <1>3, SameTasksTyped DEF DeckInv
<1>5. NewsTyped'
  BY <1>2 DEF DeckInv, NewsTyped
<1> QED BY <1>4, <1>5

LEMMA StartDeck ==
  ASSUME DeckInv, NEW k \in DOMAIN queue, Start(k)
  PROVE  TasksTyped' /\ NewsTyped'
<1>1. queue' = RemoveAt(queue, k) /\ anim' = queue[k] /\ UNCHANGED <<tasks, selected, session>>
  BY DEF Start, deck
<1>2. queue' \in Seq(EventRecords) /\ Unique(queue')
  BY <1>1, StartedFacts DEF DeckInv, NewsTyped
<1>3. queue[k] \in EventRecords
  BY LenProperties, ElementOfSeq DEF DeckInv, NewsTyped
<1> QED BY <1>1, <1>2, <1>3 DEF DeckInv, TasksTyped, NewsTyped

LEMMA SilencedDeck ==
  ASSUME DeckInv, Silenced, selected' = selected, session' \in BOOLEAN
  PROVE  TasksTyped' /\ NewsTyped'
<1>1. TasksTyped'
  <2>1. ASSUME NEW i \in DOMAIN tasks
        PROVE  [tasks[i] EXCEPT !.hold = FALSE] \in TaskRecords
    BY TaskFacts, MarksTyped DEF DeckInv
  <2>2. tasks' = [i \in DOMAIN tasks |-> [tasks[i] EXCEPT !.hold = FALSE]]
    BY DEF Silenced
  <2>3. tasks' \in [DOMAIN tasks -> TaskRecords]
    BY <2>1, <2>2
  <2> QED BY <2>3, SameTasksTyped DEF DeckInv
<1>2. NewsTyped'
  BY DEF Silenced, NewsTyped, Unique
<1> QED BY <1>1, <1>2

LEMMA LampFrameDeck ==
  ASSUME DeckInv, LampFrame
  PROVE  TasksTyped' /\ NewsTyped'
<1>1. PICK statuses \in [1..Slots -> {"running", "done"}] :
        tasks' = [i \in 1..Slots |->
          LET done == statuses[i] = "done"
          IN [Blank EXCEPT !.id = IF i \in DOMAIN tasks THEN tasks[i].id ELSE None,
                           !.status = statuses[i], !.green = done, !.viewed = done]]
  BY DEF LampFrame
<1>2. ASSUME NEW i \in 1..Slots
      PROVE  tasks'[i] \in TaskRecords
  <2> DEFINE name == IF i \in DOMAIN tasks THEN tasks[i].id ELSE None
             done == statuses[i] = "done"
  <2>1. name \in Threads \cup {None}
    BY TaskFacts DEF DeckInv, TaskRecords
  <2>2. statuses[i] \in Statuses /\ done \in BOOLEAN /\ FALSE \in BOOLEAN
    BY DEF Statuses
  <2>3. tasks'[i] = [id |-> name, status |-> statuses[i], unseen |-> FALSE, hold |-> FALSE,
                     green |-> done, viewed |-> done]
    BY <1>1 DEF Blank
  <2> HIDE DEF name, done
  <2>4. [id |-> name, status |-> statuses[i], unseen |-> FALSE, hold |-> FALSE,
         green |-> done, viewed |-> done] \in TaskRecords
    BY <2>1, <2>2, Zenon DEF TaskRecords
  <2> QED BY <2>3, <2>4, Zenon
<1>3. tasks' \in [1..Slots -> TaskRecords]
  BY <1>1, <1>2
<1>4. tasks' \in Seq(TaskRecords) /\ Len(tasks') = Slots /\ tasks' # <<>>
  <2>1. tasks' \in Seq(TaskRecords)
    BY <1>3, DeckConstants, IsASeq
  <2>2. Len(tasks') \in Nat /\ 1..Len(tasks') = 1..Slots
    <3>1. Len(tasks') \in Nat /\ DOMAIN tasks' = 1..Len(tasks')
      BY <2>1, LenProperties
    <3> QED BY <1>3, <3>1
  <2>3. Len(tasks') = Slots
    BY <2>2, DeckConstants
  <2> QED BY <2>1, <2>3, DeckConstants, EmptySeq
<1>5. selected' = selected /\ selected \in 1..Slots
  <2>1. Len(tasks) \in Nat /\ Len(tasks) <= Slots
        /\ selected \in 1 .. (IF tasks = <<>> THEN 1 ELSE Len(tasks))
    BY TaskFacts DEF DeckInv, TasksTyped
  <2>2. Slots \in Nat \ {0}
    BY DeckConstants
  <2>3. selected \in 1..Slots
    <3>1. CASE tasks = <<>>
      BY <2>1, <2>2, <3>1
    <3>2. CASE tasks # <<>>
      BY <2>1, <2>2, <3>2
    <3> QED BY <3>1, <3>2
  <2> QED BY <2>3 DEF LampFrame
<1>6. TasksTyped'
  BY <1>4, <1>5, DeckConstants DEF TasksTyped
<1>7. NewsTyped'
  BY DEF LampFrame, DeckInv, NewsTyped, news
<1> QED BY <1>6, <1>7

\* Every step keeps the deck and its news what they are.
LEMMA StepDeck == DeckInv /\ [Next]_vars => DeckInv'
<1> SUFFICES ASSUME DeckInv, [Next]_vars PROVE DeckInv'
  OBVIOUS
<1>0. StagingGood' /\ HostSends'
  BY StepGood, HostKept DEF DeckInv
<1>1. CASE UNCHANGED <<deck, news, session>>
  BY <1>0, <1>1 DEF DeckInv, deck, news, TasksTyped, NewsTyped
<1>2. CASE HandleTasks
  BY <1>0, <1>2, CommitTyped DEF DeckInv
<1>3. CASE Panel
  BY <1>0, <1>3, FinishDeck, SettleDeck, StartDeck DEF DeckInv, Panel
<1>4. ASSUME NEW i \in 1..Slots, Select(i)
      PROVE  TasksTyped' /\ NewsTyped'
  <2>1. i \in DOMAIN tasks /\ selected' = i /\ UNCHANGED <<tasks, queue, anim, session>>
    BY <1>4 DEF Select, news
  <2>2. DOMAIN tasks = 1..Len(tasks) /\ (tasks = <<>> <=> Len(tasks) = 0) /\ Len(tasks) \in Nat
    BY TaskFacts DEF DeckInv
  <2> QED BY <2>1, <2>2 DEF DeckInv, TasksTyped, NewsTyped
<1>5. CASE SessionStarts \/ SessionEnds
  <2>1. Silenced /\ selected' = selected /\ session' \in BOOLEAN
    BY <1>5 DEF SessionStarts, SessionEnds
  <2> QED BY <1>0, <2>1, SilencedDeck DEF DeckInv
<1>6. CASE LampFrame
  BY <1>0, <1>6, LampFrameDeck DEF DeckInv
<1>7. CASE \/ HandleHost \/ HandleTask \/ RefuseTasks \/ IgnoreLine \/ Expire \/ Quiet \/ Host
           \/ UNCHANGED vars
  BY <1>1, <1>7
  DEF HandleHost, HandleTask, RefuseTasks, IgnoreLine, Expire, Quiet, Host, LoseLine, BeginBatch,
      vars, deck, news
<1> QED
  BY <1>0, <1>2, <1>3, <1>4, <1>5, <1>6, <1>7 DEF Next, Serial, DeckInv

LEMMA DeckInvariance == Spec => []DeckInv
  BY InitDeck, StepDeck, PTL DEF Spec

\* commit_tasks() and the panel move tasks, marks and events of the deck: none
\* ends outside its range, the selection is a task of the deck while there is
\* one, and the queue, with one event per slot, never outgrows the slots.
THEOREM DeckTypeCorrect == Spec => []TypeOK
<1>1. DeckInv => TypeOK
  <2> SUFFICES ASSUME DeckInv PROVE TypeOK
    OBVIOUS
  <2>1. /\ host.deck \in Decks \cup {<<>>} /\ host.hint \in Hints \cup {0}
        /\ host.line \in 0 .. Len(host.deck) + 2 /\ host.cleared \in BOOLEAN
    <3>1. host.line \in Nat /\ Len(host.deck) \in Nat /\ host.cleared \in BOOLEAN
      BY LenProperties DEF DeckInv, StagingGood, HostTyped
    <3> QED BY <3>1 DEF DeckInv, HostSends
  <2>2. Len(queue) <= Slots
    BY UniqueBound DEF DeckInv, NewsTyped
  <2>3. queue \in Seq([slot : 1..Slots, status : Statuses])
        /\ anim \in {NoAnim} \cup [slot : 1..Slots, status : Statuses] /\ session \in BOOLEAN
    BY DEF DeckInv, NewsTyped, EventRecords
  <2>4. /\ tasks \in Seq([id : Threads \cup {None}, status : Statuses, unseen : BOOLEAN,
                          hold : BOOLEAN, green : BOOLEAN, viewed : BOOLEAN])
        /\ Len(tasks) <= Slots
        /\ selected \in 1 .. (IF tasks = <<>> THEN 1 ELSE Len(tasks))
    BY DEF DeckInv, TasksTyped, TaskRecords
  <2>5. /\ staged \in [1..Slots -> [id : Threads \cup {None}, status : Statuses, old : BOOLEAN]]
        /\ open \in BOOLEAN /\ (~open => staged = NothingStaged)
    BY DEF DeckInv, StagingGood, StagedTyped
  <2> QED BY <2>1, <2>2, <2>3, <2>4, <2>5 DEF TypeOK
<1> QED BY <1>1, DeckInvariance, PTL
-----------------------------------------------------------------------------
(* What a batch announces.                                                 *)

\* A slot whose status changed shows a thread that had another one before.
LEMMA ChangedFacts ==
  ASSUME NEW i, ChangedStatus(i)
  PROVE  \E j \in DOMAIN tasks : tasks[j].id = staged[i].id /\ tasks[j].status # staged[i].status
<1>1. Before(i) # {} /\ Was(i) # staged[i].status
  BY DEF ChangedStatus, Was
<1> DEFINE j == CHOOSE j \in Before(i) : TRUE
<1>2. j \in Before(i)
  BY <1>1
<1>3. Was(i) = tasks[j].status
  BY <1>1 DEF Was
<1> HIDE DEF j
<1>4. j \in DOMAIN tasks /\ tasks[j].id = staged[i].id
  BY <1>2 DEF Before
<1> QED BY <1>1, <1>3, <1>4

\* "Keyed by thread id rather than slot, because the host reorders by recency"
\* (main.cpp:369): commit_tasks() announces only a thread whose status is
\* another one than when it was shown last, wherever that was.
THEOREM ReorderCorrect == Spec => ReorderIsNoNews
<1> DEFINE Step ==
      HandleTasks =>
        \A k \in DOMAIN queue' :
          \/ k \in DOMAIN queue /\ queue'[k] = queue[k]
          \/ \E j \in DOMAIN tasks :
               /\ tasks[j].id = tasks'[queue'[k].slot].id
               /\ tasks[j].status # tasks'[queue'[k].slot].status
               /\ tasks'[queue'[k].slot].status = queue'[k].status
<1>1. DeckInv /\ [Next]_vars => [Step]_vars
  <2> SUFFICES ASSUME DeckInv, HandleTasks, NEW k \in DOMAIN queue',
                      ~(k \in DOMAIN queue /\ queue'[k] = queue[k])
               PROVE  \E j \in DOMAIN tasks :
                        /\ tasks[j].id = tasks'[queue'[k].slot].id
                        /\ tasks[j].status # tasks'[queue'[k].slot].status
                        /\ tasks'[queue'[k].slot].status = queue'[k].status
    OBVIOUS
  <2> DEFINE n == Len(host.deck)
             changed == {i \in 1..n : ChangedStatus(i)}
             i == queue'[k].slot
  <2>1. PICK order \in InTurn(changed \ QueuedSlots) : queue' = Queued(changed, order)
    BY DEF HandleTasks, Commit
  <2>2. /\ n \in 0..Slots
        /\ \A s \in 1..n : tasks'[s].id = staged[s].id /\ tasks'[s].status = staged[s].status
    BY CommittedFacts
  <2>3. i \in changed /\ queue'[k] = Event(i)
    <3>1. changed \in SUBSET (1..Slots)
      BY <2>2, DeckConstants
    <3> HIDE DEF changed
    <3> QED BY <2>1, <3>1, QueuedFacts DEF DeckInv, StagingGood, NewsTyped
  <2> HIDE DEF i
  <2>4. i \in 1..n /\ ChangedStatus(i) /\ queue'[k].status = staged[i].status
    BY <2>3 DEF Event
  <2>5. PICK j \in DOMAIN tasks : tasks[j].id = staged[i].id /\ tasks[j].status # staged[i].status
    BY <2>4, ChangedFacts
  <2>6. tasks'[i].id = staged[i].id /\ tasks'[i].status = staged[i].status
    BY <2>2, <2>4
  <2> QED BY <2>4, <2>5, <2>6 DEF i
<1> QED BY <1>1, DeckInvariance, PTL DEF Spec, ReorderIsNoNews

-----------------------------------------------------------------------------
(* The unread mark of a thread.                                            *)

\* Task j is shown in slot i after a step, and has lost its unread mark though
\* it was and is a completion.
Loses(j, i) ==
  /\ tasks[j].id = tasks'[i].id /\ tasks[j].id # None
  /\ Once(tasks, j) /\ Once(tasks', i)
  /\ tasks[j].status = "done" /\ tasks'[i].status = "done"
  /\ tasks[j].unseen /\ ~tasks'[i].unseen

\* A batch carries the mark of the one task that was shown under the thread's id.
LEMMA CarriedMark ==
  ASSUME TasksTyped, NEW i, NEW j \in DOMAIN tasks, Once(tasks, j),
         tasks[j].id = staged[i].id, tasks[j].status = "done", staged[i].status = "done",
         tasks[j].unseen
  PROVE  Carried(i).unseen
<1>1. j \in Before(i)
  <2>1. j \in Int /\ DOMAIN tasks = 1..Len(tasks) /\ Len(tasks) \in Nat
    BY TaskFacts
  <2>2. ASSUME NEW k \in 1 .. j - 1 PROVE tasks[k].id # staged[i].id
    <3>1. k \in DOMAIN tasks /\ k # j
      BY <2>1
    <3> QED BY <3>1 DEF Once
  <2> QED BY <2>2 DEF Before
<1>2. \E x \in Before(i) : tasks[x]["unseen"]
  BY <1>1
<1> QED BY <1>2 DEF Carried

LEMMA BatchKeepsMark ==
  ASSUME DeckInv, HandleTasks, NEW j \in DOMAIN tasks, NEW i \in DOMAIN tasks', Loses(j, i)
  PROVE  i = selected'
<1> DEFINE n == Len(host.deck)
           shown == [k \in 1..n |-> Carried(k)]
           chosen == IF host.hint \in 1..n THEN host.hint ELSE selected
<1>1. /\ n \in 0..Slots /\ i \in 1..n
      /\ tasks'[i].id = staged[i].id /\ tasks'[i].status = staged[i].status
  BY CommittedFacts
<1>2. tasks' = Viewed(shown, chosen) /\ selected' = Clamped(chosen, n)
  BY DEF HandleTasks, Commit
<1>3. shown[i] = Carried(i) /\ Carried(i).unseen
  BY <1>1, CarriedMark DEF Loses, DeckInv
<1>4. i = chosen
  <2>1. ASSUME i # chosen PROVE tasks'[i] = shown[i]
    BY <1>1, <1>2, <2>1 DEF Viewed
  <2> QED BY <1>3, <2>1 DEF Loses
<1>5. selected' = i
  <2> HIDE DEF chosen
  <2> QED BY <1>1, <1>2, <1>4, DeckConstants DEF Clamped
<1> QED BY <1>5

\* A step that leaves the threads in their slots: the mark that is lost is the
\* one of the same slot.
LEMMA SameSlot ==
  ASSUME NEW j \in DOMAIN tasks, NEW i \in DOMAIN tasks, tasks'[i].id = tasks[i].id, Loses(j, i)
  PROVE  i = j
  BY DEF Loses, Once

\* "Background completions remain unread" (main.cpp:420): as long as a thread
\* stays a completion, its unread mark goes with it to its new slot, and ends
\* only when the thread is, or was, the selected one, or with a session, or with
\* the end of an animation in its slot once its lamp has lost the green.
THEOREM BackgroundCorrect == Spec => BackgroundStaysUnread
<1> DEFINE Step ==
      \A j \in DOMAIN tasks, i \in DOMAIN tasks' :
        Loses(j, i) => \/ i = selected' \/ tasks[j].viewed \/ session
                       \/ Finish /\ ~tasks[j].green
<1>1. DeckInv /\ [Next]_vars => [Step]_vars
  <2> SUFFICES ASSUME DeckInv, Next, NEW j \in DOMAIN tasks, NEW i \in DOMAIN tasks', Loses(j, i)
               PROVE  \/ i = selected' \/ tasks[j].viewed \/ session
                      \/ Finish /\ ~tasks[j].green
    OBVIOUS
  <2>0. \A k \in DOMAIN tasks : tasks[k] \in TaskRecords
    BY TaskFacts DEF DeckInv
  <2>1. CASE UNCHANGED tasks
    BY <2>1 DEF Loses, Once
  <2>2. CASE HandleTasks
    BY <2>2, BatchKeepsMark
  <2>3. CASE Finish
    <3>1. /\ i \in DOMAIN tasks
          /\ tasks'[i] = tasks[i] \/ tasks'[i] = Finalised(tasks[i])
      BY <2>3 DEF Finish
    <3>2. tasks'[i].id = tasks[i].id
      BY <2>0, <3>1 DEF Finalised, TaskRecords
    <3>3. i = j
      BY <3>1, <3>2, SameSlot
    <3>4. tasks'[i] = Finalised(tasks[i])
      BY <3>1, <3>3 DEF Loses
    <3>5. tasks'[i].unseen = (tasks[i].green /\ ~tasks[i].viewed)
      BY <2>0, <3>1, <3>4 DEF Finalised, TaskRecords
    <3> QED BY <2>3, <3>3, <3>5 DEF Loses
  <2>4. CASE Settle
    <3>1. /\ selected \in DOMAIN tasks /\ tasks[selected].viewed
          /\ tasks' = [tasks EXCEPT ![selected] =
                         [tasks[selected] EXCEPT !.hold = FALSE, !.unseen = FALSE]]
      BY <2>4 DEF Settle
    <3>2. i \in DOMAIN tasks /\ (i # selected => tasks'[i] = tasks[i])
      BY <3>1
    <3>3. tasks'[i].id = tasks[i].id
      <4>1. [tasks[selected] EXCEPT !.hold = FALSE, !.unseen = FALSE].id = tasks[selected].id
        BY <2>0, <3>1 DEF TaskRecords
      <4> QED BY <3>1, <3>2, <4>1
    <3>4. i = j
      BY <3>2, <3>3, SameSlot
    <3> QED BY <3>1, <3>2, <3>4 DEF Loses
  <2>5. CASE SessionStarts
    <3>1. tasks' = [k \in DOMAIN tasks |-> [tasks[k] EXCEPT !.hold = FALSE]]
      BY <2>5 DEF SessionStarts, Silenced
    <3>2. i \in DOMAIN tasks /\ tasks'[i] = [tasks[i] EXCEPT !.hold = FALSE]
      BY <3>1
    <3>3. tasks'[i].id = tasks[i].id /\ tasks'[i].unseen = tasks[i].unseen
      BY <2>0, <3>2 DEF TaskRecords
    <3>4. i = j
      BY <3>2, <3>3, SameSlot
    <3> QED BY <3>3, <3>4 DEF Loses
  <2>6. CASE LampFrame \/ SessionEnds
    BY <2>6 DEF LampFrame, SessionEnds
  <2> QED
    BY <2>1, <2>2, <2>3, <2>4, <2>5, <2>6
    DEF Next, Serial, Host, Panel, HandleHost, HandleTask, RefuseTasks, IgnoreLine, Expire, Quiet,
        LoseLine, BeginBatch, Start, Select, deck, vars
<1>2. Step => \A j \in DOMAIN tasks, i \in DOMAIN tasks' :
                /\ tasks[j].id = tasks'[i].id /\ tasks[j].id # None
                /\ Once(tasks, j) /\ Once(tasks', i)
                /\ tasks[j].status = "done" /\ tasks'[i].status = "done"
                /\ tasks[j].unseen /\ ~tasks'[i].unseen
                => \/ i = selected' \/ tasks[j].viewed \/ session
                   \/ Finish /\ ~tasks[j].green
  BY DEF Loses
<1> HIDE DEF Step
<1> QED BY <1>1, <1>2, DeckInvariance, PTL DEF Spec, BackgroundStaysUnread
=============================================================================
