------------------------- MODULE CodexSessionProofs -------------------------
(***************************************************************************)
(* Theorems about CodexSession, for every clock width, idle limit, queue   *)
(* capacity and number of resets.                                          *)
(***************************************************************************)
EXTENDS CodexSession, TLAPS

\* A difference of clock readings is cut to the clock's width.
LEMMA ModRange == ASSUME NEW a \in Int, NEW m \in Nat, 1 < m PROVE a % m \in 0 .. (m - 1)
  OBVIOUS

\* A reading that fits the clock's width is not changed by the cut.
LEMMA ModSmall == ASSUME NEW a \in Nat, NEW m \in Nat, a < m PROVE a % m = a
  OBVIOUS

\* Appending to a sequence and taking its head and tail keep its type.
LEMMA AppendType ==
  ASSUME NEW S, NEW q \in Seq(S), NEW e \in S
  PROVE  Append(q, e) \in Seq(S) /\ Len(Append(q, e)) = Len(q) + 1
  OBVIOUS

\* What a sequence holds is of its element type.
LEMMA ElementType ==
  ASSUME NEW S, NEW q \in Seq(S), NEW i \in 1 .. Len(q)
  PROVE  q[i] \in S
  OBVIOUS

LEMMA TailType ==
  ASSUME NEW S, NEW q \in Seq(S), q # <<>>
  PROVE  Tail(q) \in Seq(S) /\ Head(q) \in S /\ Len(Tail(q)) = Len(q) - 1
  OBVIOUS

\* Updating a Boolean flag of one transport keeps the flags Boolean.
LEMMA FlagType ==
  ASSUME NEW S, NEW f \in [S -> BOOLEAN], NEW x, NEW b \in BOOLEAN
  PROVE  [f EXCEPT ![x] = b] \in [S -> BOOLEAN]
  BY Zenon

\* Zero, the stamp of a dead session, is a clock reading, and an empty
\* assembler respects every limit.
LEMMA ZeroType ==
  /\ 0 \in 0 .. (ClockModulus - 1)
  /\ <<>> \in Seq(Reports) /\ Len(<<>>) <= MaxFragments
  BY SessionConstants

\* The empty report is a report.
LEMMA NoReportType == NoReport \in Reports
  BY DEF NoReport, Reports, Transports, AllKinds, Methods, AllParts, Usb, Ble

\* active_transport() names a transport or none.
LEMMA ActiveType == Active \in Transports \cup {None}
  BY DEF Active, Transports

-----------------------------------------------------------------------------
(* Type correctness.                                                       *)

LEMMA InitType == Init => TypeOK
<1> SUFFICES ASSUME Init PROVE TypeOK
  OBVIOUS
<1>1. NoReport \in Reports
  BY NoReportType
<1>2. Nothing \in [Methods -> Nat]
  BY DEF Nothing
<1>3. QED
  BY <1>1, <1>2, SessionConstants DEF Init, TypeOK, Transports, None

\* What the callback tasks do keeps the types.
LEMMA CallbackType ==
  ASSUME TypeOK, NEW s \in Transports, Callback(s)
  PROVE  TypeOK'
<1> USE DEF environment, session, shared, history, TypeOK
<1>1. CASE LinkChange(s)
  <2>1. link' \in [Transports -> BOOLEAN]
    BY <1>1, FlagType DEF LinkChange
  <2>2. sending' \in [Transports -> AllKinds \cup {None}]
    BY <1>1 DEF LinkChange
  <2>3. epoch' \in [Transports -> Nat]
    BY <1>1 DEF LinkChange, BumpEpoch
  <2>4. cbPc' \in [Transports -> {"idle", "bumped", "cleared"}]
    BY <1>1 DEF LinkChange
  <2>5. QED
    BY <1>1, <2>1, <2>2, <2>3, <2>4 DEF LinkChange
<1>2. CASE LinkChangeStamp(s)
  <2>1. raced' \in [Transports -> BOOLEAN]
    BY <1>2, FlagType DEF LinkChangeStamp, ClearStamp
  <2>2. lastValid' \in [Transports -> 0 .. (ClockModulus - 1)]
    BY <1>2, ZeroType DEF LinkChangeStamp, ClearStamp
  <2>3. QED
    BY <1>2, <2>1, <2>2 DEF LinkChangeStamp
<1>3. CASE LinkChangeFlag(s)
  <2>1. resetPending' \in [Transports -> BOOLEAN]
    BY <1>3, FlagType DEF LinkChangeFlag, RaiseReset
  <2>2. QED
    BY <1>3, <2>1 DEF LinkChangeFlag
<1>4. ASSUME NEW kind \in Kinds, NEW part \in Parts, EnqueueReport(s, kind, part)
      PROVE  TypeOK'
  <2> DEFINE r == [source |-> s, epoch |-> epoch[s], kind |-> kind, part |-> part]
  <2>1. r \in Reports
    BY SessionConstants DEF Reports
  <2>2. queue' \in Seq(Reports) /\ Len(queue') <= QueueCapacity
    BY <1>4, <2>1, AppendType, SessionConstants DEF EnqueueReport, Queued
  <2>3. sending' \in [Transports -> AllKinds \cup {None}]
    BY <1>4, SessionConstants DEF EnqueueReport
  <2>4. QED
    BY <1>4, <2>2, <2>3 DEF EnqueueReport
<1>5. QED
  BY <1>1, <1>2, <1>3, <1>4 DEF Callback

\* The parts of the history and of the sessions that several steps rewrite.
LEMMA TakeOverType ==
  ASSUME TypeOK, NEW s \in Transports, TakeOver(s)
  PROVE  /\ owner' \in Transports \cup {None}
         /\ mask' \in [Transports -> SUBSET Methods]
         /\ holdUntil' \in [Transports -> 0 .. (ClockModulus - 1)]
         /\ heard' \in [Transports -> [Methods -> Nat]]
  BY SessionConstants DEF TypeOK, TakeOver, BeginBoth, Nothing

LEMMA PendingResetType ==
  ASSUME TypeOK, NEW s \in Transports, NEW at,
         NEW then \in {"reset_ble", "receive"}, ApplyPendingReset(s, at, then)
  PROVE  TypeOK'
<1> USE DEF ApplyPendingReset, environment, session, shared, history
<1>0. resetPending' \in [Transports -> BOOLEAN]
  BY FlagType DEF TypeOK
<1>1. CASE ~resetPending[s]
  BY <1>0, <1>1 DEF TypeOK
<1>2. CASE resetPending[s]
  <2>1. buffer' \in [Transports -> Seq(Reports)] /\ \A t \in Transports : Len(buffer'[t]) <= MaxFragments
    BY <1>2, ZeroType DEF ResetInput, TypeOK
  <2>2. /\ owner' \in Transports \cup {None}
        /\ mask' \in [Transports -> SUBSET Methods]
        /\ holdUntil' \in [Transports -> 0 .. (ClockModulus - 1)]
        /\ heard' \in [Transports -> [Methods -> Nat]]
    <3>1. CASE owner = s
      BY <1>2, <3>1, ZeroType DEF BeginBoth, Nothing, TypeOK
    <3>2. CASE owner # s
      BY <1>2, <3>2, ZeroType DEF TypeOK
    <3>3. QED
      BY <3>1, <3>2
  <2>3. QED
    BY <1>0, <2>1, <2>2 DEF TypeOK
<1>3. QED
  BY <1>1, <1>2

\* service() keeps the types.
LEMMA ServiceType ==
  ASSUME TypeOK, Service
  PROVE  TypeOK'
<1> USE DEF environment, session, shared, history
<1>1. CASE ApplyPendingReset(Usb, "idle", "reset_ble")
  BY <1>1, PendingResetType DEF Transports
<1>2. CASE ApplyPendingReset(Ble, "reset_ble", "receive")
  BY <1>2, PendingResetType DEF Transports
<1>3. CASE TakeReport
  <2>1. CASE queue = <<>>
    BY <1>3, <2>1 DEF TakeReport, TypeOK
  <2>2. CASE queue # <<>>
    <3>1. Tail(queue) \in Seq(Reports) /\ Head(queue) \in Reports /\ Len(Tail(queue)) = Len(queue) - 1
      BY <2>2, TailType DEF TypeOK
    <3>2. Len(queue) \in Nat
      BY DEF TypeOK
    <3>3. queue' = Tail(queue) /\ report' = Head(queue) /\ pc' = "feed"
      BY <1>3, <2>2 DEF TakeReport
    <3>4. queue' \in Seq(Reports) /\ Len(queue') <= QueueCapacity
      BY <3>1, <3>2, <3>3, SessionConstants DEF TypeOK
    <3>5. QED
      BY <1>3, <3>1, <3>3, <3>4 DEF TakeReport, TypeOK
  <2>3. QED
    BY <2>1, <2>2
<1>4. CASE FeedReport
  <2> DEFINE s == report.source
             text == Append(buffer[s], report)
  <2>0. report \in Reports /\ s \in Transports /\ buffer[s] \in Seq(Reports)
    BY DEF TypeOK, Reports
  <2>1. s \in Transports /\ text \in Seq(Reports)
    BY <2>0, AppendType
  <2>2. /\ buffer' \in [Transports -> Seq(Reports)]
        /\ \A t \in Transports : Len(buffer'[t]) <= MaxFragments
        /\ line' \in Seq(Reports)
        /\ pc' \in {"receive", "parse"}
    <3>1. CASE buffer' = buffer /\ line' = line /\ pc' = "receive"
      BY <3>1 DEF TypeOK
    <3>2. CASE buffer' = [buffer EXCEPT ![s] = <<>>] /\ line' = line /\ pc' = "receive"
      BY <2>1, <3>2, SessionConstants DEF TypeOK
    <3>3. CASE /\ Len(text) <= MaxFragments
               /\ buffer' = [buffer EXCEPT ![s] = text]
               /\ line' = line /\ pc' = "receive"
      BY <2>1, <3>3 DEF TypeOK
    <3>4. CASE /\ buffer' = [buffer EXCEPT ![s] = <<>>]
               /\ line' = text /\ pc' = "parse"
      BY <2>1, <3>4, SessionConstants DEF TypeOK
    <3>5. QED
      BY <1>4, <3>1, <3>2, <3>3, <3>4 DEF FeedReport
  <2>3. QED
    BY <1>4, <2>2 DEF FeedReport, TypeOK
<1>5. CASE StampValid
  <2>1. report.epoch \in Nat
    BY DEF TypeOK, Reports
  <2>2. /\ lastValid' \in [Transports -> 0 .. (ClockModulus - 1)]
        /\ stampEpoch' \in [Transports -> Nat]
        /\ pc' \in {"claim", "receive"}
    BY <1>5, <2>1 DEF StampValid, TypeOK
  <2>3. QED
    BY <1>5, <2>2 DEF StampValid, TypeOK
<1>6. CASE ClaimPresentation
  <2>1. report.source \in Transports
    BY DEF TypeOK, Reports
  <2>2. /\ owner' \in Transports \cup {None}
        /\ mask' \in [Transports -> SUBSET Methods]
        /\ holdUntil' \in [Transports -> 0 .. (ClockModulus - 1)]
        /\ heard' \in [Transports -> [Methods -> Nat]]
    BY <1>6, <2>1, TakeOverType DEF ClaimPresentation, TypeOK
  <2>3. QED
    BY <1>6, <2>2 DEF ClaimPresentation, TypeOK
<1>7. CASE ApplyMethod
  <2>1. report.source \in Transports /\ report.epoch \in Nat
    BY DEF TypeOK, Reports
  <2>2. (now + Settle) % ClockModulus \in 0 .. (ClockModulus - 1)
    BY ModRange, SessionConstants DEF TypeOK
  <2>3. /\ mask' \in [Transports -> SUBSET Methods]
        /\ holdUntil' \in [Transports -> 0 .. (ClockModulus - 1)]
        /\ heard' \in [Transports -> [Methods -> Nat]]
    <3>1. CASE Note(report.source, report.kind) /\ report.kind \in Methods
      BY <2>1, <2>2, <3>1 DEF Note, TypeOK
    <3>2. CASE UNCHANGED <<session, heard>>
      BY <3>2 DEF TypeOK
    <3>3. QED
      BY <1>7, <3>1, <3>2 DEF ApplyMethod
  <2>4. QED
    BY <1>7, <2>3, ZeroType DEF ApplyMethod, TypeOK
<1>8. CASE ElectOwner
  <2>1. MustElect => Active \in Transports
    BY ActiveType DEF MustElect
  <2>2. /\ owner' \in Transports \cup {None}
        /\ mask' \in [Transports -> SUBSET Methods]
        /\ holdUntil' \in [Transports -> 0 .. (ClockModulus - 1)]
        /\ heard' \in [Transports -> [Methods -> Nat]]
    BY <1>8, <2>1, TakeOverType DEF ElectOwner, TypeOK
  <2>3. QED
    BY <1>8, <2>2, NoReportType, ZeroType DEF ElectOwner, TypeOK
<1>9. QED
  BY <1>1, <1>2, <1>3, <1>4, <1>5, <1>6, <1>7, <1>8 DEF Service

LEMMA NextType == TypeOK /\ [Next]_vars => TypeOK'
<1> SUFFICES ASSUME TypeOK, [Next]_vars PROVE TypeOK'
  OBVIOUS
<1> USE DEF environment, session, shared, history
<1>1. CASE Service
  BY <1>1, ServiceType
<1>2. ASSUME NEW s \in Transports, Callback(s) PROVE TypeOK'
  BY <1>2, CallbackType
<1>3. CASE ToggleUsb
  <2>1. link' \in [Transports -> BOOLEAN]
    BY <1>3, FlagType DEF ToggleUsb, TypeOK
  <2>2. usbEnabled' \in BOOLEAN
    BY <1>3 DEF ToggleUsb, TypeOK
  <2>3. sending' \in [Transports -> AllKinds \cup {None}]
    BY <1>3 DEF ToggleUsb, TypeOK
  <2>4. epoch' \in [Transports -> Nat]
    BY <1>3 DEF ToggleUsb, BumpEpoch, TypeOK, Transports
  <2>5. QED
    BY <1>3, <2>1, <2>2, <2>3, <2>4 DEF ToggleUsb, TypeOK
<1>4. CASE ForgetBonds
  <2>1. epoch' \in [Transports -> Nat]
    BY <1>4 DEF ForgetBonds, BumpEpoch, TypeOK, Transports
  <2>2. QED
    BY <1>4, <2>1 DEF ForgetBonds, TypeOK
<1>5. CASE FinishReset
  <2>1. ASSUME NEW s \in Transports, NEW at, NEW then \in {"toggle_flag", "forget_flag"},
               ResetStamp(s, at, then)
        PROVE  TypeOK'
    <3>1. raced' \in [Transports -> BOOLEAN]
      BY <2>1, FlagType DEF ResetStamp, ClearStamp, TypeOK
    <3>2. lastValid' \in [Transports -> 0 .. (ClockModulus - 1)]
      BY <2>1, ZeroType DEF ResetStamp, ClearStamp, TypeOK
    <3>3. QED
      BY <2>1, <3>1, <3>2 DEF ResetStamp, TypeOK
  <2>2. ASSUME NEW s \in Transports, NEW at, ResetFlag(s, at)
        PROVE  TypeOK'
    <3>1. resetPending' \in [Transports -> BOOLEAN]
      BY <2>2, FlagType DEF ResetFlag, RaiseReset, TypeOK
    <3>2. QED
      BY <2>2, <3>1 DEF ResetFlag, TypeOK
  <2>3. QED
    BY <1>5, <2>1, <2>2 DEF FinishReset, Transports
<1>6. CASE BeginSessionSync
  BY <1>6, SessionConstants DEF BeginSessionSync, BeginBoth, Nothing, TypeOK
<1>7. CASE Tick
  <2>1. now' \in 0 .. (ClockModulus - 1)
    BY <1>7, ModRange, SessionConstants DEF Tick, TypeOK
  <2>2. QED
    BY <1>7, <2>1 DEF Tick, TypeOK
<1>8. CASE UNCHANGED vars
  BY <1>8 DEF vars, TypeOK
<1>9. QED
  BY <1>1, <1>2, <1>3, <1>4, <1>5, <1>6, <1>7, <1>8 DEF Next, Main

\* The queue, the assemblers, the trackers and the atomics keep their types
\* and their capacities, whatever the interleaving.
THEOREM TypeCorrect == Spec => []TypeOK
<1>1. Init => TypeOK
  BY InitType
<1>2. TypeOK /\ [Next]_vars => TypeOK'
  BY NextType
<1>3. QED
  BY <1>1, <1>2, PTL DEF Spec

-----------------------------------------------------------------------------
(* Who owns the presentation, while the clock does not wrap.               *)

\* The clock has not wrapped: no stamp lies in the future.
ClockInv ==
  /\ now <= MaxTime
  /\ \A s \in Transports : lastValid[s] <= now

\* OwnerIsLive, kept also while the main task resets a transport.
OwnerInv ==
  pc \in {"idle", "toggle_stamp", "toggle_flag", "forget_stamp", "forget_flag"} =>
    /\ Alive(Usb) => owner = Usb
    /\ owner = None => ~Alive(Usb) /\ ~Alive(Ble)

IInv == TypeOK /\ ClockInv /\ OwnerInv

\* Only StampValid writes a stamp other than 0; the others keep or clear it.
KeepsOrClears(s) == lastValid'[s] = lastValid[s] \/ lastValid'[s] = 0

\* A step that neither stamps a session nor turns the clock back does not
\* make it alive.
LEMMA NotRevived ==
  ASSUME MaxTime < ClockModulus, TypeOK, ClockInv, NEW s \in Transports,
         KeepsOrClears(s), now' \in {now, now + 1}, now' < ClockModulus
  PROVE  Alive(s)' => Alive(s)
<1> SUFFICES ASSUME Alive(s)' PROVE Alive(s)
  OBVIOUS
<1>1. lastValid'[s] # 0 /\ lastValid'[s] = lastValid[s]
  BY DEF Alive, KeepsOrClears
<1>2. /\ now \in Nat /\ now' \in Nat /\ lastValid[s] \in Nat
      /\ lastValid[s] <= now /\ now <= now' /\ ClockModulus \in Nat /\ SessionIdle \in Nat
  BY SessionConstants DEF TypeOK, ClockInv
<1>3. now' - lastValid[s] \in Nat /\ now' - lastValid[s] < ClockModulus
  BY <1>2
<1>4. now - lastValid[s] \in Nat /\ now - lastValid[s] < ClockModulus
  BY <1>2
<1>5. (now' - lastValid[s]) % ClockModulus = now' - lastValid[s]
  BY <1>2, <1>3, ModSmall
<1>6. (now - lastValid[s]) % ClockModulus = now - lastValid[s]
  BY <1>2, <1>4, ModSmall
<1>7. now' - lastValid[s] <= SessionIdle
  BY <1>1, <1>5 DEF Alive, Elapsed
<1>8. now - lastValid[s] <= SessionIdle
  BY <1>2, <1>7
<1>9. QED
  BY <1>1, <1>6, <1>8 DEF Alive, Elapsed

\* Every step but StampValid and Tick keeps or clears the stamps, and leaves the
\* clock alone.
LEMMA QuietSteps ==
  ASSUME TypeOK, [Next]_vars, ~StampValid, ~Tick
  PROVE  (\A s \in Transports : KeepsOrClears(s)) /\ now' = now
<1> USE DEF KeepsOrClears, shared
<1>1. ASSUME NEW t \in Transports, Callback(t)
      PROVE  (\A s \in Transports : KeepsOrClears(s)) /\ now' = now
  <2>1. CASE LinkChangeStamp(t)
    BY <2>1 DEF LinkChangeStamp, ClearStamp, TypeOK
  <2>2. CASE ~LinkChangeStamp(t)
    BY <1>1, <2>2 DEF Callback, LinkChange, LinkChangeFlag, EnqueueReport
  <2>3. QED
    BY <2>1, <2>2
<1>2. CASE Service
  BY <1>2 DEF Service, ApplyPendingReset, TakeReport, FeedReport, ClaimPresentation,
              ApplyMethod, ElectOwner
<1>3. CASE FinishReset
  BY <1>3 DEF FinishReset, ResetStamp, ResetFlag, ClearStamp, TypeOK, Transports
<1>4. CASE ToggleUsb \/ ForgetBonds \/ BeginSessionSync
  BY <1>4 DEF ToggleUsb, ForgetBonds, BeginSessionSync
<1>5. CASE UNCHANGED vars
  BY <1>5 DEF vars
<1>6. QED
  BY <1>1, <1>2, <1>3, <1>4, <1>5 DEF Next, Main

\* Every step but StampValid keeps or clears the stamps, and the clock moves
\* by at most one unit and stays within its bound.
LEMMA OtherSteps ==
  ASSUME MaxTime < ClockModulus, TypeOK, ClockInv, [Next]_vars, ~StampValid
  PROVE  /\ \A s \in Transports : KeepsOrClears(s)
         /\ now' \in {now, now + 1} /\ now' <= MaxTime
<1>1. CASE Tick
  <2>1. now \in Nat /\ now + 1 <= MaxTime /\ now + 1 < ClockModulus /\ now + 1 \in Nat
    BY <1>1, SessionConstants DEF Tick, TypeOK, ClockInv
  <2>2. now' = now + 1
    BY <1>1, <2>1, ModSmall, SessionConstants DEF Tick
  <2>3. QED
    BY <1>1, <2>1, <2>2 DEF Tick, shared, KeepsOrClears
<1>2. CASE ~Tick
  BY <1>2, QuietSteps DEF ClockInv
<1>3. QED
  BY <1>1, <1>2

LEMMA ClockStep ==
  ASSUME MaxTime < ClockModulus, TypeOK, ClockInv, [Next]_vars
  PROVE  ClockInv'
<1>1. CASE StampValid
  <2>1. now' = now
    BY <1>1 DEF StampValid
  <2>2. ASSUME NEW s \in Transports PROVE lastValid'[s] \in {now, lastValid[s]}
    BY <1>1 DEF StampValid, TypeOK
  <2>3. now \in Nat
    BY DEF TypeOK
  <2>4. QED
    BY <2>1, <2>2, <2>3 DEF ClockInv
<1>2. CASE ~StampValid
  <2>1. /\ \A s \in Transports : KeepsOrClears(s)
        /\ now' \in {now, now + 1} /\ now' <= MaxTime
    BY <1>2, OtherSteps
  <2>2. now \in Nat /\ lastValid \in [Transports -> Nat]
    BY SessionConstants DEF TypeOK
  <2>3. ASSUME NEW s \in Transports PROVE lastValid'[s] <= now'
    BY <2>1, <2>2 DEF KeepsOrClears, ClockInv
  <2>4. QED
    BY <2>1, <2>3 DEF ClockInv
<1>3. QED
  BY <1>1, <1>2

LEMMA OwnerStep ==
  ASSUME MaxTime < ClockModulus, IInv, [Next]_vars
  PROVE  OwnerInv'
<1> USE DEF IInv
<1> DEFINE Resting == {"idle", "toggle_stamp", "toggle_flag", "forget_stamp", "forget_flag"}
<1> SUFFICES ASSUME pc' \in Resting
             PROVE  /\ Alive(Usb)' => owner' = Usb
                    /\ owner' = None => ~Alive(Usb)' /\ ~Alive(Ble)'
  BY DEF OwnerInv
<1>1. ~StampValid
  <2>1. StampValid => pc' = "claim" \/ pc' = "receive"
    BY DEF StampValid
  <2>2. QED
    BY <2>1
<1>2. now' < ClockModulus
  BY <1>1, OtherSteps, SessionConstants DEF ClockInv, TypeOK
<1>3. \A s \in Transports : Alive(s)' => Alive(s)
  BY <1>1, <1>2, OtherSteps, NotRevived
<1>4. Usb \in Transports /\ Ble \in Transports /\ None # Usb /\ None # Ble
  BY DEF Transports, Usb, Ble, None
<1>5. CASE ElectOwner
  <2>1. Active = None => ~Alive(Usb) /\ ~Alive(Ble)
    BY <1>4 DEF Active
  <2>2. Alive(Usb) => Active = Usb
    BY DEF Active
  <2>3. owner' = IF Active # None THEN Active ELSE owner
    BY <1>5 DEF ElectOwner, MustElect, TakeOver
  <2>4. QED
    BY <1>3, <1>4, <2>1, <2>2, <2>3
<1>6. CASE BeginSessionSync
  BY <1>3, <1>4, <1>6 DEF BeginSessionSync, Active
<1>7. CASE pc \in Resting /\ owner' = owner
  BY <1>3, <1>4, <1>7 DEF OwnerInv
<1>8. ASSUME NEW t \in Transports, Callback(t) PROVE pc' = pc /\ owner' = owner
  BY <1>8 DEF Callback, LinkChange, LinkChangeStamp, LinkChangeFlag, EnqueueReport
<1>9. Service => ElectOwner
  BY DEF Service, ApplyPendingReset, TakeReport, FeedReport, StampValid,
         ClaimPresentation, ApplyMethod
<1>10. Main => \/ ElectOwner \/ BeginSessionSync \/ (pc \in Resting /\ owner' = owner)
  BY <1>9 DEF Main, ToggleUsb, ForgetBonds, FinishReset, ResetStamp, ResetFlag
<1>11. Tick \/ UNCHANGED vars => pc' = pc /\ owner' = owner
  BY DEF Tick, vars
<1>12. QED
  BY <1>5, <1>6, <1>7, <1>8, <1>10, <1>11 DEF Next

LEMMA InitIInv == ASSUME 1 <= MaxTime PROVE Init => IInv
<1> SUFFICES ASSUME Init PROVE IInv
  OBVIOUS
<1>1. TypeOK
  BY InitType
<1>2. ClockInv
  BY DEF Init, ClockInv
<1>3. OwnerInv
  BY DEF Init, OwnerInv, Alive, Transports, Usb, Ble
<1>4. QED
  BY <1>1, <1>2, <1>3 DEF IInv

\* Between two calls of service() a live USB session owns the presentation and
\* no live session is without an owner: for every idle limit, queue capacity
\* and number of resets, as long as the 32-bit clock has not wrapped.
THEOREM OwnerCorrect ==
  ASSUME 1 <= MaxTime, MaxTime < ClockModulus
  PROVE  Spec => []OwnerIsLive
<1>1. Init => IInv
  BY InitIInv
<1>2. IInv /\ [Next]_vars => IInv'
  BY NextType, ClockStep, OwnerStep DEF IInv
<1>3. IInv => OwnerIsLive
  BY DEF IInv, OwnerInv, OwnerIsLive
<1>4. QED
  BY <1>1, <1>2, <1>3, PTL DEF Spec

\* The difference of two values of the clock, and what one tick makes of it.
LEMMA NextElapsed ==
  ASSUME TypeOK, NEW v \in 0 .. (ClockModulus - 1), now' = (now + 1) % ClockModulus,
         (now' - v) % ClockModulus <= SessionIdle,
         ~((now - v) % ClockModulus <= SessionIdle)
  PROVE  now' = v
<1>1. /\ now \in 0 .. (ClockModulus - 1) /\ ClockModulus \in Nat /\ SessionIdle \in Nat
      /\ 1 < ClockModulus
  BY SessionConstants DEF TypeOK
<1>2. now' = IF now + 1 = ClockModulus THEN 0 ELSE now + 1
  <2>1. CASE now + 1 = ClockModulus
    BY <1>1, <2>1
  <2>2. CASE now + 1 # ClockModulus
    BY <1>1, <2>2, ModSmall
  <2>3. QED
    BY <2>1, <2>2
<1>3. ASSUME NEW a \in 0 .. (ClockModulus - 1)
      PROVE  (a - v) % ClockModulus = IF v <= a THEN a - v ELSE a - v + ClockModulus
  <2>1. CASE v <= a
    BY <1>1, <2>1, ModSmall
  <2>2. CASE a < v
    BY <1>1, <2>2
  <2>3. QED
    BY <1>1, <2>1, <2>2
<1>4. now' \in 0 .. (ClockModulus - 1)
  BY <1>1, <1>2
<1>5. (now - v) % ClockModulus = IF v <= now THEN now - v ELSE now - v + ClockModulus
  BY <1>1, <1>3
<1>6. (now' - v) % ClockModulus = IF v <= now' THEN now' - v ELSE now' - v + ClockModulus
  BY <1>3, <1>4
<1>7. QED
  BY <1>1, <1>2, <1>5, <1>6

\* Nothing but a valid RPC makes a session alive, the clock apart when it stands
\* at the value of the stamp again: for every width of the clock, every idle limit
\* and any number of turns of the clock.
THEOREM RevivalCorrect == Spec => RevivedOnlyByRpc
<1> DEFINE Step == \A s \in Transports :
                     ~Alive(s) /\ Alive(s)' =>
                       \/ pc = "parse" /\ report.source = s
                       \/ now' # now /\ now' = lastValid[s] /\ lastValid' = lastValid
<1>1. Init => TypeOK
  BY InitType
<1>2. TypeOK /\ [Next]_vars => TypeOK'
  BY NextType
<1>3. TypeOK /\ [Next]_vars => [Step]_vars
  <2> SUFFICES ASSUME TypeOK, [Next]_vars, NEW s \in Transports, ~Alive(s), Alive(s)'
               PROVE  \/ pc = "parse" /\ report.source = s
                      \/ now' # now /\ now' = lastValid[s] /\ lastValid' = lastValid
    OBVIOUS
  <2>1. CASE StampValid
    <3>1. pc = "parse" /\ now' = now
      BY <2>1 DEF StampValid
    <3>2. ASSUME s # report.source PROVE lastValid'[s] = lastValid[s]
      BY <2>1, <3>2 DEF StampValid, TypeOK
    <3>3. QED
      BY <3>1, <3>2 DEF Alive, Elapsed
  <2>2. CASE Tick
    <3>1. now' = (now + 1) % ClockModulus /\ lastValid' = lastValid
      BY <2>2 DEF Tick, shared
    <3>2. PICK v \in 0 .. (ClockModulus - 1) : v = lastValid[s]
      BY DEF TypeOK
    <3>3. /\ (now' - v) % ClockModulus <= SessionIdle
          /\ ~((now - v) % ClockModulus <= SessionIdle)
      BY <3>1, <3>2 DEF Alive, Elapsed
    <3>4. now' = v
      BY <3>1, <3>3, NextElapsed
    <3>5. now' # now
      BY <3>3
    <3>6. QED
      BY <3>1, <3>2, <3>4, <3>5
  <2>3. CASE ~StampValid /\ ~Tick
    <3>1. KeepsOrClears(s) /\ now' = now
      BY <2>3, QuietSteps
    <3>2. QED
      BY <3>1 DEF KeepsOrClears, Alive, Elapsed
  <2>4. QED
    BY <2>1, <2>2, <2>3
<1>4. QED
  BY <1>1, <1>2, <1>3, PTL DEF Spec, RevivedOnlyByRpc

-----------------------------------------------------------------------------
(* The stamps of ended connections.                                        *)

\* StaleStampOnlyByRace, kept also between the three stores of a reset: a stamp,
\* or a line about to be stamped, of an ended connection is known to the reset
\* that has yet to clear it, or was in the main task's hands when it did.
StampInv ==
  \A s \in Transports :
    /\ lastValid[s] # 0 /\ stampEpoch[s] # epoch[s] =>
         \/ cbPc[s] = "bumped"
         \/ pc = IF s = Usb THEN "toggle_stamp" ELSE "forget_stamp"
         \/ raced[s]
    /\ pc = "parse" /\ report.source = s /\ report.epoch # epoch[s] =>
         cbPc[s] = "bumped" \/ raced[s]

\* What the callback of one transport does keeps StampInv.
LEMMA CallbackStamp ==
  ASSUME TypeOK, StampInv, NEW t \in Transports, Callback(t)
  PROVE  StampInv'
<1> USE DEF TypeOK, environment, session, shared, history
<1>1. CASE LinkChange(t)
  BY <1>1 DEF LinkChange, BumpEpoch, StampInv
<1>2. CASE LinkChangeStamp(t)
  <2>1. /\ lastValid' = [lastValid EXCEPT ![t] = 0]
        /\ raced'[t] = (pc \in {"parse", "claim", "apply"} /\ report.source = t)
        /\ \A s \in Transports : s # t => raced'[s] = raced[s]
    BY <1>2, Zenon DEF LinkChangeStamp, ClearStamp
  <2>2. /\ stampEpoch' = stampEpoch /\ epoch' = epoch /\ pc' = pc /\ report' = report
        /\ \A s \in Transports : s # t => cbPc'[s] = cbPc[s]
    BY <1>2 DEF LinkChangeStamp
  <2>3. QED
    BY <2>1, <2>2 DEF StampInv
<1>3. CASE LinkChangeFlag(t)
  BY <1>3 DEF LinkChangeFlag, StampInv
<1>4. ASSUME NEW kind \in Kinds, NEW part \in Parts, EnqueueReport(t, kind, part)
      PROVE  StampInv'
  BY <1>4 DEF EnqueueReport, StampInv
<1>5. QED
  BY <1>1, <1>2, <1>3, <1>4 DEF Callback

LEMMA StampStep == TypeOK /\ StampInv /\ [Next]_vars => StampInv'
<1> SUFFICES ASSUME TypeOK, StampInv, [Next]_vars PROVE StampInv'
  OBVIOUS
<1> USE DEF TypeOK, environment, session, shared, history
<1>1. ASSUME NEW t \in Transports, Callback(t) PROVE StampInv'
  BY <1>1, CallbackStamp
<1>2. CASE StampValid
  <2>1. \A s \in Transports : s # report.source =>
          lastValid'[s] = lastValid[s] /\ stampEpoch'[s] = stampEpoch[s]
    BY <1>2 DEF StampValid
  <2>2. stampEpoch'[report.source] # epoch[report.source] =>
          \/ lastValid'[report.source] = lastValid[report.source] /\ stampEpoch' = stampEpoch
          \/ report.epoch # epoch[report.source]
    BY <1>2 DEF StampValid, Reports
  <2>3. /\ pc = "parse" /\ pc' # "parse" /\ pc' \notin {"toggle_stamp", "forget_stamp"}
        /\ epoch' = epoch /\ cbPc' = cbPc /\ raced' = raced
    BY <1>2 DEF StampValid
  <2>4. QED
    BY <2>1, <2>2, <2>3 DEF StampInv
<1>3. CASE FeedReport
  <2>1. pc' = "parse" => report.epoch = epoch[report.source]
    BY <1>3 DEF FeedReport, Current
  <2>2. /\ pc = "feed" /\ epoch' = epoch /\ cbPc' = cbPc /\ raced' = raced /\ report' = report
        /\ lastValid' = lastValid /\ stampEpoch' = stampEpoch
    BY <1>3 DEF FeedReport
  <2>3. QED
    BY <2>1, <2>2 DEF StampInv
<1>4. CASE \/ ApplyPendingReset(Usb, "idle", "reset_ble")
           \/ ApplyPendingReset(Ble, "reset_ble", "receive")
           \/ TakeReport \/ ClaimPresentation \/ ApplyMethod \/ ElectOwner
  <2>1. /\ pc' # "parse" /\ pc \notin {"toggle_stamp", "forget_stamp"}
        /\ epoch' = epoch /\ cbPc' = cbPc /\ raced' = raced
        /\ lastValid' = lastValid /\ stampEpoch' = stampEpoch
    BY <1>4 DEF ApplyPendingReset, TakeReport, ClaimPresentation, ApplyMethod, ElectOwner
  <2>2. QED
    BY <2>1 DEF StampInv
<1>5. CASE ToggleUsb \/ ForgetBonds
  BY <1>5 DEF ToggleUsb, ForgetBonds, BumpEpoch, StampInv, Transports, Usb, Ble
<1>6. ASSUME NEW t \in Transports, NEW at, NEW then \in {"toggle_flag", "forget_flag"},
             ResetStamp(t, at, then), at = IF t = Usb THEN "toggle_stamp" ELSE "forget_stamp"
      PROVE  StampInv'
  <2>1. /\ lastValid' = [lastValid EXCEPT ![t] = 0] /\ pc = at /\ pc' = then
        /\ stampEpoch' = stampEpoch /\ epoch' = epoch /\ cbPc' = cbPc
        /\ \A s \in Transports : s # t => raced'[s] = raced[s]
    BY <1>6, Zenon DEF ResetStamp, ClearStamp
  <2>2. \A s \in Transports : s # t => pc # IF s = Usb THEN "toggle_stamp" ELSE "forget_stamp"
    BY <1>6, <2>1 DEF Transports, Usb, Ble
  <2>3. QED
    BY <2>1, <2>2 DEF StampInv
<1>7. CASE FinishReset
  <2>1. Usb \in Transports /\ Ble \in Transports /\ Ble # Usb
    BY DEF Transports, Usb, Ble
  <2>2. CASE ResetFlag(Usb, "toggle_flag") \/ ResetFlag(Ble, "forget_flag")
    BY <2>2 DEF ResetFlag, StampInv
  <2>3. QED
    BY <1>6, <1>7, <2>1, <2>2 DEF FinishReset
<1>8. CASE BeginSessionSync \/ Tick \/ UNCHANGED vars
  BY <1>8 DEF BeginSessionSync, Tick, vars, StampInv
<1>9. QED
  BY <1>1, <1>2, <1>3, <1>4, <1>5, <1>7, <1>8 DEF Next, Main, Service

\* A stamp that outlives its connection comes from a line that was being handled
\* when the reset ran: nothing else leaves one, for any number of resets of both
\* transports and wherever the callbacks interrupt the main task.
THEOREM StaleStampCorrect == Spec => []StaleStampOnlyByRace
<1>1. Init => TypeOK /\ StampInv
  BY InitType DEF Init, StampInv
<1>2. (TypeOK /\ StampInv) /\ [Next]_vars => (TypeOK /\ StampInv)'
  BY NextType, StampStep
<1>3. StampInv => StaleStampOnlyByRace
  BY DEF StampInv, StaleStampOnlyByRace
<1>4. QED
  BY <1>1, <1>2, <1>3, PTL DEF Spec

-----------------------------------------------------------------------------
(* The fragments and the handshake of one connection, as long as the host  *)
(* does not report before service() has applied the reset of its           *)
(* connection.                                                             *)

\* What the transport has assembled and heard is of connection e.
Mine(s, e) ==
  /\ \A i \in 1 .. Len(buffer[s]) : buffer[s][i].epoch = e
  /\ \A m \in mask[s] : heard[s][m] = e

\* The main task is at the second or the third store of a reset of the transport.
Switching(s) == IF s = Usb THEN {"toggle_stamp", "toggle_flag"}
                           ELSE {"forget_stamp", "forget_flag"}

\* The main task is outside service().
Outside == {"idle"} \cup Switching(Usb) \cup Switching(Ble)
InHand == {"parse", "claim", "apply"}

\* A reset of the transport has begun, or is raised and not yet applied.
Pending(s) == resetPending[s] \/ cbPc[s] # "idle" \/ pc \in Switching(s)

\* service() will not accept a report of the transport that it can reach now.
NoneCurrent(s) ==
  /\ \A i \in 1 .. Len(queue) : queue[i].source = s => queue[i].epoch # epoch[s]
  /\ pc = "feed" /\ report.source = s => report.epoch # epoch[s]

\* The reset of the transport is applied before the next report is taken.
Waiting(s) ==
  \/ pc \in Switching(s)
  \/ resetPending[s] /\ (pc \in Outside \/ (s = Ble /\ pc = "reset_ble"))

\* No report is of a connection to come.
NotAhead ==
  /\ \A s \in Transports : 1 <= epoch[s]
  /\ \A i \in 1 .. Len(queue) : queue[i].epoch <= epoch[queue[i].source]
  /\ report.epoch <= epoch[report.source]

\* What a transport holds is of its connection, or of an ended one whose reset
\* is under way, and then nothing of the new connection gets to it.
Kept(s) ==
  \/ Mine(s, epoch[s])
  \/ /\ Pending(s)
     /\ NoneCurrent(s) \/ Waiting(s)
     /\ \E e \in 0 .. epoch[s] : Mine(s, e)

Unmixed == \A s \in Transports : Kept(s)

\* The line being handled is of one connection, the one the transport's
\* handshake is of, though that connection may have ended meanwhile.
HeldLine ==
  pc \in InHand =>
    /\ Mine(report.source, report.epoch)
    /\ \A i \in 1 .. Len(line) : line[i].epoch = report.epoch
    /\ report.epoch # epoch[report.source] =>
         Pending(report.source) /\ NoneCurrent(report.source)

ConnInv == NotAhead /\ Unmixed /\ HeldLine

\* A step that only empties the assembler or forgets the handshake.
Fewer(s) ==
  /\ buffer'[s] = buffer[s] \/ buffer'[s] = <<>>
  /\ mask'[s] = {} \/ (mask'[s] = mask[s] /\ heard'[s] = heard[s])

LEMMA MineFewer ==
  ASSUME NEW s \in Transports, Fewer(s), NEW e, Mine(s, e)
  PROVE  Mine(s, e)'
<1>1. CASE buffer'[s] = buffer[s]
  BY <1>1 DEF Fewer, Mine
<1>2. CASE buffer'[s] = <<>>
  BY <1>2 DEF Fewer, Mine
<1>3. QED
  BY <1>1, <1>2 DEF Fewer

\* An empty assembler that has heard nothing is of every connection.
LEMMA MineEmpty ==
  ASSUME NEW s \in Transports, NEW e, buffer'[s] = <<>>, mask'[s] = {}
  PROVE  Mine(s, e)'
  BY DEF Mine

\* The epoch of a transport only grows, by one.
LEMMA NotAheadKept ==
  ASSUME TypeOK, NotAhead, queue' = queue, report' = report \/ report' = NoReport,
         \A s \in Transports : epoch'[s] \in {epoch[s], epoch[s] + 1}
  PROVE  NotAhead'
<1>0. epoch \in [Transports -> Nat] /\ queue \in Seq(Reports) /\ report \in Reports
  BY DEF TypeOK
<1>1. \A s \in Transports : epoch[s] \in Nat /\ epoch'[s] \in Nat /\ epoch[s] <= epoch'[s]
  <2> SUFFICES ASSUME NEW s \in Transports
               PROVE  epoch[s] \in Nat /\ epoch'[s] \in Nat /\ epoch[s] <= epoch'[s]
    OBVIOUS
  <2>1. epoch[s] \in Nat /\ epoch'[s] \in {epoch[s], epoch[s] + 1}
    BY <1>0
  <2>2. QED
    BY <2>1
<1>2. \A i \in 1 .. Len(queue) : queue[i].source \in Transports /\ queue[i].epoch \in Nat
  <2> SUFFICES ASSUME NEW i \in 1 .. Len(queue)
               PROVE  queue[i].source \in Transports /\ queue[i].epoch \in Nat
    OBVIOUS
  <2>1. queue[i] \in Reports
    BY <1>0, ElementType
  <2>2. QED
    BY <2>1 DEF Reports
<1>3. report.source \in Transports /\ report.epoch \in Nat
  BY DEF TypeOK, Reports
<1>4. NoReport.source \in Transports /\ NoReport.epoch = 1
  BY DEF NoReport, Transports
<1>5. \A s \in Transports : 1 <= epoch'[s]
  BY <1>1 DEF NotAhead
<1>6. \A i \in 1 .. Len(queue) : queue[i].epoch <= epoch'[queue[i].source]
  BY <1>1, <1>2 DEF NotAhead
<1>7. report'.epoch <= epoch'[report'.source]
  <2>1. CASE report' = report
    BY <1>1, <1>3, <2>1 DEF NotAhead
  <2>2. CASE report' = NoReport
    BY <1>4, <1>5, <2>2
  <2>3. QED
    BY <2>1, <2>2
<1>8. QED
  BY <1>5, <1>6, <1>7 DEF NotAhead

\* A step that adds nothing to a transport, leaves its epoch and its reports
\* alone and completes no reset of it.
Plain(s) ==
  /\ Fewer(s)
  /\ epoch'[s] = epoch[s]
  /\ Pending(s) => Pending(s)'
  /\ Waiting(s) => Waiting(s)'
  /\ NoneCurrent(s) => NoneCurrent(s)'

LEMMA PlainKept ==
  ASSUME NEW s \in Transports, Plain(s), Kept(s)
  PROVE  Kept(s)'
<1>1. CASE Mine(s, epoch[s])
  <2>1. Mine(s, epoch[s])'
    <3>1. PICK e \in {epoch[s]} : e = epoch[s]
      OBVIOUS
    <3>2. Mine(s, e)
      BY <1>1, <3>1
    <3>3. Mine(s, e)'
      BY <3>2, MineFewer DEF Plain
    <3>4. QED
      BY <3>1, <3>3 DEF Plain, Mine
  <2>2. QED
    BY <2>1 DEF Kept
<1>2. CASE ~Mine(s, epoch[s])
  <2>1. PICK e \in 0 .. epoch[s] : Mine(s, e)
    BY <1>2 DEF Kept
  <2>2. Mine(s, e)'
    BY <2>1, MineFewer DEF Plain
  <2>3. Pending(s)' /\ (NoneCurrent(s)' \/ Waiting(s)')
    BY <1>2 DEF Kept, Plain
  <2>4. QED
    BY <2>1, <2>2, <2>3 DEF Kept, Plain
<1>3. QED
  BY <1>1, <1>2

LEMMA PlainHeld ==
  ASSUME TypeOK, HeldLine, pc' \in InHand => pc \in InHand,
         report' = report, line' = line, Plain(report.source)
  PROVE  HeldLine'
<1> SUFFICES ASSUME pc' \in InHand
             PROVE  /\ Mine(report.source, report.epoch)'
                    /\ \A i \in 1 .. Len(line') : line'[i].epoch = report'.epoch
                    /\ report'.epoch # epoch'[report'.source] =>
                         Pending(report.source)' /\ NoneCurrent(report.source)'
  BY DEF HeldLine
<1>1. PICK s \in Transports : s = report.source
  BY DEF TypeOK, Reports
<1>2. PICK e \in Nat : e = report.epoch
  BY DEF TypeOK, Reports
<1>3. Plain(s) /\ Mine(s, e)
  BY <1>1, <1>2 DEF HeldLine
<1>4. Mine(s, e)'
  BY <1>3, MineFewer DEF Plain
<1>5. Mine(report.source, report.epoch)'
  BY <1>1, <1>2, <1>4 DEF Mine
<1>6. report'.epoch # epoch'[report'.source] => Pending(s)' /\ NoneCurrent(s)'
  BY <1>1, <1>3 DEF HeldLine, Plain
<1>7. Pending(s)' /\ NoneCurrent(s)' => Pending(report.source)' /\ NoneCurrent(report.source)'
  BY <1>1 DEF Pending, NoneCurrent
<1>8. QED
  BY <1>5, <1>6, <1>7 DEF HeldLine

\* The epoch of a transport is bumped: what it holds is of an ended connection,
\* and so is every report under way.
LEMMA BumpKept ==
  ASSUME TypeOK, NotAhead, NEW s \in Transports, Kept(s),
         epoch'[s] = epoch[s] + 1, Pending(s)', queue' = queue, report' = report,
         buffer' = buffer, mask' = mask, heard' = heard
  PROVE  Kept(s)' /\ NoneCurrent(s)'
<1>1. epoch[s] \in Nat /\ queue \in Seq(Reports) /\ report \in Reports
  BY DEF TypeOK
<1>2. PICK e \in 0 .. epoch[s] : Mine(s, e)
  BY <1>1 DEF Kept
<1>3. Mine(s, e)'
  BY <1>2 DEF Mine
<1>4. e \in 0 .. epoch'[s]
  BY <1>1, <1>2
<1>5. ASSUME NEW i \in 1 .. Len(queue), queue[i].source = s PROVE queue[i].epoch # epoch'[s]
  <2>1. queue[i] \in Reports
    BY <1>1, ElementType
  <2>2. queue[i].epoch \in Nat /\ queue[i].epoch <= epoch[s]
    BY <1>5, <2>1 DEF NotAhead, Reports
  <2>3. QED
    BY <1>1, <2>2
<1>6. ASSUME report.source = s PROVE report.epoch # epoch'[s]
  <2>1. report.epoch \in Nat /\ report.epoch <= epoch[s]
    BY <1>1, <1>6 DEF NotAhead, Reports
  <2>2. QED
    BY <1>1, <2>1
<1>7. NoneCurrent(s)'
  BY <1>5, <1>6 DEF NoneCurrent
<1>8. QED
  BY <1>3, <1>4, <1>7 DEF Kept

\* The same, for the line in hand.
LEMMA BumpHeld ==
  ASSUME TypeOK, HeldLine, pc' \in InHand => pc \in InHand,
         report' = report, line' = line, buffer' = buffer, mask' = mask, heard' = heard,
         Pending(report.source)', NoneCurrent(report.source)'
  PROVE  HeldLine'
<1> SUFFICES ASSUME pc' \in InHand
             PROVE  /\ Mine(report.source, report.epoch)'
                    /\ \A i \in 1 .. Len(line') : line'[i].epoch = report'.epoch
                    /\ Pending(report.source)' /\ NoneCurrent(report.source)'
  BY DEF HeldLine
<1>1. Mine(report.source, report.epoch)'
  BY DEF HeldLine, Mine
<1>2. QED
  BY <1>1 DEF HeldLine

\* A change of the link of one transport: the bump of its epoch and the two stores
\* that follow.
LEMMA LinkConn ==
  ASSUME TypeOK, ConnInv, NEW t \in Transports,
         LinkChange(t) \/ LinkChangeStamp(t) \/ LinkChangeFlag(t)
  PROVE  ConnInv'
<1> USE DEF environment, session, shared, history
<1>0. NotAhead /\ Unmixed /\ HeldLine
  BY DEF ConnInv
<1>1. CASE LinkChange(t)
  <2>1. /\ queue' = queue /\ report' = report /\ line' = line /\ pc' = pc
        /\ buffer' = buffer /\ mask' = mask /\ heard' = heard /\ resetPending' = resetPending
        /\ epoch'[t] = epoch[t] + 1 /\ cbPc'[t] = "bumped"
        /\ \A s \in Transports : s # t => epoch'[s] = epoch[s] /\ cbPc'[s] = cbPc[s]
    BY <1>1 DEF LinkChange, BumpEpoch, TypeOK
  <2>2. Pending(t)'
    BY <2>1 DEF Pending
  <2>3. Kept(t)' /\ NoneCurrent(t)'
    BY <1>0, <2>1, <2>2, BumpKept DEF Unmixed
  <2>4. ASSUME NEW s \in Transports, s # t PROVE Plain(s)
    BY <2>1, <2>4 DEF Plain, Fewer, Pending, Waiting, NoneCurrent
  <2>5. Unmixed'
    BY <1>0, <2>3, <2>4, PlainKept DEF Unmixed
  <2>6. NotAhead'
    BY <1>0, <2>1, NotAheadKept
  <2>7. HeldLine'
    <3>1. CASE report.source = t
      BY <1>0, <2>1, <2>2, <2>3, <3>1, BumpHeld DEF Pending, NoneCurrent
    <3>2. CASE report.source # t
      <4>1. report.source \in Transports
        BY DEF TypeOK, Reports
      <4>2. QED
        BY <1>0, <2>1, <2>4, <3>2, <4>1, PlainHeld
    <3>3. QED
      BY <3>1, <3>2
  <2>8. QED
    BY <2>5, <2>6, <2>7 DEF ConnInv
<1>2. CASE LinkChangeStamp(t) \/ LinkChangeFlag(t)
  <2>1. /\ queue' = queue /\ report' = report /\ line' = line /\ pc' = pc /\ epoch' = epoch
        /\ buffer' = buffer /\ mask' = mask /\ heard' = heard
        /\ \A s \in Transports : s # t => cbPc'[s] = cbPc[s] /\ resetPending'[s] = resetPending[s]
        /\ (cbPc'[t] # "idle" /\ resetPending'[t] = resetPending[t]) \/ resetPending'[t]
    BY <1>2, Zenon DEF LinkChangeStamp, LinkChangeFlag, RaiseReset, TypeOK
  <2>2. ASSUME NEW s \in Transports PROVE Plain(s)
    BY <2>1 DEF Plain, Fewer, Pending, Waiting, NoneCurrent
  <2>3. Unmixed'
    BY <1>0, <2>2, PlainKept DEF Unmixed
  <2>4. NotAhead'
    BY <1>0, <2>1, NotAheadKept
  <2>5. HeldLine'
    <3>1. report.source \in Transports
      BY DEF TypeOK, Reports
    <3>2. QED
      BY <1>0, <2>1, <2>2, <3>1, PlainHeld
  <2>6. QED
    BY <2>3, <2>4, <2>5 DEF ConnInv
<1>3. QED
  BY <1>1, <1>2

\* A report is queued: its transport is not waiting for a reset, or the main
\* task is in the middle of resetting it.
LEMMA EnqueueConn ==
  ASSUME ~FastReconnect, TypeOK, ConnInv, NEW t \in Transports,
         NEW kind \in Kinds, NEW part \in Parts, EnqueueReport(t, kind, part)
  PROVE  ConnInv'
<1> USE DEF shared, session, history
<1> DEFINE r == [source |-> t, epoch |-> epoch[t], kind |-> kind, part |-> part]
<1>0. NotAhead /\ Unmixed /\ HeldLine
  BY DEF ConnInv
<1>1. /\ queue' = Append(queue, r) \/ queue' = queue
      /\ queue \in Seq(Reports) /\ epoch[t] \in Nat /\ report \in Reports
      /\ report' = report /\ line' = line /\ pc' = pc /\ epoch' = epoch /\ cbPc' = cbPc
      /\ resetPending' = resetPending
      /\ buffer' = buffer /\ mask' = mask /\ heard' = heard
      /\ cbPc[t] = "idle" /\ ~resetPending[t]
  BY DEF EnqueueReport, Queued, TypeOK
<1>2. ASSUME queue' = Append(queue, r)
      PROVE  \A i \in 1 .. Len(queue') :
               \/ i \in 1 .. Len(queue) /\ queue'[i] = queue[i]
               \/ queue'[i].source = t /\ queue'[i].epoch = epoch[t]
  BY <1>1, <1>2
<1>3. \A i \in 1 .. Len(queue') :
        \/ i \in 1 .. Len(queue) /\ queue'[i] = queue[i]
        \/ queue'[i].source = t /\ queue'[i].epoch = epoch[t]
  <2>1. CASE queue' = queue
    BY <2>1
  <2>2. QED
    BY <1>1, <1>2, <2>1
<1>4. NotAhead'
  BY <1>0, <1>1, <1>3 DEF NotAhead
<1>5. ASSUME NEW s \in Transports, s # t PROVE Plain(s)
  BY <1>1, <1>3, <1>5 DEF Plain, Fewer, Pending, Waiting, NoneCurrent
<1>6. Kept(t)'
  <2>1. CASE Mine(t, epoch[t])
    BY <1>1, <2>1 DEF Kept, Mine
  <2>2. CASE ~Mine(t, epoch[t])
    <3>1. Pending(t) /\ (\E e \in 0 .. epoch[t] : Mine(t, e))
      BY <1>0, <2>2 DEF Kept, Unmixed
    <3>2. Waiting(t)
      BY <1>1, <3>1 DEF Pending, Waiting
    <3>3. Pending(t)' /\ Waiting(t)'
      BY <1>1, <3>1, <3>2 DEF Pending, Waiting
    <3>4. \E e \in 0 .. epoch'[t] : Mine(t, e)'
      BY <1>1, <3>1 DEF Mine
    <3>5. QED
      BY <3>3, <3>4 DEF Kept
  <2>3. QED
    BY <2>1, <2>2
<1>7. Unmixed'
  BY <1>0, <1>5, <1>6, PlainKept DEF Unmixed
<1>8. HeldLine'
  <2>1. report.source \in Transports
    BY <1>1 DEF Reports
  <2>2. CASE report.source # t
    BY <1>0, <1>1, <1>5, <2>1, <2>2, PlainHeld
  <2>3. CASE report.source = t /\ pc \in InHand
    <3>1. ~Pending(t)
      BY <1>1, <2>3 DEF Pending, InHand, Switching
    <3>2. report.epoch = epoch[t]
      BY <1>0, <2>3, <3>1 DEF HeldLine
    <3>3. QED
      BY <1>0, <1>1, <2>3, <3>2 DEF HeldLine, Mine
  <2>4. CASE pc \notin InHand
    BY <1>1, <2>4 DEF HeldLine
  <2>5. QED
    BY <2>2, <2>3, <2>4
<1>9. QED
  BY <1>4, <1>7, <1>8 DEF ConnInv

\* The main task outside service().
LEMMA ToggleConn ==
  ASSUME TypeOK, ConnInv,
         ToggleUsb \/ ForgetBonds \/ FinishReset \/ BeginSessionSync
  PROVE  ConnInv'
<1> USE DEF shared, session, history, environment
<1>0. NotAhead /\ Unmixed /\ HeldLine
  BY DEF ConnInv
<1>1. CASE ToggleUsb \/ ForgetBonds
  <2>1. PICK t \in Transports :
          /\ queue' = queue /\ report' = report /\ line' = line /\ pc' \in Switching(t)
          /\ buffer' = buffer /\ mask' = mask /\ heard' = heard /\ resetPending' = resetPending
          /\ epoch'[t] = epoch[t] + 1 /\ cbPc' = cbPc
          /\ \A s \in Transports : s # t => epoch'[s] = epoch[s]
          /\ pc = "idle"
    <3>1. CASE ToggleUsb
      BY <3>1 DEF ToggleUsb, BumpEpoch, TypeOK, Transports, Switching
    <3>2. CASE ForgetBonds
      BY <3>2 DEF ForgetBonds, BumpEpoch, TypeOK, Transports, Switching, Usb, Ble
    <3>3. QED
      BY <1>1, <3>1, <3>2
  <2>2. Pending(t)'
    BY <2>1 DEF Pending
  <2>3. Kept(t)'
    BY <1>0, <2>1, <2>2, BumpKept DEF Unmixed
  <2>4. ASSUME NEW s \in Transports, s # t PROVE Plain(s)
    <3>1. /\ pc' \in Outside /\ pc \notin Switching(s) /\ pc' # "feed"
          /\ queue' = queue /\ epoch'[s] = epoch[s]
      BY <2>1, <2>4 DEF Switching, Outside, Transports, Usb, Ble
    <3>2. (Pending(s) => Pending(s)') /\ (Waiting(s) => Waiting(s)')
      BY <2>1, <3>1 DEF Pending, Waiting
    <3>3. NoneCurrent(s) => NoneCurrent(s)'
      BY <3>1 DEF NoneCurrent
    <3>4. QED
      BY <2>1, <3>1, <3>2, <3>3 DEF Plain, Fewer
  <2>5. Unmixed'
    BY <1>0, <2>3, <2>4, PlainKept DEF Unmixed
  <2>6. NotAhead'
    <3>1. \A s \in Transports : epoch'[s] \in {epoch[s], epoch[s] + 1}
      BY <2>1
    <3>2. QED
      BY <1>0, <2>1, <3>1, NotAheadKept
  <2>7. HeldLine'
    BY <2>1 DEF HeldLine, InHand, Switching
  <2>8. QED
    BY <2>5, <2>6, <2>7 DEF ConnInv
<1>2. CASE FinishReset \/ BeginSessionSync
  <2>1. /\ queue' = queue /\ report' = report /\ line' = line /\ epoch' = epoch /\ cbPc' = cbPc
        /\ buffer' = buffer
        /\ \A s \in Transports : mask'[s] = {} \/ (mask' = mask /\ heard' = heard)
        /\ pc \in Outside /\ pc' \in Outside
        /\ \A s \in Transports :
             /\ resetPending[s] => resetPending'[s]
             /\ pc \in Switching(s) => pc' \in Switching(s) \/ resetPending'[s]
    <3>1. CASE BeginSessionSync
      BY <3>1 DEF BeginSessionSync, BeginBoth, Outside, Switching
    <3>2. CASE \/ ResetStamp(Usb, "toggle_stamp", "toggle_flag")
               \/ ResetStamp(Ble, "forget_stamp", "forget_flag")
      BY <3>2 DEF ResetStamp, Outside, Switching, Usb, Ble
    <3>3. CASE ResetFlag(Usb, "toggle_flag") \/ ResetFlag(Ble, "forget_flag")
      BY <3>3 DEF ResetFlag, RaiseReset, TypeOK, Outside, Switching, Transports, Usb, Ble
    <3>4. QED
      BY <1>2, <3>1, <3>2, <3>3 DEF FinishReset
  <2>2. ASSUME NEW s \in Transports PROVE Plain(s)
    <3>1. Fewer(s) /\ epoch'[s] = epoch[s]
      BY <2>1 DEF Fewer
    <3>2. (Pending(s) => Pending(s)') /\ (Waiting(s) => Waiting(s)')
      BY <2>1 DEF Pending, Waiting
    <3>3. NoneCurrent(s) => NoneCurrent(s)'
      BY <2>1 DEF NoneCurrent, Outside, Switching
    <3>4. QED
      BY <3>1, <3>2, <3>3 DEF Plain
  <2>3. Unmixed'
    BY <1>0, <2>2, PlainKept DEF Unmixed
  <2>4. NotAhead'
    BY <1>0, <2>1, NotAheadKept
  <2>5. HeldLine'
    BY <2>1 DEF HeldLine, Outside, Switching, InHand
  <2>6. QED
    BY <2>3, <2>4, <2>5 DEF ConnInv
<1>3. QED
  BY <1>1, <1>2

\* apply_pending_reset() completes the reset of a transport.
LEMMA ResetConn ==
  ASSUME TypeOK, ConnInv,
         \/ ApplyPendingReset(Usb, "idle", "reset_ble")
         \/ ApplyPendingReset(Ble, "reset_ble", "receive")
  PROVE  ConnInv'
<1> USE DEF session, environment
<1>0. NotAhead /\ Unmixed /\ HeldLine
  BY DEF ConnInv
<1>1. PICK t \in Transports :
        \/ t = Usb /\ ApplyPendingReset(Usb, "idle", "reset_ble")
        \/ t = Ble /\ ApplyPendingReset(Ble, "reset_ble", "receive")
  BY DEF Transports
<1>2. /\ queue' = queue /\ report' = report /\ line' = line /\ epoch' = epoch /\ cbPc' = cbPc
      /\ pc \in {"idle", "reset_ble"} /\ pc' \in {"reset_ble", "receive"}
      /\ pc = "idle" => t = Usb
      /\ \A s \in Transports : s # t => resetPending'[s] = resetPending[s]
      /\ ~resetPending[t] => resetPending'[t] = resetPending[t]
    BY <1>1 DEF ApplyPendingReset, TypeOK
<1>3. \A s \in Transports : Fewer(s)
  BY <1>1 DEF ApplyPendingReset, ResetInput, BeginBoth, Fewer, TypeOK
<1>4. resetPending[t] => buffer'[t] = <<>> /\ mask'[t] = {}
  BY <1>1 DEF ApplyPendingReset, ResetInput, BeginBoth, TypeOK
<1>5. ASSUME NEW s \in Transports, s # t \/ ~resetPending[t] PROVE Plain(s)
  <2>1. (Pending(s) => Pending(s)') /\ (Waiting(s) => Waiting(s)')
    <3>1. s # t \/ ~resetPending[s]
      BY <1>5
    <3>2. resetPending'[s] = resetPending[s]
      BY <1>2, <1>5
    <3>3. Pending(s) => Pending(s)'
      BY <1>2, <3>2 DEF Pending, Switching
    <3>4. ASSUME Waiting(s) PROVE Waiting(s)'
      <4>1. resetPending[s] /\ (pc = "idle" \/ s = Ble)
        BY <1>2, <3>4 DEF Waiting, Switching, Outside
      <4>2. t = Usb /\ s = Ble /\ pc' = "reset_ble"
        BY <1>1, <1>2, <3>1, <4>1 DEF Transports, ApplyPendingReset
      <4>3. QED
        BY <3>2, <4>1, <4>2 DEF Waiting
    <3>5. QED
      BY <3>3, <3>4
  <2>2. NoneCurrent(s) => NoneCurrent(s)'
    BY <1>2 DEF NoneCurrent
  <2>3. QED
    BY <1>2, <1>3, <2>1, <2>2 DEF Plain
<1>6. resetPending[t] => Kept(t)'
  BY <1>4, MineEmpty DEF Kept, Mine
<1>7. Unmixed'
  BY <1>0, <1>5, <1>6, PlainKept DEF Unmixed
<1>8. NotAhead'
  BY <1>0, <1>2, NotAheadKept
<1>9. HeldLine'
  BY <1>2 DEF HeldLine, InHand
<1>10. QED
  BY <1>7, <1>8, <1>9 DEF ConnInv

\* The queue hands a report to service_report().
LEMMA TakeConn ==
  ASSUME TypeOK, ConnInv, TakeReport
  PROVE  ConnInv'
<1> USE DEF shared, session, environment, history
<1>0. NotAhead /\ Unmixed /\ HeldLine
  BY DEF ConnInv
<1>1. /\ line' = line /\ epoch' = epoch /\ cbPc' = cbPc /\ resetPending' = resetPending
      /\ buffer' = buffer /\ mask' = mask /\ heard' = heard
      /\ pc = "receive" /\ pc' \in {"elect", "feed"}
      /\ queue \in Seq(Reports)
  BY DEF TakeReport, TypeOK
<1>2. \/ queue' = queue /\ report' = report /\ pc' = "elect"
      \/ queue # <<>> /\ queue' = Tail(queue) /\ report' = Head(queue)
  BY DEF TakeReport
<1>3. \/ pc' # "feed" /\ report' = report
      \/ 1 \in 1 .. Len(queue) /\ report' = queue[1]
  BY <1>1, <1>2
<1>4. \A i \in 1 .. Len(queue') : \E j \in 1 .. Len(queue) : queue'[i] = queue[j]
  <2>1. CASE queue' = queue
    BY <2>1
  <2>2. CASE queue # <<>> /\ queue' = Tail(queue)
    <3> SUFFICES ASSUME NEW i \in 1 .. Len(queue')
                 PROVE  \E j \in 1 .. Len(queue) : queue'[i] = queue[j]
      OBVIOUS
    <3>1. i + 1 \in 1 .. Len(queue) /\ queue'[i] = queue[i + 1]
      BY <1>1, <2>2
    <3>2. QED
      BY <3>1
  <2>3. QED
    BY <1>2, <2>1, <2>2
<1>5. NotAhead'
  BY <1>0, <1>1, <1>3, <1>4 DEF NotAhead
<1>6. ASSUME NEW s \in Transports PROVE Plain(s)
  <2>1. Fewer(s) /\ (Pending(s) => Pending(s)') /\ ~Waiting(s)
    BY <1>1 DEF Fewer, Pending, Waiting, Switching, Outside
  <2>2. ASSUME NoneCurrent(s) PROVE NoneCurrent(s)'
    <3>1. \A j \in 1 .. Len(queue) : queue[j].source = s => queue[j].epoch # epoch[s]
      BY <2>2 DEF NoneCurrent
    <3>2. \A i \in 1 .. Len(queue') : queue'[i].source = s => queue'[i].epoch # epoch'[s]
      BY <1>1, <1>4, <3>1
    <3>3. pc' = "feed" /\ report'.source = s => report'.epoch # epoch'[s]
      BY <1>1, <1>3, <3>1
    <3>4. QED
      BY <3>2, <3>3 DEF NoneCurrent
  <2>3. QED
    BY <1>1, <2>1, <2>2 DEF Plain
<1>7. Unmixed'
  BY <1>0, <1>6, PlainKept DEF Unmixed
<1>8. HeldLine'
  BY <1>1 DEF HeldLine, InHand
<1>9. QED
  BY <1>5, <1>7, <1>8 DEF ConnInv

\* service_report(): only a report of the current connection reaches the
\* assembler, and what the assembler holds is then of that connection too.
LEMMA FeedConn ==
  ASSUME TypeOK, ConnInv, FeedReport
  PROVE  ConnInv'
<1> USE DEF shared, session, environment, history
<1> DEFINE s == report.source
           text == Append(buffer[s], report)
<1>0. NotAhead /\ Unmixed /\ HeldLine
  BY DEF ConnInv
<1>1. /\ queue' = queue /\ report' = report /\ epoch' = epoch /\ cbPc' = cbPc
      /\ resetPending' = resetPending /\ mask' = mask /\ heard' = heard
      /\ pc = "feed" /\ pc' \in {"receive", "parse"}
      /\ report \in Reports /\ s \in Transports /\ buffer[s] \in Seq(Reports)
      /\ \A t \in Transports : t # s => buffer'[t] = buffer[t]
  BY DEF FeedReport, TypeOK, Reports
<1>2. \/ buffer' = buffer /\ pc' = "receive"
      \/ buffer'[s] = <<>> /\ pc' = "receive"
      \/ buffer'[s] = text /\ pc' = "receive" /\ report.epoch = epoch[s]
      \/ buffer'[s] = <<>> /\ line' = text /\ report.epoch = epoch[s]
  BY <1>1 DEF FeedReport, Current, TypeOK
<1>3. report.epoch = epoch[s] => Mine(s, epoch[s])
  <2>1. report.epoch = epoch[s] => ~NoneCurrent(s)
    BY <1>1 DEF NoneCurrent
  <2>2. ~Waiting(s)
    BY <1>1 DEF Waiting, Switching, Outside
  <2>3. QED
    BY <1>0, <1>1, <2>1, <2>2 DEF Unmixed, Kept
<1>4. report.epoch = epoch[s] => \A i \in 1 .. Len(text) : text[i].epoch = epoch[s]
  <2> SUFFICES ASSUME report.epoch = epoch[s], NEW i \in 1 .. Len(text)
               PROVE  text[i].epoch = epoch[s]
    OBVIOUS
  <2>1. (i \in 1 .. Len(buffer[s]) /\ text[i] = buffer[s][i]) \/ text[i] = report
    BY <1>1
  <2>2. QED
    BY <1>3, <2>1 DEF Mine
<1>5. ASSUME NEW t \in Transports PROVE /\ Pending(t) => Pending(t)'
                                        /\ Waiting(t) => Waiting(t)'
                                        /\ NoneCurrent(t) => NoneCurrent(t)'
  BY <1>1 DEF Pending, Waiting, NoneCurrent, Switching, Outside
<1>6. ASSUME NEW t \in Transports PROVE Kept(t)'
  <2>1. CASE Fewer(t)
    <3>1. Plain(t)
      BY <1>1, <1>5, <2>1 DEF Plain
    <3>2. QED
      BY <1>0, <3>1, PlainKept DEF Unmixed
  <2>2. CASE ~Fewer(t)
    <3>1. t = s /\ buffer'[s] = text /\ report.epoch = epoch[s]
      BY <1>1, <1>2, <2>2 DEF Fewer
    <3>2. Mine(t, epoch[t])'
      BY <1>1, <1>3, <1>4, <3>1 DEF Mine
    <3>3. QED
      BY <3>2 DEF Kept
  <2>3. QED
    BY <2>1, <2>2
<1>7. NotAhead'
  BY <1>0, <1>1, NotAheadKept
<1>8. HeldLine'
  <2>1. CASE pc' = "receive"
    BY <2>1 DEF HeldLine, InHand
  <2>2. CASE pc' # "receive"
    <3>1. buffer'[s] = <<>> /\ line' = text /\ report.epoch = epoch[s]
      BY <1>2, <2>2
    <3>2. Mine(report.source, report.epoch)'
      BY <1>1, <1>3, <3>1 DEF Mine
    <3>3. \A i \in 1 .. Len(line') : line'[i].epoch = report'.epoch
      BY <1>1, <1>4, <3>1
    <3>4. QED
      BY <1>1, <3>1, <3>2, <3>3 DEF HeldLine
  <2>3. QED
    BY <2>1, <2>2
<1>9. QED
  BY <1>6, <1>7, <1>8 DEF ConnInv, Unmixed

\* handle() stamps the session and claims the presentation; the tail of
\* service() elects an owner.  The handshakes are kept or forgotten together.
LEMMA ClaimConn ==
  ASSUME TypeOK, ConnInv, StampValid \/ ClaimPresentation \/ ElectOwner
  PROVE  ConnInv'
<1> USE DEF shared, session, environment, history
<1>0. NotAhead /\ Unmixed /\ HeldLine
  BY DEF ConnInv
<1>1. /\ queue' = queue /\ epoch' = epoch /\ cbPc' = cbPc /\ resetPending' = resetPending
      /\ buffer' = buffer
      /\ \A s \in Transports : mask'[s] = {} \/ (mask' = mask /\ heard' = heard)
      /\ pc \in {"parse", "claim", "elect"} /\ pc' # "feed"
      /\ \/ pc \in InHand /\ report' = report /\ line' = line
         \/ pc' = "idle" /\ report' = NoReport
  BY DEF StampValid, ClaimPresentation, ElectOwner, TakeOver, BeginBoth, InHand
<1>2. ASSUME NEW s \in Transports PROVE Plain(s)
  <2>1. Fewer(s)
    BY <1>1 DEF Fewer
  <2>2. (Pending(s) => Pending(s)') /\ ~Waiting(s)
    BY <1>1 DEF Pending, Waiting, Switching, Outside
  <2>3. NoneCurrent(s) => NoneCurrent(s)'
    BY <1>1 DEF NoneCurrent
  <2>4. QED
    BY <1>1, <2>1, <2>2, <2>3 DEF Plain
<1>3. Unmixed'
  BY <1>0, <1>2, PlainKept DEF Unmixed
<1>4. NotAhead'
  BY <1>0, <1>1, NotAheadKept
<1>5. HeldLine'
  <2>1. CASE pc' = "idle"
    BY <2>1 DEF HeldLine, InHand
  <2>2. CASE pc' # "idle"
    <3>1. report.source \in Transports
      BY DEF TypeOK, Reports
    <3>2. QED
      BY <1>0, <1>1, <1>2, <2>2, <3>1, PlainHeld
  <2>3. QED
    BY <2>1, <2>2
<1>6. QED
  BY <1>3, <1>4, <1>5 DEF ConnInv

\* Tracker::note() records the method for the connection of the line in hand,
\* which is the one the transport's handshake is of.
LEMMA ApplyConn ==
  ASSUME TypeOK, ConnInv, ApplyMethod
  PROVE  ConnInv'
<1> USE DEF shared, session, environment, history
<1> DEFINE s == report.source
<1>0. NotAhead /\ Unmixed /\ HeldLine
  BY DEF ConnInv
<1>1. /\ queue' = queue /\ report' = report /\ epoch' = epoch /\ cbPc' = cbPc
      /\ resetPending' = resetPending /\ buffer' = buffer
      /\ pc = "apply" /\ pc' = "receive"
      /\ s \in Transports /\ report.epoch \in Nat
      /\ report.epoch <= epoch[s] /\ epoch[s] \in Nat
  BY <1>0 DEF ApplyMethod, TypeOK, Reports, NotAhead
<1>2. Mine(s, report.epoch)
  BY <1>0, <1>1 DEF HeldLine, InHand
<1>3. \/ mask' = mask /\ heard' = heard
      \/ /\ report.kind \in Methods
         /\ mask' = [mask EXCEPT ![s] = @ \cup {report.kind}]
         /\ heard' = [heard EXCEPT ![s][report.kind] = report.epoch]
  BY DEF ApplyMethod, Note
<1>4. ASSUME NEW t \in Transports
      PROVE  (Pending(t) => Pending(t)') /\ ~Waiting(t) /\ (NoneCurrent(t) => NoneCurrent(t)')
  BY <1>1 DEF Pending, Waiting, NoneCurrent, Switching, Outside
<1>5. ASSUME NEW t \in Transports, t # s \/ (mask' = mask /\ heard' = heard) PROVE Kept(t)'
  <2>1. Fewer(t)
    BY <1>1, <1>3, <1>5 DEF Fewer, TypeOK
  <2>2. Plain(t)
    BY <1>1, <1>4, <2>1 DEF Plain
  <2>3. QED
    BY <1>0, <2>2, PlainKept DEF Unmixed
<1>6. ASSUME ~(mask' = mask /\ heard' = heard) PROVE Kept(s)'
  <2>1. /\ mask'[s] = mask[s] \cup {report.kind}
        /\ heard'[s] = [heard[s] EXCEPT ![report.kind] = report.epoch]
        /\ report.kind \in Methods /\ mask[s] \subseteq Methods
        /\ heard[s] \in [Methods -> Nat]
    BY <1>1, <1>3, <1>6 DEF TypeOK
  <2>2. ASSUME NEW m \in mask'[s] PROVE heard'[s][m] = report.epoch
    <3>1. CASE m = report.kind
      BY <2>1, <3>1
    <3>2. CASE m # report.kind
      BY <1>2, <2>1, <2>2, <3>2 DEF Mine
    <3>3. QED
      BY <3>1, <3>2
  <2>3. PICK e \in 0 .. epoch[s] : e = report.epoch
    BY <1>1
  <2>4. Mine(s, e)'
    BY <1>1, <1>2, <2>2, <2>3 DEF Mine
  <2>5. CASE report.epoch = epoch[s]
    BY <1>1, <2>3, <2>4, <2>5 DEF Kept, Mine
  <2>6. CASE report.epoch # epoch[s]
    <3>1. Pending(s) /\ NoneCurrent(s)
      BY <1>0, <1>1, <2>6 DEF HeldLine, InHand
    <3>2. Pending(s)' /\ NoneCurrent(s)'
      BY <1>1, <1>4, <3>1
    <3>3. e \in 0 .. epoch'[s]
      BY <1>1
    <3>4. QED
      BY <1>1, <2>4, <3>2, <3>3 DEF Kept, Pending, NoneCurrent, Mine
  <2>7. QED
    BY <2>5, <2>6
<1>7. ASSUME NEW t \in Transports PROVE Kept(t)'
  <2>1. CASE t # s \/ (mask' = mask /\ heard' = heard)
    BY <1>5, <2>1
  <2>2. CASE t = s /\ ~(mask' = mask /\ heard' = heard)
    <3>1. Kept(s)'
      BY <1>6, <2>2
    <3>2. t = s /\ s' = s
      BY <1>1, <2>2
    <3>3. QED
      BY <3>1, <3>2 DEF Kept, Mine, Pending, NoneCurrent, Waiting
  <2>3. QED
    BY <2>1, <2>2
<1>8. NotAhead'
  BY <1>0, <1>1, NotAheadKept
<1>9. HeldLine'
  BY <1>1 DEF HeldLine, InHand
<1>10. QED
  BY <1>7, <1>8, <1>9 DEF ConnInv, Unmixed

LEMMA ConnStep ==
  ASSUME ~FastReconnect, TypeOK, ConnInv, [Next]_vars
  PROVE  ConnInv'
<1> USE DEF shared, session, environment, history
<1>1. ASSUME NEW t \in Transports, Callback(t) PROVE ConnInv'
  BY <1>1, LinkConn, EnqueueConn DEF Callback
<1>2. CASE Service
  BY <1>2, ResetConn, TakeConn, FeedConn, ClaimConn, ApplyConn DEF Service
<1>3. CASE ToggleUsb \/ ForgetBonds \/ FinishReset \/ BeginSessionSync
  BY <1>3, ToggleConn
<1>4. CASE Tick \/ UNCHANGED vars
  <2>1. UNCHANGED <<epoch, resetPending, queue, buffer, mask, cbPc, pc, report, line, heard>>
    BY <1>4 DEF Tick, vars
  <2>2. NotAhead'
    BY <2>1 DEF ConnInv, NotAhead
  <2>3. Unmixed'
    BY <2>1 DEF ConnInv, Unmixed, Kept, Mine, Pending, NoneCurrent, Waiting
  <2>4. HeldLine'
    BY <2>1 DEF ConnInv, HeldLine, Mine, Pending, NoneCurrent
  <2>5. QED
    BY <2>2, <2>3, <2>4 DEF ConnInv
<1>5. QED
  BY <1>1, <1>2, <1>3, <1>4 DEF Next, Main

LEMMA InitConn == Init => ConnInv
<1> SUFFICES ASSUME Init PROVE ConnInv
  OBVIOUS
<1>1. NotAhead
  BY DEF Init, NotAhead, NoReport, Transports
<1>2. Unmixed
  BY DEF Init, Unmixed, Kept, Mine
<1>3. HeldLine
  BY DEF Init, HeldLine, InHand
<1>4. QED
  BY <1>1, <1>2, <1>3 DEF ConnInv

\* No line handed to the parser mixes the fragments of two connections: for
\* every cut of the messages, queue and assembler capacity and number of resets,
\* as long as a host does not report before service() has applied the reset of
\* its connection.
THEOREM NoSplicedCorrect ==
  ASSUME ~FastReconnect
  PROVE  Spec => []NoSplicedLine
<1>1. Init => TypeOK /\ ConnInv
  BY InitType, InitConn
<1>2. (TypeOK /\ ConnInv) /\ [Next]_vars => (TypeOK /\ ConnInv)'
  BY NextType, ConnStep
<1>3. ConnInv => NoSplicedLine
  BY DEF ConnInv, HeldLine, InHand, NoSplicedLine
<1>4. QED
  BY <1>1, <1>2, <1>3, PTL DEF Spec

\* A lamp frame raises announcements only when its own connection has delivered
\* the three methods of the handshake since it became the owner, under the same
\* assumption and with no bound on the clock, which may wrap.
THEOREM BaselineCorrect ==
  ASSUME ~FastReconnect
  PROVE  Spec => []BaselineBeforeEvents
<1>1. Init => TypeOK /\ ConnInv
  BY InitType, InitConn
<1>2. (TypeOK /\ ConnInv) /\ [Next]_vars => (TypeOK /\ ConnInv)'
  BY NextType, ConnStep
<1>3. ConnInv => BaselineBeforeEvents
  BY DEF ConnInv, HeldLine, InHand, Mine, BaselineBeforeEvents, Announcing, Baseline
<1>4. QED
  BY <1>1, <1>2, <1>3, PTL DEF Spec
=============================================================================
