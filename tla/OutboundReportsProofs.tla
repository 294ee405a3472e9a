----------------------- MODULE OutboundReportsProofs ------------------------
(***************************************************************************)
(* Theorems about OutboundReports, for every capacity of the rings and of  *)
(* the retries and every number of connections and messages, with both     *)
(* transports at work.                                                     *)
(***************************************************************************)
EXTENDS OutboundReports, TLAPS

Retry == [msg : Nat, target : Transports, old : BOOLEAN]
Delivery == [msg : Nat, part : 1..2, session : Nat]

-----------------------------------------------------------------------------
(* The inductive invariant.                                                *)

Sending == at \in {"send", "send_retries", "send_check", "send_stamp"}

\* The main task is past the reset of the ring of t and works on it.
Inside(t) ==
  /\ on = t
  /\ at \in {"drain_retries", "drain_check", "drain_compare", "drain_write", "drain_pop",
             "send_retries", "send_check", "send_stamp"}

\* The message is of the connection the transport has, or a retried key of USB.
Own(t, m) == issued[m].session = session[t] \/ (t = "usb" /\ m \in retried)

Response(m) == Parts(issued[m].kind) = 2

\* Every number in use is that of an issued message, and nothing is of a
\* connection to come.
Numbered ==
  /\ Len(issued) <= MaxMessages
  /\ \A t \in Transports : \A i \in 1 .. Len(ring[t]) :
       /\ ring[t][i].msg \in 1 .. Len(issued)
       /\ ring[t][i].part <= Parts(issued[ring[t][i].msg].kind)
       /\ ring[t][i].generation <= generation[t]
       /\ issued[ring[t][i].msg].session <= session[t]
  /\ \A t \in Transports : \A i \in 1 .. Len(got[t]) :
       got[t][i].msg \in 1 .. Len(issued) /\ got[t][i].session <= session[t]
  /\ \A i \in 1 .. Len(retries) :
       /\ retries[i].msg \in retried
       /\ issued[retries[i].msg].session <= session[retries[i].target]
  /\ \A m \in retried : m \in 1 .. Len(issued) /\ issued[m].kind = "key"
  /\ Sending =>
       /\ job.msg \in 1 .. Len(issued)
       /\ job.part \in 1 .. Parts(issued[job.msg].kind)
       /\ issued[job.msg].session <= session[on]
       /\ job.retry => job.msg \in retried

\* Where the main task may be with which transport, and what it has there.
Placed ==
  /\ at \in {"drain_retries", "send_retries"} => on = "ble"
  /\ at \in {"drain_compare", "drain_write", "drain_pop"} => ring[on] # <<>>
  /\ at = "send_stamp" => Len(ring[on]) < RingCapacity

\* A session is alive on a connected transport, or until the callback of its
\* end has run.
LiveLinks == \A t \in Transports : live[t] => (up[t] <=> callback[t] = "idle")

Fresh(t, i) == ring[t][i].generation = generation[t]

\* The ring after the connection ended, before the next one.
DownRing(t) ==
  ~up[t] /\ callback[t] \notin {"generation", "ring"} /\ ~resetAsked[t] =>
    /\ \A i \in 1 .. Len(ring[t]) : ~Fresh(t, i)
    /\ ~(on = t /\ at = "send_stamp")

\* The next connection is up and its callback has not bumped the generation.
NewRing(t) ==
  up[t] /\ callback[t] = "generation" /\ (\E i \in 1 .. Len(ring[t]) : Fresh(t, i)) =>
    resetAsked[t] /\ ~Inside(t)

\* At any other time a report of the generation is of the connection.
OwnRing(t) ==
  ~(up[t] /\ callback[t] = "generation") =>
    \A i \in 1 .. Len(ring[t]) : Fresh(t, i) => Own(t, ring[t][i].msg)

\* With the reset of its connection behind it the ring holds nothing else.
CleanRing(t) ==
  up[t] /\ callback[t] \in {"retries", "session", "idle"} /\ ~resetAsked[t] =>
    \A i \in 1 .. Len(ring[t]) : Fresh(t, i)

\* No reset threatens a report of the connection while that is up.
SafeRing(t) ==
  up[t] => \A i \in 1 .. Len(ring[t]) :
    issued[ring[t][i].msg].session = session[t] => callback[t] = "idle" /\ ~resetAsked[t]

\* The message being sent.
SendSafe ==
  Sending =>
    /\ Own(on, job.msg)
    /\ up[on] => callback[on] = "idle"
    /\ up[on] /\ (at # "send" \/ job.part > 1) => ~resetAsked[on]

Generations ==
  /\ \A t \in Transports : DownRing(t) /\ NewRing(t) /\ OwnRing(t) /\ CleanRing(t) /\ SafeRing(t)
  /\ SendSafe
  /\ at = "drain_write" => Own(on, ring[on][1].msg)

\* A retry of an earlier BLE connection.
Old(i) == retries[i].target = "ble" /\ issued[retries[i].msg].session # session["ble"]

\* The main task is past the reset of the retries and may send one.
Retrying ==
  \/ on = "ble" /\ at \in {"drain_check", "drain_compare", "drain_write", "drain_pop"}
  \/ at = "retry"
  \/ Sending /\ job.retry

RetrySafe ==
  \A i \in 1 .. Len(retries) : Old(i) =>
    /\ retryReset \/ (up["ble"] /\ callback["ble"] \in {"generation", "ring", "retries"})
    /\ live["ble"] => ~Retrying

\* A report is in no ring and no host has it.
Unsent(m, p) ==
  \A t \in Transports :
    /\ \A i \in 1 .. Len(ring[t]) : ring[t][i].msg = m => ring[t][i].part # p
    /\ \A i \in 1 .. Len(got[t]) : got[t][i].msg = m => got[t][i].part # p

SameReport(a, b) == a.msg = b.msg /\ a.part = b.part

Got(r) == \E u \in Transports : \E j \in 1 .. Len(got[u]) : SameReport(got[u][j], r)

\* No report is in the rings twice.
OneRing ==
  \A t, u \in Transports : \A i \in 1 .. Len(ring[t]), j \in 1 .. Len(ring[u]) :
    SameReport(ring[t][i], ring[u][j]) => t = u /\ i = j

\* A report the host has is about to leave its ring, or will never be sent again.
GotGone ==
  \A t \in Transports : \A i \in 1 .. Len(ring[t]) :
    Got(ring[t][i]) => (on = t /\ at = "drain_pop" /\ i = 1) \/ ~Fresh(t, i)

UnsentHead == at = "drain_write" => ~Got(ring[on][1])
UnsentRetries == \A i \in 1 .. Len(retries) : \A p \in 1 .. 2 : Unsent(retries[i].msg, p)
UnsentRest == Sending => \A p \in 1 .. 2 : p >= job.part => Unsent(job.msg, p)

\* No action is in the retries twice; the one being sent again is the first.
OneRetry == \A i, j \in 1 .. Len(retries) : retries[i].msg = retries[j].msg => i = j
RetryFirst ==
  Sending => \A i \in 1 .. Len(retries) : (retries[i].msg = job.msg <=> job.retry /\ i = 1)

Once ==
  /\ AtMostOnce /\ OneRing /\ GotGone
  /\ UnsentHead /\ UnsentRetries /\ UnsentRest
  /\ OneRetry /\ RetryFirst

Last(q) == q[Len(q)]

\* The second report of a response follows the first one.
Behind(t) ==
  /\ \A i \in 1 .. Len(ring[t]) : ring[t][i].part = 2 =>
       \/ i > 1 /\ ring[t][i - 1].msg = ring[t][i].msg /\ ring[t][i - 1].part = 1
       \/ i = 1 /\ Got(ring[t][i])
       \/ /\ i = 1 /\ Len(got[t]) > 0
          /\ Last(got[t]).msg = ring[t][i].msg /\ Last(got[t]).part = 1
  /\ \A i \in 1 .. Len(ring[t]) : ring[t][i].part = 1 /\ Response(ring[t][i].msg) =>
       \/ i < Len(ring[t]) /\ ring[t][i + 1].msg = ring[t][i].msg /\ ring[t][i + 1].part = 2
       \/ ring[t][i].msg \in cut
       \/ i = Len(ring[t]) /\ Sending /\ on = t /\ job.msg = ring[t][i].msg /\ job.part = 2

\* What the host has the first report of.
Expected(t) ==
  Len(got[t]) > 0 /\ ~(on = t /\ at = "drain_pop") =>
    LET l == Last(got[t])
    IN l.part = 1 /\ Response(l.msg) /\ l.msg \notin cut /\ l.session = session[t] /\ up[t] =>
         Len(ring[t]) > 0 /\ ring[t][1].msg = l.msg /\ ring[t][1].part = 2

\* The second report is sent behind the first one, or not at all.
SecondNext ==
  Sending /\ job.part = 2 =>
    \/ Len(ring[on]) > 0 /\ Last(ring[on]).msg = job.msg /\ Last(ring[on]).part = 1
    \/ ~up[on] /\ at # "send_stamp"

\* The host has the head of the ring that is about to be popped.
JustSent ==
  at = "drain_pop" =>
    /\ Len(got[on]) > 0 /\ SameReport(Last(got[on]), ring[on][1])
    /\ Last(got[on]).session = session[on]

Whole ==
  /\ WholeMessages
  /\ \A t \in Transports : Behind(t) /\ Expected(t)
  /\ SecondNext /\ JustSent

Typed == TypeOK /\ Numbered /\ Placed
Sound == LiveLinks /\ Generations /\ RetrySafe

OutboundInv == Typed /\ Sound /\ NoStaleReport /\ Once /\ Whole

-----------------------------------------------------------------------------
(* Sequences.                                                              *)

\* What a sequence holds is of its element type.
LEMMA Elements ==
  ASSUME NEW S, NEW q \in Seq(S)
  PROVE  /\ Len(q) \in Nat /\ (q = <<>> <=> Len(q) = 0)
         /\ \A i \in 1 .. Len(q) : q[i] \in S
  OBVIOUS

\* xQueueSend() and its like put an entry behind the others ...
LEMMA Added ==
  ASSUME NEW S, NEW q \in Seq(S), NEW e \in S, NEW r, r = Append(q, e)
  PROVE  /\ r \in Seq(S) /\ Len(r) = Len(q) + 1 /\ r[Len(r)] = e
         /\ \A i \in 1 .. Len(q) : r[i] = q[i]
  OBVIOUS

\* ... and the head of a list is the entry that leaves it.
LEMMA Shorter ==
  ASSUME NEW S, NEW q \in Seq(S), q # <<>>, NEW r, r = Tail(q)
  PROVE  /\ r \in Seq(S) /\ Len(r) = Len(q) - 1 /\ Len(q) > 0
         /\ Head(q) = q[1] /\ q[1] \in S
         /\ \A i \in 1 .. Len(r) : r[i] = q[i + 1]
  OBVIOUS

LEMMA Nothing ==
  ASSUME NEW S
  PROVE  <<>> \in Seq(S) /\ Len(<<>>) = 0
  OBVIOUS

LEMMA NoneIn == \A i : i \notin 1 .. Len(<<>>)
<1>1. Len(<<>>) = 0
  OBVIOUS
<1>2. QED
  BY <1>1

LEMMA RetryType ==
  ASSUME NEW m \in Nat, NEW t \in Transports, NEW b \in BOOLEAN
  PROVE  [msg |-> m, target |-> t, old |-> b] \in Retry
  BY DEF Retry

\* Ageing the retries changes nothing but their age.
LEMMA Aged ==
  ASSUME NEW q \in Seq(Retry), NEW r, r = [i \in DOMAIN q |-> [q[i] EXCEPT !.old = TRUE]]
  PROVE  /\ r \in Seq(Retry) /\ Len(r) = Len(q)
         /\ \A i \in 1 .. Len(q) : r[i].msg = q[i].msg /\ r[i].target = q[i].target
<1>1. /\ DOMAIN q = 1 .. Len(q) /\ Len(q) \in Nat
      /\ \A i \in 1 .. Len(q) : q[i] \in Retry
  OBVIOUS
<1>2. ASSUME NEW i \in 1 .. Len(q)
      PROVE  r[i] \in Retry /\ r[i].msg = q[i].msg /\ r[i].target = q[i].target
  <2>1. q[i] \in Retry
    BY <1>1
  <2>2. PICK e \in Retry : e = q[i]
    BY <2>1
  <2>3. r[i] = [msg |-> e.msg, target |-> e.target, old |-> TRUE]
    BY <1>1, <2>2 DEF Retry
  <2>4. e.msg \in Nat /\ e.target \in Transports
    BY DEF Retry
  <2>5. r[i].msg = e.msg /\ r[i].target = e.target
    BY <2>3
  <2>6. r[i] \in Retry
    BY <2>3, <2>4, RetryType
  <2>7. QED
    BY <2>2, <2>5, <2>6
<1>3. r \in [1 .. Len(q) -> Retry]
  BY <1>1, <1>2
<1>4. r \in Seq(Retry) /\ Len(r) = Len(q)
  BY <1>1, <1>3
<1>5. QED
  BY <1>2, <1>4

LEMMA Transitive ==
  ASSUME NEW a \in Nat, NEW b \in Nat, NEW c \in Nat, a <= b, b <= c
  PROVE  a <= c
  OBVIOUS

LEMMA KindParts == \A kind : Parts(kind) \in 1 .. 2 /\ Parts("key") = 1
  BY DEF Parts

\* The types of what the rings, the retries and the hosts hold.
LEMMA Facts ==
  ASSUME TypeOK
  PROVE  /\ \A t \in Transports :
              /\ ring[t] \in Seq(Reports) /\ Len(ring[t]) \in Nat
              /\ got[t] \in Seq(Delivery) /\ Len(got[t]) \in Nat
              /\ generation[t] \in Nat /\ session[t] \in Nat
              /\ \A i \in 1 .. Len(ring[t]) :
                   /\ ring[t][i].generation \in Nat /\ ring[t][i].msg \in Nat
                   /\ ring[t][i].part \in 1 .. 2
              /\ \A i \in 1 .. Len(got[t]) :
                   got[t][i].msg \in Nat /\ got[t][i].part \in 1 .. 2 /\ got[t][i].session \in Nat
         /\ retries \in Seq(Retry) /\ Len(retries) \in Nat
         /\ \A i \in 1 .. Len(retries) : retries[i].msg \in Nat /\ retries[i].target \in Transports
         /\ Len(issued) \in Nat
         /\ \A m \in 1 .. Len(issued) : issued[m].kind \in Kinds /\ issued[m].session \in Nat
         /\ on \in Transports /\ job.msg \in Nat /\ job.part \in Nat /\ job.retry \in BOOLEAN
<1>1. ASSUME NEW t \in Transports
      PROVE  /\ ring[t] \in Seq(Reports) /\ got[t] \in Seq(Delivery)
             /\ generation[t] \in Nat /\ session[t] \in Nat
  BY DEF TypeOK, Delivery
<1>2. ASSUME NEW t \in Transports
      PROVE  /\ Len(ring[t]) \in Nat /\ Len(got[t]) \in Nat
             /\ \A i \in 1 .. Len(ring[t]) : ring[t][i] \in Reports
             /\ \A i \in 1 .. Len(got[t]) : got[t][i] \in Delivery
  BY <1>1, Elements
<1>3. retries \in Seq(Retry) /\ issued \in Seq([kind : Kinds, session : Nat])
  BY DEF TypeOK, Retry
<1>4. /\ Len(retries) \in Nat /\ \A i \in 1 .. Len(retries) : retries[i] \in Retry
      /\ Len(issued) \in Nat /\ \A m \in 1 .. Len(issued) : issued[m] \in [kind : Kinds, session : Nat]
  BY <1>3, Elements
<1>5. \A r \in Reports : r.generation \in Nat /\ r.msg \in Nat /\ r.part \in 1 .. 2
  BY DEF Reports
<1>6. \A d \in Delivery : d.msg \in Nat /\ d.part \in 1 .. 2 /\ d.session \in Nat
  BY DEF Delivery
<1>7. \A r \in Retry : r.msg \in Nat /\ r.target \in Transports
  BY DEF Retry
<1>8. on \in Transports /\ job.msg \in Nat /\ job.part \in Nat /\ job.retry \in BOOLEAN
  BY DEF TypeOK
<1>9. QED
  BY <1>1, <1>2, <1>3, <1>4, <1>5, <1>6, <1>7, <1>8

-----------------------------------------------------------------------------
(* Types, and the numbers of messages and connections.                     *)

\* What happens to a transport while the main task stands still.
LinkStep ==
  Callbacks \/ HostPolls \/ \E t \in Transports : Handshake(t) \/ SessionIdle(t)

Flags == [Transports -> BOOLEAN]

LEMMA FlagType ==
  ASSUME NEW f \in Flags, NEW t, NEW b \in BOOLEAN
  PROVE  [f EXCEPT ![t] = b] \in Flags
  BY Zenon DEF Flags

LEMMA TransportFacts ==
  /\ "usb" \in Transports /\ "ble" \in Transports /\ "usb" # "ble"
  /\ Active \in Transports \cup {None} /\ None \notin Transports
  /\ \A t \in Transports : Active = t => live[t]
  BY DEF Transports, Active, None

LEMMA LinkFacts ==
  ASSUME TypeOK, LinkStep
  PROVE  /\ UNCHANGED <<ring, retries, at, on, job, issued, retried, cut, got>>
         /\ \A t \in Transports : generation[t] <= generation'[t] /\ session[t] <= session'[t]
<1> USE DEF history
<1>1. \A t \in Transports : generation[t] \in Nat /\ session[t] \in Nat
  BY DEF TypeOK
<1>2. CASE HostPolls \/ \E t \in Transports : Handshake(t) \/ SessionIdle(t)
  BY <1>1, <1>2 DEF HostPolls, Handshake, SessionIdle
<1>3. CASE AskRetryReset
  BY <1>1, <1>3 DEF AskRetryReset
<1>4. ASSUME NEW u \in Transports,
             Connect(u) \/ Disconnect(u) \/ BumpGeneration(u) \/ AskRingReset(u) \/ EndSession(u)
      PROVE  /\ UNCHANGED <<ring, retries, at, on, job, issued, retried, cut, got>>
             /\ \A t \in Transports : generation[t] <= generation'[t] /\ session[t] <= session'[t]
  <2>1. CASE Connect(u)
    BY <1>1, <2>1 DEF Connect, TypeOK
  <2>2. CASE BumpGeneration(u)
    BY <1>1, <2>2 DEF BumpGeneration, TypeOK
  <2>3. CASE Disconnect(u) \/ AskRingReset(u) \/ EndSession(u)
    BY <1>1, <2>3 DEF Disconnect, AskRingReset, EndSession
  <2>4. QED
    BY <1>4, <2>1, <2>2, <2>3
<1>5. QED
  BY <1>2, <1>3, <1>4 DEF LinkStep, Callbacks, Callback

LEMMA LinkTyped ==
  ASSUME TypeOK, LinkStep
  PROVE  TypeOK'
<1> DEFINE Calls == [Transports -> {"idle", "generation", "ring", "retries", "session"}]
           LinkTypes == /\ up \in Flags /\ live \in Flags /\ free \in BOOLEAN
                        /\ retryReset \in BOOLEAN /\ resetAsked \in Flags
                        /\ generation \in [Transports -> Nat] /\ session \in [Transports -> Nat]
                        /\ callback \in Calls
<1>1. LinkTypes
  BY DEF TypeOK, Flags
<1>2. ASSUME LinkTypes' PROVE TypeOK'
  <2>1. UNCHANGED <<ring, retries, at, on, job, issued, retried, cut, got>>
    BY LinkFacts
  <2>2. LinkTypes'
    BY <1>2
  <2> HIDE DEF LinkTypes
  <2>3. /\ up' \in Flags /\ live' \in Flags /\ resetAsked' \in Flags
        /\ free' \in BOOLEAN /\ retryReset' \in BOOLEAN
        /\ generation' \in [Transports -> Nat] /\ session' \in [Transports -> Nat]
        /\ callback' \in Calls
    BY <2>2 DEF LinkTypes
  <2>4. QED
    BY <2>1, <2>3 DEF TypeOK, Flags
<1>3. ASSUME NEW t \in Transports, Connect(t) PROVE LinkTypes'
  <2>1. up' \in Flags
    BY <1>1, <1>3, FlagType DEF Connect
  <2>2. session' \in [Transports -> Nat] /\ callback' \in Calls
    BY <1>1, <1>3 DEF Connect
  <2>3. QED
    BY <1>1, <1>3, <2>1, <2>2 DEF Connect
<1>4. ASSUME NEW t \in Transports, Disconnect(t) PROVE LinkTypes'
  BY <1>1, <1>4, FlagType DEF Disconnect
<1>5. ASSUME NEW t \in Transports, BumpGeneration(t) PROVE LinkTypes'
  BY <1>1, <1>5 DEF BumpGeneration
<1>6. ASSUME NEW t \in Transports, AskRingReset(t) PROVE LinkTypes'
  BY <1>1, <1>6, FlagType DEF AskRingReset
<1>7. ASSUME AskRetryReset PROVE LinkTypes'
  BY <1>1, <1>7 DEF AskRetryReset
<1>8. ASSUME NEW t \in Transports, EndSession(t) \/ SessionIdle(t) \/ Handshake(t)
      PROVE  LinkTypes'
  BY <1>1, <1>8, FlagType DEF EndSession, SessionIdle, Handshake
<1>9. ASSUME HostPolls PROVE LinkTypes'
  BY <1>1, <1>9 DEF HostPolls
<1>10. QED
  BY <1>2, <1>3, <1>4, <1>5, <1>6, <1>7, <1>8, <1>9 DEF LinkStep, Callbacks, Callback

\* The reset of a ring empties it when that was asked for.
LEMMA ResetFacts ==
  ASSUME TypeOK, RingReset
  PROVE  /\ resetAsked' \in Flags /\ ~resetAsked'[on]
         /\ \A t \in Transports : t # on => ring'[t] = ring[t] /\ resetAsked'[t] = resetAsked[t]
         /\ resetAsked[on] => ring'[on] = <<>>
         /\ ~resetAsked[on] => ring' = ring
         /\ ring' \in [Transports -> Seq(Reports)]
         /\ \A t \in Transports : Len(ring'[t]) <= RingCapacity
<1>1. resetAsked \in Flags /\ on \in Transports /\ ring \in [Transports -> Seq(Reports)]
  BY DEF TypeOK, Flags
<1>2. resetAsked' \in Flags
  BY <1>1, FlagType DEF RingReset
<1>3. ~resetAsked'[on] /\ \A t \in Transports : t # on => resetAsked'[t] = resetAsked[t]
  BY <1>1, Zenon DEF RingReset, Flags
<1>4. CASE resetAsked[on]
  <2>1. ring' = [ring EXCEPT ![on] = <<>>]
    BY <1>4 DEF RingReset
  <2>2. <<>> \in Seq(Reports) /\ Len(<<>>) <= RingCapacity
    BY Nothing, OutboundConstants
  <2>3. QED
    BY <1>1, <1>2, <1>3, <1>4, <2>1, <2>2 DEF TypeOK
<1>5. CASE ~resetAsked[on]
  <2>1. ring' = ring
    BY <1>5 DEF RingReset
  <2>2. QED
    BY <1>1, <1>2, <1>3, <1>5, <2>1 DEF TypeOK
<1>6. QED
  BY <1>4, <1>5

\* One ring changes, and its new content fits.
LEMMA RingType ==
  ASSUME TypeOK, NEW t \in Transports, NEW q \in Seq(Reports), Len(q) <= RingCapacity,
         NEW r, r = ring \/ r = [ring EXCEPT ![t] = q]
  PROVE  /\ r \in [Transports -> Seq(Reports)]
         /\ \A u \in Transports : Len(r[u]) <= RingCapacity
<1>1. /\ ring \in [Transports -> Seq(Reports)]
      /\ \A u \in Transports : Len(ring[u]) <= RingCapacity
  BY DEF TypeOK
<1>2. CASE r = ring
  BY <1>1, <1>2
<1>3. CASE r = [ring EXCEPT ![t] = q]
  <2>1. r \in [Transports -> Seq(Reports)]
    BY <1>1, <1>3
  <2>2. \A u \in Transports : r[u] = IF u = t THEN q ELSE ring[u]
    BY <1>1, <1>3
  <2>3. QED
    BY <1>1, <2>1, <2>2
<1>4. QED
  BY <1>2, <1>3

LEMMA RetryResetFacts ==
  ASSUME TypeOK, RetryReset
  PROVE  /\ retries' = IF retryReset THEN <<>> ELSE retries
         /\ retryReset' = FALSE
         /\ retries' \in Seq(Retry) /\ Len(retries') <= RetryCapacity
<1>1. <<>> \in Seq(Retry) /\ Len(<<>>) <= RetryCapacity
  BY Nothing, OutboundConstants
<1>2. retries \in Seq(Retry) /\ Len(retries) <= RetryCapacity
  BY DEF TypeOK, Retry
<1>3. QED
  BY <1>1, <1>2 DEF RetryReset

\* Every report of a ring, and every retry, was there before.
RingsFrom ==
  \A t \in Transports : \A i \in 1 .. Len(ring'[t]) :
    \E j \in 1 .. Len(ring[t]) : ring'[t][i] = ring[t][j]
RetriesFrom ==
  \A i \in 1 .. Len(retries') : \E j \in 1 .. Len(retries) :
    retries'[i].msg = retries[j].msg /\ retries'[i].target = retries[j].target

\* The message being sent is the one of before.
SendKept == Sending' => Sending /\ job' = job /\ on' = on

LEMMA RingSame ==
  ASSUME TypeOK, \A t \in Transports : ring'[t] = ring[t] \/ ring'[t] = <<>>
  PROVE  RingsFrom
<1> SUFFICES ASSUME NEW t \in Transports, NEW i \in 1 .. Len(ring'[t])
             PROVE  \E j \in 1 .. Len(ring[t]) : ring'[t][i] = ring[t][j]
  BY DEF RingsFrom
<1>1. ring'[t] # <<>>
  BY Nothing
<1>2. QED
  BY <1>1

LEMMA RetriesSame ==
  ASSUME TypeOK, retries' = retries \/ retries' = <<>>
  PROVE  RetriesFrom
  BY Nothing DEF RetriesFrom

LEMMA NumberedFrom ==
  ASSUME TypeOK, Numbered, RingsFrom, RetriesFrom, SendKept,
         UNCHANGED <<issued, retried, got>>,
         \A t \in Transports : generation[t] <= generation'[t] /\ session[t] <= session'[t],
         \A t \in Transports : generation'[t] \in Nat /\ session'[t] \in Nat
  PROVE  Numbered'
<1>1. ASSUME NEW t \in Transports, NEW i \in 1 .. Len(ring'[t])
      PROVE  /\ ring'[t][i].msg \in 1 .. Len(issued')
             /\ ring'[t][i].part <= Parts(issued'[ring'[t][i].msg].kind)
             /\ ring'[t][i].generation <= generation'[t]
             /\ issued'[ring'[t][i].msg].session <= session'[t]
  <2>1. PICK j \in 1 .. Len(ring[t]) : ring'[t][i] = ring[t][j]
    BY DEF RingsFrom
  <2>2. /\ ring[t][j].generation \in Nat /\ generation[t] \in Nat /\ session[t] \in Nat
        /\ issued[ring[t][j].msg].session \in Nat /\ ring[t][j].msg \in 1 .. Len(issued)
    BY Facts DEF Numbered
  <2>3. /\ ring[t][j].part <= Parts(issued[ring[t][j].msg].kind)
        /\ ring[t][j].generation <= generation[t]
        /\ issued[ring[t][j].msg].session <= session[t]
    BY DEF Numbered
  <2>4. /\ generation[t] <= generation'[t] /\ session[t] <= session'[t]
        /\ generation'[t] \in Nat /\ session'[t] \in Nat
    OBVIOUS
  <2>5. ring[t][j].generation <= generation'[t] /\ issued[ring[t][j].msg].session <= session'[t]
    BY <2>2, <2>3, <2>4, Transitive
  <2>6. QED
    BY <2>1, <2>2, <2>3, <2>5
<1>2. ASSUME NEW i \in 1 .. Len(retries')
      PROVE  /\ retries'[i].msg \in retried'
             /\ issued'[retries'[i].msg].session <= session'[retries'[i].target]
  <2>1. PICK j \in 1 .. Len(retries) :
          retries'[i].msg = retries[j].msg /\ retries'[i].target = retries[j].target
    BY DEF RetriesFrom
  <2>2. retries[j].target \in Transports
    BY Facts
  <2>3. /\ retries[j].msg \in retried /\ retries[j].msg \in 1 .. Len(issued)
        /\ issued[retries[j].msg].session <= session[retries[j].target]
    BY DEF Numbered
  <2>4. session[retries[j].target] \in Nat /\ issued[retries[j].msg].session \in Nat
    BY <2>2, <2>3, Facts
  <2>5. /\ session[retries[j].target] <= session'[retries[j].target]
        /\ session'[retries[j].target] \in Nat
    BY <2>2
  <2>6. issued[retries[j].msg].session <= session'[retries[j].target]
    BY <2>3, <2>4, <2>5
  <2>7. QED
    BY <2>1, <2>3, <2>6
<1>3. ASSUME NEW t \in Transports, NEW i \in 1 .. Len(got'[t])
      PROVE  got'[t][i].msg \in 1 .. Len(issued') /\ got'[t][i].session <= session'[t]
  <2>1. got[t][i].session \in Nat /\ session[t] \in Nat
    BY Facts
  <2>2. QED
    BY <2>1 DEF Numbered
<1>4. ASSUME Sending'
      PROVE  /\ job'.msg \in 1 .. Len(issued')
             /\ job'.part \in 1 .. Parts(issued'[job'.msg].kind)
             /\ issued'[job'.msg].session <= session'[on']
             /\ job'.retry => job'.msg \in retried'
  <2>1. Sending /\ job' = job /\ on' = on
    BY <1>4 DEF SendKept
  <2>2. on \in Transports /\ session[on] \in Nat /\ issued[job.msg].session \in Nat
    BY <2>1, Facts DEF Numbered
  <2>3. QED
    BY <2>1, <2>2 DEF Numbered
<1>5. QED
  BY <1>1, <1>2, <1>3, <1>4 DEF Numbered

LEMMA LinkStepTyped ==
  ASSUME Typed, LinkStep
  PROVE  Typed'
<1>0. TypeOK /\ Numbered /\ Placed
  BY DEF Typed
<1>1. TypeOK'
  BY <1>0, LinkTyped
<1>2. UNCHANGED <<ring, retries, at, on, job, issued, retried, cut, got>>
  BY <1>0, LinkFacts
<1>3. RingsFrom /\ RetriesFrom /\ SendKept
  BY <1>0, <1>2, RingSame, RetriesSame DEF SendKept, Sending
<1>4. Numbered'
  BY <1>0, <1>1, <1>2, <1>3, LinkFacts, NumberedFrom DEF TypeOK
<1>5. QED
  BY <1>0, <1>1, <1>2, <1>4 DEF Typed, Placed

LEMMA AfterDrainFacts ==
  ASSUME TypeOK, AfterDrain
  PROVE  at' \in {"drain", "retry"} /\ on' = "ble" /\ on' \in Transports
  BY DEF AfterDrain, Transports

LEMMA DrainTyped ==
  ASSUME Typed, DrainStep
  PROVE  Typed'
<1> USE DEF shared, history
<1>0. TypeOK /\ Numbered /\ Placed /\ ring \in [Transports -> Seq(Reports)] /\ on \in Transports
  BY DEF Typed, TypeOK
<1>1. /\ UNCHANGED <<up, live, generation, session, callback, job, issued, retried, cut>>
      /\ ~Sending'
  BY <1>0 DEF DrainStep, DrainReset, DrainRetryReset, DrainNothing, DrainCheck, DrainCompare,
         DrainWrite, DrainFails, DrainPop, AfterDrain, Sending
<1>2. ASSUME TypeOK', RingsFrom, RetriesFrom, got' = got PROVE Numbered'
  <2>1. \A t \in Transports : generation[t] \in Nat /\ session[t] \in Nat
    BY <1>0 DEF TypeOK
  <2>2. QED
    BY <1>0, <1>1, <1>2, <2>1, NumberedFrom DEF SendKept
<1>3. CASE DrainReset
  <2>1. TypeOK'
    BY <1>0, <1>1, <1>3, ResetFacts DEF DrainReset, TypeOK, Flags, Steps
  <2>2. RingsFrom /\ RetriesFrom
    BY <1>0, <1>3, ResetFacts, RingSame, RetriesSame DEF DrainReset
  <2>3. QED
    BY <1>0, <1>2, <1>3, <2>1, <2>2 DEF DrainReset, Typed, Placed
<1>4. CASE DrainRetryReset
  <2>1. TypeOK'
    BY <1>0, <1>1, <1>4, RetryResetFacts DEF DrainRetryReset, TypeOK, Retry, Steps
  <2>2. RingsFrom /\ RetriesFrom
    BY <1>0, <1>4, RetryResetFacts, RingSame, RetriesSame DEF DrainRetryReset
  <2>3. QED
    BY <1>0, <1>2, <1>4, <2>1, <2>2 DEF DrainRetryReset, Typed, Placed
<1>5. CASE DrainNothing \/ DrainCheck \/ DrainFails
  <2>1. TypeOK'
    BY <1>0, <1>5, AfterDrainFacts DEF DrainNothing, DrainCheck, DrainFails, TypeOK, Steps
  <2>2. RingsFrom /\ RetriesFrom /\ got' = got
    BY <1>0, <1>5, RingSame, RetriesSame DEF DrainNothing, DrainCheck, DrainFails
  <2>3. Placed'
    BY <1>0, <1>5 DEF DrainNothing, DrainCheck, DrainFails, AfterDrain, Placed
  <2>4. QED
    BY <1>2, <2>1, <2>2, <2>3 DEF Typed
<1>6. CASE DrainCompare
  <2>1. ring' = ring \/ ring' = [ring EXCEPT ![on] = <<>>]
    BY <1>6 DEF DrainCompare
  <2>2. <<>> \in Seq(Reports) /\ Len(<<>>) <= RingCapacity
    BY Nothing, OutboundConstants
  <2>3. ring' \in [Transports -> Seq(Reports)] /\ \A t \in Transports : Len(ring'[t]) <= RingCapacity
    BY <1>0, <2>1, <2>2, RingType
  <2>4. at' \in Steps /\ on' \in Transports
    BY <1>0, <1>6, AfterDrainFacts DEF DrainCompare, Steps
  <2>5. TypeOK'
    BY <1>0, <1>6, <2>3, <2>4 DEF DrainCompare, TypeOK
  <2>6. RingsFrom /\ RetriesFrom /\ got' = got
    BY <1>0, <1>6, <2>1, RingSame, RetriesSame DEF DrainCompare
  <2>7. Placed'
    BY <1>0, <1>6 DEF DrainCompare, AfterDrain, Placed
  <2>8. QED
    BY <1>2, <2>5, <2>6, <2>7 DEF Typed
<1>7. CASE DrainPop
  <2>1. ring[on] # <<>>
    BY <1>0, <1>7 DEF DrainPop, Placed
  <2>2. PICK q \in Seq(Reports) : q = Tail(ring[on])
    BY <1>0, <2>1, Shorter
  <2>3. ring' = ring \/ ring' = [ring EXCEPT ![on] = q]
    BY <1>7, <2>2 DEF DrainPop, Popped
  <2>4. /\ Len(q) = Len(ring[on]) - 1 /\ Len(ring[on]) \in Nat
        /\ \A i \in 1 .. Len(q) : q[i] = ring[on][i + 1]
    BY <1>0, <2>1, <2>2, Shorter, Elements
  <2>5. ring' \in [Transports -> Seq(Reports)] /\ \A t \in Transports : Len(ring'[t]) <= RingCapacity
    <3>1. Len(ring[on]) <= RingCapacity
      BY <1>0 DEF TypeOK
    <3>2. Len(q) <= RingCapacity
      BY <2>4, <3>1, OutboundConstants
    <3>3. QED
      BY <1>0, <2>3, <3>2, RingType
  <2>6. resetAsked' \in Flags
    BY <1>0, <1>7, FlagType DEF DrainPop, TypeOK, Flags
  <2>7. at' \in Steps /\ on' \in Transports
    BY <1>0, <1>7, AfterDrainFacts DEF DrainPop, Steps
  <2>8. TypeOK'
    BY <1>0, <1>7, <2>5, <2>6, <2>7 DEF DrainPop, TypeOK, Flags
  <2>9. RingsFrom
    <3> SUFFICES ASSUME NEW t \in Transports, NEW i \in 1 .. Len(ring'[t])
                 PROVE  \E j \in 1 .. Len(ring[t]) : ring'[t][i] = ring[t][j]
      BY DEF RingsFrom
    <3>1. CASE t # on \/ ring' = ring
      BY <1>0, <2>3, <3>1
    <3>2. CASE t = on /\ ring' # ring
      <4>1. ring'[t] = q
        BY <1>0, <2>3, <3>2
      <4>2. i + 1 \in 1 .. Len(ring[t]) /\ ring'[t][i] = ring[t][i + 1]
        BY <2>4, <3>2, <4>1
      <4>3. QED
        BY <4>2
    <3>3. QED
      BY <3>1, <3>2
  <2>10. RetriesFrom /\ got' = got
    BY <1>0, <1>7, RetriesSame DEF DrainPop
  <2>11. Placed'
    BY <1>7 DEF DrainPop, AfterDrain, Placed
  <2>12. QED
    BY <1>2, <2>8, <2>9, <2>10, <2>11 DEF Typed
<1>8. CASE DrainWrite
  <2>1. ring[on] # <<>>
    BY <1>0, <1>8 DEF DrainWrite, Placed
  <2>2. PICK r \in Reports : r = Head(ring[on]) /\ r = ring[on][1]
    BY <1>0, <2>1, Shorter
  <2>3. 1 \in 1 .. Len(ring[on])
    BY <1>0, <2>1, Elements
  <2>4. /\ r.msg \in 1 .. Len(issued) /\ r.msg \in Nat /\ r.part \in 1 .. 2
        /\ session[on] \in Nat
    BY <1>0, <2>2, <2>3, Facts DEF Numbered
  <2>5. PICK d \in Delivery : d = [msg |-> r.msg, part |-> r.part, session |-> session[on]]
    BY <2>4 DEF Delivery
  <2>6. got' = [got EXCEPT ![on] = Append(got[on], d)]
    BY <1>8, <2>2, <2>5 DEF DrainWrite
  <2>7. got[on] \in Seq(Delivery) /\ got \in [Transports -> Seq(Delivery)]
    BY <1>0 DEF TypeOK, Delivery
  <2>8. PICK q \in Seq(Delivery) : q = Append(got[on], d)
    BY <2>7, Added
  <2>9. /\ Len(q) = Len(got[on]) + 1 /\ q[Len(q)] = d /\ Len(got[on]) \in Nat
        /\ \A i \in 1 .. Len(got[on]) : q[i] = got[on][i]
    BY <2>7, <2>8, Added, Elements
  <2>10. got'[on] = q /\ \A t \in Transports : t # on => got'[t] = got[t]
    BY <1>0, <2>6, <2>7, <2>8
  <2>11. got' \in [Transports -> Seq(Delivery)]
    BY <2>6, <2>7, <2>8
  <2>12. free' \in BOOLEAN
    BY <1>0, <1>8, Zenon DEF DrainWrite, TypeOK
  <2>13. TypeOK'
    BY <1>0, <1>8, <2>11, <2>12 DEF DrainWrite, TypeOK, Delivery, Steps
  <2>14. ASSUME NEW t \in Transports, NEW i \in 1 .. Len(got'[t])
         PROVE  got'[t][i].msg \in 1 .. Len(issued) /\ got'[t][i].session <= session[t]
    <3>1. CASE t = on /\ i = Len(q)
      BY <2>4, <2>5, <2>9, <2>10, <3>1
    <3>2. CASE ~(t = on /\ i = Len(q))
      <4>1. i \in 1 .. Len(got[t]) /\ got'[t][i] = got[t][i]
        BY <2>9, <2>10, <3>2
      <4>2. QED
        BY <1>0, <4>1 DEF Numbered
    <3>3. QED
      BY <3>1, <3>2
  <2>15. ring' = ring /\ retries' = retries
    BY <1>8 DEF DrainWrite
  <2>16. Numbered'
    BY <1>0, <1>1, <2>14, <2>15 DEF Numbered
  <2>17. Placed'
    BY <1>0, <1>8 DEF DrainWrite, Placed
  <2>18. QED
    BY <2>13, <2>16, <2>17 DEF Typed
<1>9. QED
  BY <1>3, <1>4, <1>5, <1>6, <1>7, <1>8 DEF DrainStep

\* What transmit() adds to the ring of its transport.
Stamped == [generation |-> generation[on], msg |-> job.msg, part |-> job.part]

LEMMA StampFacts ==
  ASSUME Typed, SendStamp
  PROVE  /\ Stamped \in Reports
         /\ ring'[on] \in Seq(Reports) /\ Len(ring'[on]) = Len(ring[on]) + 1
         /\ ring'[on][Len(ring'[on])] = Stamped
         /\ \A i \in 1 .. Len(ring[on]) : ring'[on][i] = ring[on][i]
         /\ \A t \in Transports : t # on => ring'[t] = ring[t]
         /\ ring' \in [Transports -> Seq(Reports)]
         /\ \A t \in Transports : Len(ring'[t]) <= RingCapacity
         /\ Len(ring[on]) \in Nat /\ on \in Transports
         /\ Sending
<1>0. /\ TypeOK /\ Numbered /\ Placed /\ ring \in [Transports -> Seq(Reports)] /\ on \in Transports
      /\ Sending /\ at = "send_stamp"
  BY DEF Typed, TypeOK, SendStamp, Sending
<1>1. job.part \in 1 .. 2
  <2>1. Parts(issued[job.msg].kind) \in 1 .. 2
    BY KindParts
  <2>2. job.part \in 1 .. Parts(issued[job.msg].kind)
    BY <1>0 DEF Numbered
  <2>3. QED
    BY <2>1, <2>2
<1>2. Stamped \in Reports
  BY <1>0, <1>1, Facts DEF Stamped, Reports
<1>3. PICK q \in Seq(Reports) : q = Append(ring[on], Stamped)
  BY <1>0, <1>2, Added
<1>4. /\ Len(q) = Len(ring[on]) + 1 /\ q[Len(q)] = Stamped /\ Len(ring[on]) \in Nat
      /\ \A i \in 1 .. Len(ring[on]) : q[i] = ring[on][i]
  <2>1. ring[on] \in Seq(Reports)
    BY <1>0
  <2>2. Len(ring[on]) \in Nat
    BY <2>1, Elements
  <2>3. QED
    BY <1>2, <1>3, <2>1, <2>2, Added
<1>5. ring' = [ring EXCEPT ![on] = q]
  BY <1>3 DEF SendStamp, Enqueued, Stamped
<1>6. ring'[on] = q /\ \A t \in Transports : t # on => ring'[t] = ring[t]
  BY <1>0, <1>5
<1>7. Len(q) <= RingCapacity
  <2>1. Len(ring[on]) < RingCapacity
    BY <1>0 DEF Placed
  <2>2. QED
    BY <1>4, <2>1, OutboundConstants
<1>8. /\ ring' \in [Transports -> Seq(Reports)]
      /\ \A t \in Transports : Len(ring'[t]) <= RingCapacity
  BY <1>0, <1>5, <1>7, RingType
<1>9. QED
  BY <1>0, <1>2, <1>4, <1>6, <1>8

LEMMA JobType ==
  ASSUME NEW m \in Nat, NEW p \in Nat, NEW r \in BOOLEAN
  PROVE  [msg |-> m, part |-> p, retry |-> r] \in [msg : Nat, part : Nat, retry : BOOLEAN]
  OBVIOUS

LEMMA NoJobType == NoJob \in [msg : Nat, part : Nat, retry : BOOLEAN]
  BY JobType DEF NoJob

\* The list of retries without the one that was sent.
LEMMA RetriesTail ==
  ASSUME TypeOK, retries' = retries \/ (retries # <<>> /\ retries' = Tail(retries))
  PROVE  /\ retries' \in Seq(Retry) /\ Len(retries') <= RetryCapacity
         /\ RetriesFrom
<1>1. /\ retries \in Seq(Retry) /\ Len(retries) \in Nat /\ Len(retries) <= RetryCapacity
  BY Facts DEF TypeOK
<1>2. CASE retries' = retries
  BY <1>1, <1>2 DEF RetriesFrom
<1>3. CASE retries # <<>> /\ retries' = Tail(retries)
  <2>1. /\ retries' \in Seq(Retry) /\ Len(retries') = Len(retries) - 1
        /\ \A i \in 1 .. Len(retries') : retries'[i] = retries[i + 1]
    BY <1>1, <1>3, Shorter
  <2>2. Len(retries') <= RetryCapacity
    BY <1>1, <2>1, OutboundConstants
  <2>3. \A i \in 1 .. Len(retries') : i + 1 \in 1 .. Len(retries)
    BY <1>1, <2>1
  <2>4. RetriesFrom
    BY <2>1, <2>3 DEF RetriesFrom
  <2>5. QED
    BY <2>1, <2>2, <2>4
<1>4. QED
  BY <1>2, <1>3

LEMMA StampTyped ==
  ASSUME Typed, SendStamp
  PROVE  Typed'
<1> USE DEF shared, history
<1>0. /\ TypeOK /\ Numbered /\ Placed /\ Sending
      /\ UNCHANGED <<up, free, generation, resetAsked, retryReset, live, callback, session, on,
                     issued, retried, cut, got>>
  BY StampFacts DEF Typed, SendStamp
<1>1. \/ job' = NoJob /\ at' \in {"retry", "work"}
      \/ /\ job.part < Parts(issued[job.msg].kind)
         /\ job' = [job EXCEPT !.part = @ + 1] /\ at' = "send"
  BY DEF SendStamp
<1>2. retries' = retries \/ (retries # <<>> /\ retries' = Tail(retries))
  BY DEF SendStamp, RetriesAfterSuccess
<1>3. /\ retries' \in Seq(Retry) /\ Len(retries') <= RetryCapacity
      /\ RetriesFrom
  BY <1>0, <1>2, RetriesTail
<1>4. /\ job.msg \in 1 .. Len(issued) /\ job.part \in 1 .. 2 /\ job.msg \in Nat
      /\ job.part \in 1 .. Parts(issued[job.msg].kind) /\ Parts(issued[job.msg].kind) \in 1 .. 2
      /\ job.retry \in BOOLEAN
      /\ job = [msg |-> job.msg, part |-> job.part, retry |-> job.retry]
  BY <1>0, KindParts, Facts DEF Numbered, TypeOK
<1>5. \/ job' = NoJob /\ at' \in {"retry", "work"}
      \/ /\ job.part + 1 \in 1 .. Parts(issued[job.msg].kind)
         /\ job' = [msg |-> job.msg, part |-> job.part + 1, retry |-> job.retry] /\ at' = "send"
  BY <1>1, <1>4
<1>6. job' \in [msg : Nat, part : Nat, retry : BOOLEAN] /\ at' \in Steps
  <2>1. at' \in Steps
    BY <1>5 DEF Steps
  <2>2. job.part + 1 \in Nat
    BY <1>4
  <2>3. [msg |-> job.msg, part |-> job.part + 1, retry |-> job.retry]
          \in [msg : Nat, part : Nat, retry : BOOLEAN]
    BY <1>4, <2>2, JobType
  <2>4. QED
    BY <1>5, <2>1, <2>3, NoJobType
<1>7. TypeOK'
  BY <1>0, <1>3, <1>6, StampFacts DEF TypeOK, Retry
<1>8. ASSUME NEW t \in Transports, NEW i \in 1 .. Len(ring'[t])
      PROVE  /\ ring'[t][i].msg \in 1 .. Len(issued)
             /\ ring'[t][i].part <= Parts(issued[ring'[t][i].msg].kind)
             /\ ring'[t][i].generation <= generation[t]
             /\ issued[ring'[t][i].msg].session <= session[t]
  <2>1. CASE t = on /\ i = Len(ring'[on])
    <3>1. ring'[t][i] = Stamped
      BY <2>1, StampFacts
    <3>2. generation[t] \in Nat /\ generation[on] = generation[t]
      BY <1>0, <2>1, Facts
    <3>3. QED
      BY <1>0, <1>4, <2>1, <3>1, <3>2 DEF Numbered, Stamped
  <2>2. CASE ~(t = on /\ i = Len(ring'[on]))
    <3>1. i \in 1 .. Len(ring[t]) /\ ring'[t][i] = ring[t][i]
      BY <2>2, StampFacts
    <3>2. QED
      BY <1>0, <3>1 DEF Numbered
  <2>3. QED
    BY <2>1, <2>2
<1>9. ASSUME NEW i \in 1 .. Len(retries')
      PROVE  /\ retries'[i].msg \in retried
             /\ issued[retries'[i].msg].session <= session[retries'[i].target]
  BY <1>0, <1>3 DEF RetriesFrom, Numbered
<1>10. ASSUME Sending'
       PROVE  /\ job'.msg = job.msg /\ job'.retry = job.retry
              /\ job'.part \in 1 .. Parts(issued[job.msg].kind)
  <2>1. at' \notin {"retry", "work"}
    BY <1>10 DEF Sending
  <2>2. /\ job.part + 1 \in 1 .. Parts(issued[job.msg].kind)
        /\ job' = [msg |-> job.msg, part |-> job.part + 1, retry |-> job.retry]
    BY <1>5, <2>1
  <2>3. QED
    BY <2>2
<1>11. Numbered'
  BY <1>0, <1>8, <1>9, <1>10 DEF Numbered
<1>12. Placed'
  BY <1>5 DEF Placed
<1>13. QED
  BY <1>7, <1>11, <1>12 DEF Typed

LEMMA SendTyped ==
  ASSUME Typed, SendReset \/ SendRetryReset \/ SendCheck
  PROVE  Typed'
<1> USE DEF shared, history
<1>0. /\ TypeOK /\ Numbered /\ Placed /\ on \in Transports
      /\ UNCHANGED <<up, live, generation, session, callback, on, job, issued, retried, cut, got>>
      /\ Sending /\ at' \in Steps
      /\ \A t \in Transports : generation[t] \in Nat /\ session[t] \in Nat
  BY DEF Typed, TypeOK, SendReset, SendRetryReset, SendCheck, Sending, Steps
<1>1. ASSUME TypeOK', RingsFrom, RetriesFrom PROVE Numbered'
  BY <1>0, <1>1, NumberedFrom DEF SendKept
<1>2. CASE SendReset
  <2>1. TypeOK'
    BY <1>0, <1>2, ResetFacts DEF SendReset, TypeOK, Flags
  <2>2. RingsFrom /\ RetriesFrom
    BY <1>0, <1>2, ResetFacts, RingSame, RetriesSame DEF SendReset
  <2>3. QED
    BY <1>0, <1>1, <1>2, <2>1, <2>2 DEF SendReset, Typed, Placed
<1>3. CASE SendRetryReset
  <2>1. TypeOK'
    BY <1>0, <1>3, RetryResetFacts DEF SendRetryReset, TypeOK, Retry
  <2>2. RingsFrom /\ RetriesFrom
    BY <1>0, <1>3, RetryResetFacts, RingSame, RetriesSame DEF SendRetryReset
  <2>3. QED
    BY <1>0, <1>1, <1>3, <2>1, <2>2 DEF SendRetryReset, Typed, Placed
<1>4. CASE SendCheck
  <2>1. TypeOK'
    BY <1>0, <1>4 DEF SendCheck, TypeOK
  <2>2. RingsFrom /\ RetriesFrom
    BY <1>0, <1>4, RingSame, RetriesSame DEF SendCheck
  <2>3. QED
    BY <1>0, <1>1, <1>4, <2>1, <2>2 DEF SendCheck, HasRoom, Typed, Placed
<1>5. QED
  BY <1>2, <1>3, <1>4

LEMMA RefusedTyped ==
  ASSUME Typed, SendRefused
  PROVE  Typed'
<1> USE DEF shared, history
<1>0. /\ TypeOK /\ Numbered /\ Placed /\ on \in Transports /\ Sending
      /\ UNCHANGED <<up, free, generation, resetAsked, retryReset, live, callback, session, on,
                     ring, issued, got>>
      /\ at' = "work" /\ job' = NoJob
      /\ cut' = cut \/ cut' = cut \cup {job.msg}
      /\ retries \in Seq(Retry)
  BY DEF Typed, TypeOK, SendRefused, Sending, GiveUp, Retry
<1>1. /\ job.msg \in 1 .. Len(issued) /\ job.msg \in Nat /\ Len(issued) \in Nat
      /\ Len(issued) <= MaxMessages
  BY <1>0, Facts DEF Numbered
<1>2. job.msg \in 1 .. MaxMessages
  BY <1>1, OutboundConstants
<1>3. cut' \subseteq 1 .. MaxMessages
  <2>1. cut \subseteq 1 .. MaxMessages
    BY <1>0 DEF TypeOK
  <2>2. cut' = cut \/ cut' = cut \cup {job.msg}
    BY <1>0
  <2>3. QED
    BY <1>2, <2>1, <2>2
<1> DEFINE r == [msg |-> job.msg, target |-> on, old |-> FALSE]
<1>4. \/ UNCHANGED <<retries, retried>>
      \/ /\ issued[job.msg].kind = "key" /\ Len(retries) < RetryCapacity
         /\ retries' = Append(retries, r) /\ retried' = retried \cup {job.msg}
  BY DEF SendRefused, KeyRefused, RetryRefused
<1>5. CASE UNCHANGED <<retries, retried>>
  <2>1. TypeOK'
    BY <1>0, <1>3, <1>5, NoJobType DEF TypeOK, Steps
  <2>2. RingsFrom /\ RetriesFrom /\ SendKept
    BY <1>0, <1>5, RingSame, RetriesSame DEF SendKept, Sending
  <2>3. Numbered'
    <3>1. TypeOK /\ Numbered /\ UNCHANGED <<issued, retried, got, generation, session>>
      BY <1>0, <1>5
    <3>2. \A t \in Transports : generation[t] \in Nat /\ session[t] \in Nat
      BY <1>0 DEF TypeOK
    <3>3. \A t \in Transports : generation[t] <= generation'[t] /\ session[t] <= session'[t]
      BY <3>1, <3>2
    <3>4. \A t \in Transports : generation'[t] \in Nat /\ session'[t] \in Nat
      BY <3>1, <3>2
    <3>5. UNCHANGED <<issued, retried, got>>
      BY <3>1
    <3>6. QED
      BY <2>2, <3>1, <3>3, <3>4, <3>5, NumberedFrom
  <2>4. QED
    BY <1>0, <2>1, <2>3 DEF Typed, Placed
<1>6. CASE /\ issued[job.msg].kind = "key" /\ Len(retries) < RetryCapacity
           /\ retries' = Append(retries, r) /\ retried' = retried \cup {job.msg}
  <2>1. r \in Retry /\ r.msg = job.msg /\ r.target = on
    BY <1>0, <1>1, RetryType
  <2>2. /\ retries' \in Seq(Retry) /\ Len(retries') = Len(retries) + 1
        /\ retries'[Len(retries')] = r
        /\ \A i \in 1 .. Len(retries) : retries'[i] = retries[i]
    BY <1>0, <1>6, <2>1, Added
  <2>3. Len(retries') <= RetryCapacity /\ Len(retries) \in Nat
    BY <1>0, <1>6, <2>2, OutboundConstants, Facts
  <2>4. retried' \subseteq 1 .. MaxMessages
    BY <1>0, <1>2, <1>6 DEF TypeOK
  <2>5. TypeOK'
    BY <1>0, <1>3, <2>2, <2>3, <2>4, NoJobType DEF TypeOK, Steps, Retry
  <2>6. ASSUME NEW i \in 1 .. Len(retries')
        PROVE  /\ retries'[i].msg \in retried'
               /\ issued[retries'[i].msg].session <= session[retries'[i].target]
    <3>1. CASE i = Len(retries')
      BY <1>0, <1>6, <2>1, <2>2, <3>1 DEF Numbered
    <3>2. CASE i # Len(retries')
      <4>1. i \in 1 .. Len(retries) /\ retries'[i] = retries[i]
        BY <2>2, <2>3, <3>2
      <4>2. QED
        BY <1>0, <1>6, <4>1 DEF Numbered
    <3>3. QED
      BY <3>1, <3>2
  <2>7. \A m \in retried' : m \in 1 .. Len(issued) /\ issued[m].kind = "key"
    BY <1>0, <1>1, <1>6 DEF Numbered
  <2>8. ~Sending'
    BY <1>0 DEF Sending
  <2>9. Numbered'
    BY <1>0, <2>6, <2>7, <2>8 DEF Numbered
  <2>10. QED
    BY <1>0, <2>5, <2>9 DEF Typed, Placed
<1>7. QED
  BY <1>4, <1>5, <1>6

LEMMA RetryTyped ==
  ASSUME Typed, RetryStep \/ NextTurn \/ RetriesAge
  PROVE  Typed'
<1> USE DEF shared, history
<1>0. /\ TypeOK /\ Numbered /\ Placed /\ on \in Transports
      /\ UNCHANGED <<up, free, generation, resetAsked, retryReset, live, callback, session,
                     ring, issued, retried, cut, got>>
      /\ retries \in Seq(Retry) /\ Len(retries) <= RetryCapacity /\ "usb" \in Transports
      /\ \A t \in Transports : generation[t] \in Nat /\ session[t] \in Nat
  BY DEF Typed, TypeOK, RetryStep, RetryNothing, RetryExpires, RetrySend, NextTurn, RetriesAge, Retry,
         Transports
<1>1. RingsFrom
  BY <1>0, RingSame
<1>2. CASE RetryNothing \/ NextTurn
  <2>1. TypeOK'
    BY <1>0, <1>2 DEF RetryNothing, NextTurn, TypeOK, Steps
  <2>2. RetriesFrom /\ SendKept
    BY <1>0, <1>2, RetriesSame DEF RetryNothing, NextTurn, SendKept, Sending
  <2>3. Numbered'
    BY <1>0, <1>1, <2>1, <2>2, NumberedFrom
  <2>4. QED
    BY <1>2, <2>1, <2>3 DEF RetryNothing, NextTurn, Typed, Placed
<1>3. CASE RetryExpires
  <2>1. retries' \in Seq(Retry) /\ Len(retries') <= RetryCapacity /\ RetriesFrom
    BY <1>0, <1>3, RetriesTail DEF RetryExpires
  <2>2. TypeOK'
    BY <1>0, <1>3, <2>1 DEF RetryExpires, TypeOK, Retry
  <2>3. SendKept
    BY <1>3 DEF RetryExpires, SendKept, Sending
  <2>4. Numbered'
    BY <1>0, <1>1, <2>1, <2>2, <2>3, NumberedFrom
  <2>5. QED
    BY <1>0, <1>3, <2>2, <2>4 DEF RetryExpires, Typed, Placed
<1>4. CASE RetriesAge
  <2>1. /\ retries' \in Seq(Retry) /\ Len(retries') = Len(retries)
        /\ \A i \in 1 .. Len(retries) : retries'[i].msg = retries[i].msg
                                        /\ retries'[i].target = retries[i].target
    BY <1>0, <1>4, Aged DEF RetriesAge
  <2>2. RetriesFrom
    BY <2>1 DEF RetriesFrom
  <2>3. TypeOK'
    BY <1>0, <1>4, <2>1 DEF RetriesAge, TypeOK, Retry
  <2>4. SendKept
    BY <1>4 DEF RetriesAge, SendKept, Sending
  <2>5. Numbered'
    BY <1>0, <1>1, <2>2, <2>3, <2>4, NumberedFrom
  <2>6. QED
    BY <1>0, <1>4, <2>3, <2>5 DEF RetriesAge, Typed, Placed
<1>5. CASE RetrySend
  <2>1. Len(retries) > 0 /\ Head(retries) = retries[1] /\ Len(retries) \in Nat
    BY <1>0, <1>5, Shorter, Elements DEF RetrySend
  <2>2. 1 \in 1 .. Len(retries)
    BY <2>1
  <2>3. PICK m \in Nat : m = retries[1].msg
    BY <1>0, <2>2, Facts
  <2>4. /\ m \in retried /\ m \in 1 .. Len(issued) /\ issued[m].kind = "key"
        /\ issued[m].session <= session[retries[1].target]
    BY <1>0, <2>2, <2>3 DEF Numbered
  <2>5. /\ job' = [msg |-> m, part |-> 1, retry |-> TRUE] /\ on' = Active /\ at' = "send"
        /\ retries[1].target = Active /\ Active \in Transports /\ retries' = retries
    BY <1>5, <2>1, <2>3, TransportFacts DEF RetrySend
  <2>6. job' \in [msg : Nat, part : Nat, retry : BOOLEAN]
    BY <2>5, JobType
  <2>7. TypeOK'
    BY <1>0, <2>5, <2>6 DEF TypeOK, Steps
  <2>8. job'.msg = m /\ job'.part = 1 /\ 1 \in 1 .. Parts("key")
    BY <2>5 DEF Parts
  <2>9. Numbered'
    BY <1>0, <2>4, <2>5, <2>8 DEF Numbered
  <2>10. QED
    BY <2>5, <2>7, <2>9 DEF Typed, Placed
<1>6. QED
  BY <1>2, <1>3, <1>4, <1>5 DEF RetryStep

LEMMA IssueFacts ==
  ASSUME TypeOK, NEW kind \in Kinds, NEW t \in Transports, Issue(kind, t)
  PROVE  /\ issued' \in Seq([kind : Kinds, session : Nat])
         /\ Len(issued') = Len(issued) + 1 /\ Len(issued) \in Nat
         /\ \A m \in 1 .. Len(issued) : issued'[m] = issued[m]
         /\ issued'[Len(issued')] = [kind |-> kind, session |-> session[t]]
         /\ job' = [msg |-> Len(issued'), part |-> 1, retry |-> FALSE]
         /\ on' = t /\ at = "work" /\ at' = "send" /\ live[t]
         /\ UNCHANGED <<up, free, generation, resetAsked, retryReset, live, callback, session,
                        ring, retries, retried, cut, got>>
<1>1. issued \in Seq([kind : Kinds, session : Nat]) /\ session[t] \in Nat
  BY DEF TypeOK
<1>2. [kind |-> kind, session |-> session[t]] \in [kind : Kinds, session : Nat]
  BY <1>1
<1>3. issued' = Append(issued, [kind |-> kind, session |-> session[t]])
  BY DEF Issue
<1>4. Len(issued) \in Nat
  BY <1>1, Elements
<1>5. /\ issued' \in Seq([kind : Kinds, session : Nat]) /\ Len(issued') = Len(issued) + 1
      /\ issued'[Len(issued')] = [kind |-> kind, session |-> session[t]]
      /\ \A m \in 1 .. Len(issued) : issued'[m] = issued[m]
  BY <1>1, <1>2, <1>3, Added
<1>6. QED
  BY <1>4, <1>5 DEF Issue, shared

LEMMA IssueTyped ==
  ASSUME Typed, NEW kind \in Kinds, NEW t \in Transports, Issue(kind, t)
  PROVE  Typed'
<1>0. TypeOK /\ Numbered /\ Placed
  BY DEF Typed
<1>1. /\ issued' \in Seq([kind : Kinds, session : Nat])
      /\ Len(issued') = Len(issued) + 1 /\ Len(issued) \in Nat
      /\ \A m \in 1 .. Len(issued) : issued'[m] = issued[m]
      /\ issued'[Len(issued')] = [kind |-> kind, session |-> session[t]]
      /\ job' = [msg |-> Len(issued'), part |-> 1, retry |-> FALSE]
      /\ on' = t /\ at' = "send"
      /\ UNCHANGED <<up, free, generation, resetAsked, retryReset, live, callback, session,
                     ring, retries, retried, cut, got>>
  BY <1>0, IssueFacts
<1>a. \A m \in 1 .. Len(issued) : m \in 1 .. Len(issued')
  BY <1>1
<1>2. Len(issued') <= MaxMessages /\ Len(issued') \in Nat
  BY <1>1, OutboundConstants DEF Issue
<1>3. job' \in [msg : Nat, part : Nat, retry : BOOLEAN]
  BY <1>1, <1>2, JobType
<1>4. TypeOK'
  BY <1>0, <1>1, <1>3 DEF TypeOK, Steps
<1>5. /\ job'.msg = Len(issued') /\ job'.part = 1 /\ ~job'.retry
      /\ issued'[Len(issued')].kind = kind /\ issued'[Len(issued')].session = session[t]
      /\ Len(issued') \in 1 .. Len(issued')
  BY <1>1, <1>2
<1>6. 1 \in 1 .. Parts(kind) /\ session[t] \in Nat
  BY <1>0, Facts DEF Parts
<1>7. ASSUME NEW u \in Transports, NEW i \in 1 .. Len(ring[u])
      PROVE  /\ ring[u][i].msg \in 1 .. Len(issued')
             /\ ring[u][i].part <= Parts(issued'[ring[u][i].msg].kind)
             /\ ring[u][i].generation <= generation[u]
             /\ issued'[ring[u][i].msg].session <= session[u]
  <2>1. ring[u][i].msg \in 1 .. Len(issued)
    BY <1>0 DEF Numbered
  <2>2. issued'[ring[u][i].msg] = issued[ring[u][i].msg] /\ ring[u][i].msg \in 1 .. Len(issued')
    BY <1>1, <1>a, <2>1
  <2>3. QED
    BY <1>0, <2>2 DEF Numbered
<1>8. ASSUME NEW u \in Transports, NEW i \in 1 .. Len(got[u])
      PROVE  got[u][i].msg \in 1 .. Len(issued') /\ got[u][i].session <= session[u]
  BY <1>0, <1>1, <1>a DEF Numbered
<1>9. \A m \in retried : m \in 1 .. Len(issued') /\ issued'[m].kind = "key" /\ issued'[m] = issued[m]
  BY <1>0, <1>1, <1>a DEF Numbered
<1>10. ASSUME NEW i \in 1 .. Len(retries)
       PROVE  /\ retries[i].msg \in retried
              /\ issued'[retries[i].msg].session <= session[retries[i].target]
  BY <1>0, <1>9 DEF Numbered
<1>11. issued'[job'.msg].session <= session[t]
  BY <1>5, <1>6
<1>12. Numbered'
  BY <1>1, <1>2, <1>5, <1>6, <1>7, <1>8, <1>9, <1>10, <1>11 DEF Numbered
<1>13. QED
  BY <1>1, <1>4, <1>12 DEF Typed, Placed

LEMMA NextSteps ==
  ASSUME [Next]_vars
  PROVE  \/ LinkStep
         \/ DrainStep
         \/ SendReset \/ SendRetryReset \/ SendCheck
         \/ SendStamp
         \/ SendRefused
         \/ RetryStep \/ NextTurn \/ RetriesAge
         \/ \E kind \in Kinds, t \in Transports : Issue(kind, t)
         \/ UNCHANGED vars
  BY DEF Next, MainStep, SendStep, Environment, LinkStep

LEMMA TypedStep == Typed /\ [Next]_vars => Typed'
<1> SUFFICES ASSUME Typed, [Next]_vars PROVE Typed'
  OBVIOUS
<1>1. ASSUME UNCHANGED vars PROVE Typed'
  <2>1. TypeOK'
    BY <1>1 DEF vars, Typed, TypeOK
  <2>2. Numbered'
    BY <1>1 DEF vars, Typed, Numbered, Sending
  <2>3. Placed'
    BY <1>1 DEF vars, Typed, Placed
  <2>4. QED
    BY <2>1, <2>2, <2>3 DEF Typed
<1>2. QED
  BY <1>1, NextSteps, LinkStepTyped, DrainTyped, SendTyped, StampTyped, RefusedTyped, RetryTyped, IssueTyped

LEMMA TypedInit == Init => Typed
<1> SUFFICES ASSUME Init PROVE Typed
  OBVIOUS
<1> USE DEF Init
<1>1. PICK quota \in Quotas : session = [t \in Transports |-> LastSession - quota[t]]
  OBVIOUS
<1>2. session \in [Transports -> Nat]
  <2>1. quota \in [Transports -> 0 .. LastSession] /\ LastSession \in Nat
    BY OutboundConstants
  <2>2. \A t \in Transports : LastSession - quota[t] \in Nat
    BY <2>1
  <2>3. QED
    BY <1>1, <2>2
<1>3. /\ \A S : <<>> \in Seq(S) /\ Len(<<>>) = 0
      /\ 0 <= RingCapacity /\ 0 <= RetryCapacity /\ 0 <= MaxMessages
  BY OutboundConstants
<1>4. up \in Flags /\ resetAsked \in Flags /\ live \in Flags
  BY Zenon DEF Flags
<1>5. /\ ring \in [Transports -> Seq(Reports)] /\ \A t \in Transports : Len(ring[t]) = 0
      /\ got \in [Transports -> Seq(Delivery)] /\ \A t \in Transports : Len(got[t]) = 0
      /\ retries \in Seq(Retry) /\ Len(retries) = 0
      /\ issued \in Seq([kind : Kinds, session : Nat]) /\ Len(issued) = 0
  BY <1>3
<1>6. TypeOK
  BY <1>2, <1>3, <1>4, <1>5, NoJobType, TransportFacts DEF TypeOK, Steps, Flags, Retry, Delivery
<1>7. Numbered
  BY <1>3, <1>5 DEF Numbered, Sending
<1>8. Placed
  BY DEF Placed
<1>9. QED
  BY <1>6, <1>7, <1>8 DEF Typed

-----------------------------------------------------------------------------
(* The generations: whose the reports of a ring are.                       *)

RingGood(t) == DownRing(t) /\ NewRing(t) /\ OwnRing(t) /\ CleanRing(t) /\ SafeRing(t)

\* A step that adds nothing to the ring of t and leaves its link alone.
Still(t) ==
  /\ up'[t] = up[t] /\ callback'[t] = callback[t] /\ resetAsked'[t] = resetAsked[t]
  /\ generation'[t] = generation[t] /\ session'[t] = session[t]
  /\ Inside(t)' => Inside(t)
  /\ on' = t /\ at' = "send_stamp" => on = t /\ at = "send_stamp"
  /\ retried \subseteq retried'
  /\ \A i \in 1 .. Len(ring'[t]) : \E j \in 1 .. Len(ring[t]) :
       /\ ring'[t][i] = ring[t][j]
       /\ issued'[ring[t][j].msg].session = issued[ring[t][j].msg].session

LEMMA StillGood ==
  ASSUME NEW t \in Transports, RingGood(t), Still(t)
  PROVE  RingGood(t)'
<1>1. DownRing(t)'
  BY DEF RingGood, Still, DownRing, Fresh
<1>2. NewRing(t)'
  BY DEF RingGood, Still, NewRing, Fresh
<1>3. OwnRing(t)'
  <2> SUFFICES ASSUME ~(up'[t] /\ callback'[t] = "generation"), NEW i \in 1 .. Len(ring'[t]),
                      Fresh(t, i)'
               PROVE  Own(t, ring[t][i].msg)'
    BY DEF OwnRing
  <2>1. PICK j \in 1 .. Len(ring[t]) :
          /\ ring'[t][i] = ring[t][j]
          /\ issued'[ring[t][j].msg].session = issued[ring[t][j].msg].session
    BY DEF Still
  <2>2. Own(t, ring[t][j].msg)
    BY <2>1 DEF RingGood, OwnRing, Still, Fresh
  <2>3. QED
    BY <2>1, <2>2 DEF Own, Still
<1>4. CleanRing(t)'
  BY DEF RingGood, Still, CleanRing, Fresh
<1>5. SafeRing(t)'
  <2> SUFFICES ASSUME up'[t], NEW i \in 1 .. Len(ring'[t]),
                      issued'[ring'[t][i].msg].session = session'[t]
               PROVE  callback'[t] = "idle" /\ ~resetAsked'[t]
    BY DEF SafeRing
  <2>1. PICK j \in 1 .. Len(ring[t]) :
          /\ ring'[t][i] = ring[t][j]
          /\ issued'[ring[t][j].msg].session = issued[ring[t][j].msg].session
    BY DEF Still
  <2>2. QED
    BY <2>1 DEF RingGood, SafeRing, Still
<1>6. QED
  BY <1>1, <1>2, <1>3, <1>4, <1>5 DEF RingGood

LEMMA EmptyGood ==
  ASSUME NEW t \in Transports, ring'[t] = <<>>, ~(on' = t /\ at' = "send_stamp")
  PROVE  RingGood(t)'
<1>2. \A i : i \notin 1 .. Len(ring'[t])
  BY NoneIn
<1>3. DownRing(t)' /\ NewRing(t)' /\ OwnRing(t)'
  BY <1>2 DEF DownRing, NewRing, OwnRing
<1>4. CleanRing(t)' /\ SafeRing(t)'
  BY <1>2 DEF CleanRing, SafeRing
<1>5. QED
  BY <1>3, <1>4 DEF RingGood

\* Every step of a callback keeps the ring of its transport sound.
LEMMA ConnectGood ==
  ASSUME Typed, Sound, NEW u \in Transports, Connect(u)
  PROVE  Generations' /\ LiveLinks' /\ RetrySafe'
<1> USE DEF history
<1>0. /\ TypeOK /\ Numbered /\ LiveLinks /\ Generations /\ RetrySafe
      /\ \A t \in Transports : RingGood(t)
  BY DEF Typed, Sound, Generations, RingGood
<1>1. /\ UNCHANGED <<ring, retries, at, on, job, issued, retried, cut, got, generation, resetAsked,
                     retryReset, live>>
      /\ ~up[u] /\ callback[u] = "idle" /\ BetweenCalls(u)
      /\ up'[u] /\ session'[u] = session[u] + 1 /\ callback'[u] = "generation"
      /\ \A t \in Transports : t # u =>
           up'[t] = up[t] /\ session'[t] = session[t] /\ callback'[t] = callback[t]
      /\ session[u] \in Nat
  BY <1>0 DEF Connect, TypeOK
<1>2. ~Inside(u) /\ (on = u => ~Sending /\ at # "drain_write")
  BY <1>1 DEF BetweenCalls, Inside, Sending
<1>3. ASSUME NEW t \in Transports, t # u PROVE RingGood(t)'
  <2>1. Still(t)
    BY <1>1, <1>3 DEF Still, Inside
  <2>2. QED
    BY <1>0, <2>1, StillGood
<1>4. RingGood(u)'
  <2>1. DownRing(u)' /\ OwnRing(u)' /\ CleanRing(u)'
    BY <1>1 DEF DownRing, OwnRing, CleanRing
  <2>2. NewRing(u)'
    BY <1>0, <1>1, <1>2 DEF RingGood, DownRing, NewRing, Fresh, Inside
  <2>3. ASSUME NEW i \in 1 .. Len(ring[u]) PROVE issued[ring[u][i].msg].session # session'[u]
    <3>1. issued[ring[u][i].msg].session <= session[u] /\ ring[u][i].msg \in 1 .. Len(issued)
      BY <1>0 DEF Numbered
    <3>2. issued[ring[u][i].msg].session \in Nat
      BY <1>0, <3>1, Facts
    <3>3. QED
      BY <1>1, <3>1, <3>2
  <2>4. SafeRing(u)'
    BY <1>1, <2>3 DEF SafeRing
  <2>5. QED
    BY <2>1, <2>2, <2>4 DEF RingGood
<1>5. SendSafe'
  <2>1. on \in Transports
    BY <1>0 DEF TypeOK
  <2>2. QED
    BY <1>0, <1>1, <1>2, <2>1 DEF Generations, SendSafe, Sending, Own
<1>6. at' = "drain_write" => Own(on, ring[on][1].msg)'
  <2>1. on \in Transports
    BY <1>0 DEF TypeOK
  <2>2. QED
    BY <1>0, <1>1, <1>2, <2>1 DEF Generations, Own
<1>7. Generations'
  BY <1>3, <1>4, <1>5, <1>6 DEF Generations, RingGood
<1>8. LiveLinks'
  BY <1>0, <1>1 DEF LiveLinks
<1>9. RetrySafe'
  <2>1. CASE u = "ble"
    BY <1>0, <1>1, <2>1 DEF RetrySafe, LiveLinks
  <2>2. CASE u # "ble"
    <3>1. up'["ble"] = up["ble"] /\ session'["ble"] = session["ble"] /\ callback'["ble"] = callback["ble"]
      BY <1>1, <2>2, TransportFacts
    <3>2. QED
      BY <1>0, <1>1, <3>1 DEF RetrySafe, Old, Retrying, Sending
  <2>3. QED
    BY <2>1, <2>2
<1>10. QED
  BY <1>7, <1>8, <1>9

LEMMA CallbackGood ==
  ASSUME Typed, Sound, NEW u \in Transports,
         \/ Disconnect(u) \/ BumpGeneration(u) \/ AskRingReset(u)
         \/ (u = "ble" /\ AskRetryReset) \/ EndSession(u)
  PROVE  Generations' /\ LiveLinks' /\ RetrySafe'
<1> USE DEF history
<1>0. /\ TypeOK /\ Numbered /\ LiveLinks /\ Generations /\ RetrySafe
      /\ \A t \in Transports : RingGood(t)
      /\ on \in Transports /\ "ble" \in Transports
  BY TransportFacts DEF Typed, Sound, Generations, RingGood, TypeOK
<1>1. /\ UNCHANGED <<ring, retries, at, on, job, issued, retried, cut, got, session>>
      /\ \A t \in Transports : t # u =>
           /\ up'[t] = up[t] /\ callback'[t] = callback[t] /\ resetAsked'[t] = resetAsked[t]
           /\ generation'[t] = generation[t] /\ live'[t] = live[t]
      /\ u # "ble" => retryReset' = retryReset
  BY <1>0 DEF Disconnect, BumpGeneration, AskRingReset, AskRetryReset, EndSession, TypeOK
<1>2. ASSUME NEW t \in Transports, t # u PROVE RingGood(t)'
  <2>1. Still(t)
    BY <1>1, <1>2 DEF Still, Inside
  <2>2. QED
    BY <1>0, <2>1, StillGood
<1>3. \* What each of them does.
      \/ /\ callback[u] = "idle" /\ up[u] /\ ~up'[u] /\ callback'[u] = "generation"
         /\ UNCHANGED <<generation, resetAsked, retryReset, live>>
      \/ /\ callback[u] = "generation" /\ callback'[u] = "ring" /\ generation'[u] = generation[u] + 1
         /\ UNCHANGED <<up, resetAsked, retryReset, live>>
      \/ /\ callback[u] = "ring" /\ resetAsked'[u]
         /\ callback'[u] = IF u = "ble" THEN "retries" ELSE "session"
         /\ UNCHANGED <<up, generation, retryReset, live>>
      \/ /\ u = "ble" /\ callback[u] = "retries" /\ retryReset' /\ callback'[u] = "session"
         /\ UNCHANGED <<up, generation, resetAsked, live>>
      \/ /\ callback[u] = "session" /\ ~live'[u] /\ callback'[u] = "idle"
         /\ UNCHANGED <<up, generation, resetAsked, retryReset>>
  BY <1>0 DEF Disconnect, BumpGeneration, AskRingReset, AskRetryReset, EndSession, TypeOK
<1>4. RingGood(u)'
  <2>1. generation'[u] = generation[u] + 1 => \A i \in 1 .. Len(ring[u]) : ~Fresh(u, i)'
    <3> SUFFICES ASSUME generation'[u] = generation[u] + 1, NEW i \in 1 .. Len(ring[u])
                 PROVE  ring[u][i].generation # generation'[u]
      BY <1>1 DEF Fresh
    <3>1. ring[u][i].generation <= generation[u]
      BY <1>0 DEF Numbered
    <3>2. ring[u][i].generation \in Nat /\ generation[u] \in Nat
      BY <1>0, Facts
    <3>3. QED
      BY <3>1, <3>2
  <2>2. DownRing(u)'
    BY <1>0, <1>1, <1>3, <2>1 DEF RingGood, DownRing, Fresh
  <2>3. NewRing(u)'
    BY <1>0, <1>1, <1>3, <2>1 DEF NewRing
  <2>4. OwnRing(u)'
    BY <1>0, <1>1, <1>3, <2>1 DEF RingGood, OwnRing, Own, Fresh
  <2>5. CleanRing(u)'
    BY <1>0, <1>1, <1>3 DEF RingGood, CleanRing, Fresh
  <2>6. SafeRing(u)'
    BY <1>0, <1>1, <1>3 DEF RingGood, SafeRing
  <2>7. QED
    BY <2>2, <2>3, <2>4, <2>5, <2>6 DEF RingGood
<1>5. SendSafe'
  <2>1. CASE on = u
    BY <1>0, <1>1, <1>3, <2>1 DEF Generations, SendSafe, Sending, Own
  <2>2. CASE on # u
    BY <1>0, <1>1, <2>2 DEF Generations, SendSafe, Sending, Own
  <2>3. QED
    BY <2>1, <2>2
<1>6. at' = "drain_write" => Own(on, ring[on][1].msg)'
  BY <1>0, <1>1 DEF Generations, Own
<1>7. Generations'
  BY <1>2, <1>4, <1>5, <1>6 DEF Generations, RingGood
<1>8. LiveLinks'
  BY <1>0, <1>1, <1>3 DEF LiveLinks
<1>9. RetrySafe'
  <2>1. CASE u = "ble"
    <3> SUFFICES ASSUME NEW i \in 1 .. Len(retries), Old(i)'
                 PROVE  /\ \/ retryReset'
                           \/ up'["ble"] /\ callback'["ble"] \in {"generation", "ring", "retries"}
                        /\ live'["ble"] => ~Retrying'
      BY <1>1 DEF RetrySafe
    <3>1. /\ retryReset \/ (up["ble"] /\ callback["ble"] \in {"generation", "ring", "retries"})
          /\ live["ble"] => ~Retrying
      <4>1. Old(i)
        BY <1>1 DEF Old
      <4>2. QED
        BY <1>0, <4>1 DEF RetrySafe
    <3>2. Retrying' <=> Retrying
      BY <1>1 DEF Retrying, Sending
    <3>3. live'["ble"] => live["ble"]
      BY <1>3, <2>1
    <3>4. retryReset' \/ (up'["ble"] /\ callback'["ble"] \in {"generation", "ring", "retries"})
      BY <1>3, <2>1, <3>1
    <3>5. QED
      BY <3>1, <3>2, <3>3, <3>4
  <2>2. CASE u # "ble"
    <3>1. /\ up'["ble"] = up["ble"] /\ callback'["ble"] = callback["ble"]
          /\ live'["ble"] = live["ble"] /\ retryReset' = retryReset
      BY <1>0, <1>1, <2>2
    <3>2. QED
      BY <1>0, <1>1, <3>1 DEF RetrySafe, Old, Retrying, Sending
  <2>3. QED
    BY <2>1, <2>2
<1>10. QED
  BY <1>7, <1>8, <1>9

LEMMA LinkGood ==
  ASSUME Typed, Sound, LinkStep
  PROVE  Sound'
<1> USE DEF history
<1>0. /\ TypeOK /\ Numbered /\ LiveLinks /\ Generations /\ RetrySafe
      /\ \A t \in Transports : RingGood(t)
  BY DEF Typed, Sound, Generations, RingGood
<1>1. ASSUME NEW t \in Transports, Connect(t) PROVE Sound'
  BY <1>1, ConnectGood DEF Sound
<1>2. ASSUME NEW t \in Transports,
             Disconnect(t) \/ BumpGeneration(t) \/ AskRingReset(t) \/ EndSession(t)
      PROVE  Sound'
  BY <1>2, CallbackGood DEF Sound
<1>3. CASE AskRetryReset
  BY <1>3, CallbackGood, TransportFacts DEF Sound
<1>4. CASE HostPolls \/ \E t \in Transports : Handshake(t) \/ SessionIdle(t)
  <2>1. /\ UNCHANGED <<up, callback, resetAsked, retryReset, generation, session>>
        /\ UNCHANGED <<ring, retries, at, on, job, issued, retried>>
    BY <1>4 DEF HostPolls, Handshake, SessionIdle
  <2>2. ASSUME NEW t \in Transports PROVE RingGood(t)'
    <3>1. Still(t)
      BY <2>1 DEF Still, Inside
    <3>2. QED
      BY <1>0, <3>1, StillGood
  <2>3. Generations'
    BY <1>0, <2>1, <2>2 DEF Generations, RingGood, SendSafe, Sending, Own
  <2>4. /\ LiveLinks'
        /\ live'["ble"] => live["ble"] \/ at = "work"
    <3>1. CASE HostPolls
      BY <1>0, <3>1 DEF HostPolls, LiveLinks
    <3>2. ASSUME NEW t \in Transports, Handshake(t)
          PROVE  LiveLinks' /\ (live'["ble"] => live["ble"] \/ at = "work")
      BY <1>0, <3>2 DEF Handshake, LiveLinks, TypeOK
    <3>3. ASSUME NEW t \in Transports, SessionIdle(t)
          PROVE  LiveLinks' /\ (live'["ble"] => live["ble"] \/ at = "work")
      BY <1>0, <3>3, TransportFacts DEF SessionIdle, LiveLinks, TypeOK
    <3>4. QED
      BY <1>4, <3>1, <3>2, <3>3
  <2>5. RetrySafe'
    BY <1>0, <2>1, <2>4 DEF RetrySafe, Old, Retrying, Sending
  <2>6. QED
    BY <2>3, <2>4, <2>5 DEF Sound
<1>5. QED
  BY <1>1, <1>2, <1>3, <1>4 DEF LinkStep, Callbacks, Callback

\* What the main task never touches.
LinkKept == UNCHANGED <<up, callback, generation, session, live>>

\* The retries stay safe while none gets old and the main task does not come
\* nearer to sending one.
LEMMA RetriesGood ==
  ASSUME RetrySafe, LinkKept, retryReset' = retryReset, Retrying' => Retrying,
         \A i \in 1 .. Len(retries') : Old(i)' => \E j \in 1 .. Len(retries) : Old(j)
  PROVE  RetrySafe'
<1> SUFFICES ASSUME NEW i \in 1 .. Len(retries'), Old(i)'
             PROVE  /\ \/ retryReset'
                       \/ up'["ble"] /\ callback'["ble"] \in {"generation", "ring", "retries"}
                    /\ live'["ble"] => ~Retrying'
  BY DEF RetrySafe
<1>1. PICK j \in 1 .. Len(retries) : Old(j)
  OBVIOUS
<1>2. QED
  BY <1>1 DEF RetrySafe, LinkKept

LEMMA OldKept ==
  ASSUME Numbered, RetriesFrom, LinkKept, \A m \in retried : issued'[m] = issued[m]
  PROVE  \A i \in 1 .. Len(retries') : Old(i)' => \E j \in 1 .. Len(retries) : Old(j)
  BY DEF RetriesFrom, Old, LinkKept, Numbered

\* What the reset of the retries leaves is of the connection, or that is over.
LEMMA RetryResetGood ==
  ASSUME TypeOK, LiveLinks, RetrySafe, RetryReset, LinkKept, issued' = issued
  PROVE  RetrySafe'
<1> SUFFICES ASSUME NEW i \in 1 .. Len(retries'), Old(i)'
             PROVE  /\ up["ble"] /\ callback["ble"] \in {"generation", "ring", "retries"}
                    /\ ~live["ble"]
  BY DEF RetrySafe, LinkKept
<1>1. ~retryReset /\ retries' = retries
  BY RetryResetFacts, NoneIn
<1>2. Old(i)
  BY <1>1 DEF Old, LinkKept
<1>3. up["ble"] /\ callback["ble"] \in {"generation", "ring", "retries"}
  BY <1>1, <1>2 DEF RetrySafe
<1>4. QED
  BY <1>3, TransportFacts DEF LiveLinks

\* The reset of a ring, at the start of a call about it.
LEMMA ResetGood ==
  ASSUME TypeOK, RingReset, LinkKept, NEW t \in Transports, t = on, RingGood(t),
         UNCHANGED <<issued, retried>>, at' # "send_stamp", at # "send_stamp"
  PROVE  RingGood(t)'
<1>1. CASE resetAsked[t]
  BY <1>1, ResetFacts, EmptyGood
<1>2. CASE ~resetAsked[t]
  <2>1. ring' = ring /\ ~resetAsked'[t]
    BY <1>2, ResetFacts
  <2>2. DownRing(t)' /\ NewRing(t)'
    BY <1>2, <2>1 DEF RingGood, DownRing, NewRing, Fresh, LinkKept
  <2>3. OwnRing(t)' /\ CleanRing(t)' /\ SafeRing(t)'
    BY <1>2, <2>1 DEF RingGood, OwnRing, CleanRing, SafeRing, Fresh, Own, LinkKept
  <2>4. QED
    BY <2>2, <2>3 DEF RingGood
<1>3. QED
  BY <1>1, <1>2

LEMMA SoundFrom ==
  ASSUME LiveLinks, LinkKept, \A t \in Transports : RingGood(t)', SendSafe', RetrySafe',
         at' = "drain_write" => Own(on, ring[on][1].msg)'
  PROVE  Sound'
<1>1. LiveLinks'
  BY DEF LiveLinks, LinkKept
<1>2. QED
  BY <1>1 DEF Sound, Generations, RingGood

LEMMA FirstOne ==
  ASSUME NEW S, NEW q \in Seq(S), q # <<>>
  PROVE  /\ Len(q) \in Nat /\ Len(q) > 0 /\ 1 \in 1 .. Len(q)
         /\ Head(q) = q[1] /\ q[1] \in S
<1>1. Len(q) \in Nat /\ Len(q) > 0
  OBVIOUS
<1>2. 1 \in 1 .. Len(q)
  BY <1>1
<1>3. QED
  BY <1>1, <1>2

\* The main task looks at the head of the ring it drains.
LEMMA HeadFacts ==
  ASSUME Typed, at \in {"drain_compare", "drain_write", "drain_pop"}
  PROVE  /\ ring[on] \in Seq(Reports) /\ ring[on] # <<>>
         /\ Len(ring[on]) \in Nat /\ Len(ring[on]) > 0 /\ 1 \in 1 .. Len(ring[on])
         /\ Head(ring[on]) = ring[on][1] /\ ring[on][1] \in Reports
         /\ SameGeneration(on) <=> Fresh(on, 1)
<1>1. ring[on] \in Seq(Reports) /\ ring[on] # <<>>
  BY DEF Typed, TypeOK, Placed
<1>q. PICK q \in Seq(Reports) : q = ring[on]
  BY <1>1
<1>2. /\ Len(q) \in Nat /\ Len(q) > 0 /\ 1 \in 1 .. Len(q)
      /\ Head(q) = q[1] /\ q[1] \in Reports
  BY <1>1, <1>q, FirstOne
<1>3. SameGeneration(on) <=> Fresh(on, 1)
  BY <1>2, <1>q DEF SameGeneration, Fresh
<1>4. QED
  BY <1>1, <1>2, <1>3, <1>q

LEMMA DrainGood ==
  ASSUME Typed, Sound, DrainStep
  PROVE  Sound'
<1> USE DEF shared, history
<1>0. /\ TypeOK /\ Numbered /\ Placed /\ LiveLinks /\ Generations /\ RetrySafe
      /\ \A t \in Transports : RingGood(t)
      /\ on \in Transports /\ ring \in [Transports -> Seq(Reports)] /\ "ble" \in Transports
      /\ ring[on] \in Seq(Reports)
  BY TransportFacts DEF Typed, Sound, Generations, RingGood, TypeOK
<1>h. PICK h \in Transports : h = on
  BY <1>0
<1> USE <1>h
<1>1. /\ LinkKept /\ UNCHANGED <<job, issued, retried, cut>>
      /\ ~Sending' /\ at' # "send_stamp"
      /\ \A m \in retried : issued'[m] = issued[m]
  BY <1>0 DEF DrainStep, DrainReset, DrainRetryReset, DrainNothing, DrainCheck, DrainCompare,
         DrainWrite, DrainFails, DrainPop, AfterDrain, Sending, LinkKept
<1>2. /\ \A t \in Transports : t # on => ring'[t] = ring[t] /\ resetAsked'[t] = resetAsked[t]
      /\ \A t \in Transports : Inside(t)' => on = t
  <2>1. CASE DrainReset
    BY <1>0, <2>1, ResetFacts DEF DrainReset, Inside
  <2>2. CASE DrainRetryReset \/ DrainNothing \/ DrainCheck \/ DrainFails \/ DrainWrite
    BY <1>0, <2>2 DEF DrainRetryReset, DrainNothing, DrainCheck, DrainFails, DrainWrite, AfterDrain, Inside
  <2>3. CASE DrainCompare
    BY <1>0, <2>3 DEF DrainCompare, AfterDrain, Inside
  <2>4. CASE DrainPop
    BY <1>0, <2>4 DEF DrainPop, AfterDrain, Inside, TypeOK
  <2>5. QED
    BY <2>1, <2>2, <2>3, <2>4 DEF DrainStep
<1>3. ASSUME NEW t \in Transports, t # on PROVE RingGood(t)'
  <2>1. Still(t)
    BY <1>1, <1>2, <1>3 DEF Still, LinkKept
  <2>2. QED
    BY <1>0, <2>1, StillGood
<1>4. SendSafe'
  BY <1>1 DEF SendSafe
<1>5. ASSUME RingGood(h)', RetrySafe', at' = "drain_write" => Own(on, ring[on][1].msg)'
      PROVE  Sound'
  <2>1. \A t \in Transports : RingGood(t)'
    BY <1>3, <1>5
  <2>2. QED
    BY <1>0, <1>1, <1>4, <1>5, <2>1, SoundFrom
<1>6. ASSUME ring'[h] = ring[h], resetAsked'[h] = resetAsked[h], Inside(h)' => Inside(h)
      PROVE  RingGood(h)'
  <2>1. Still(h)
    BY <1>1, <1>6 DEF Still, LinkKept
  <2>2. QED
    BY <1>0, <2>1, StillGood
<1>7. ASSUME retries' = retries, retryReset' = retryReset, Retrying' => Retrying
      PROVE  RetrySafe'
  BY <1>0, <1>1, <1>7, RetriesSame, OldKept, RetriesGood
<1>8. CASE DrainReset
  <2>1. RingGood(h)'
    BY <1>0, <1>1, <1>8, ResetGood DEF DrainReset
  <2>2. ~Retrying'
    BY <1>1, <1>8 DEF DrainReset, Retrying, Placed
  <2>3. RetrySafe'
    BY <1>7, <1>8, <2>2 DEF DrainReset
  <2>4. QED
    BY <1>5, <1>8, <2>1, <2>3 DEF DrainReset
<1>9. CASE DrainRetryReset
  <2>1. RingGood(h)'
    BY <1>6, <1>8, <1>9 DEF DrainRetryReset, Inside
  <2>2. RetrySafe'
    BY <1>0, <1>1, <1>9, RetryResetGood DEF DrainRetryReset
  <2>3. QED
    BY <1>5, <1>9, <2>1, <2>2 DEF DrainRetryReset
<1>10. CASE DrainNothing \/ DrainCheck \/ DrainFails
  <2>1. Inside(h)' => Inside(h)
    BY <1>10 DEF DrainNothing, DrainCheck, DrainFails, AfterDrain, Inside
  <2>2. RingGood(h)'
    BY <1>6, <1>10, <2>1 DEF DrainNothing, DrainCheck, DrainFails
  <2>3. Retrying' => Retrying
    BY <1>0, <1>1, <1>10 DEF DrainNothing, DrainCheck, DrainFails, AfterDrain, Retrying, Transports
  <2>4. RetrySafe'
    BY <1>7, <1>10, <2>3 DEF DrainNothing, DrainCheck, DrainFails
  <2>5. QED
    BY <1>5, <1>10, <2>2, <2>4 DEF DrainNothing, DrainCheck, DrainFails, AfterDrain
<1>11. CASE DrainCompare
  <2>1. Retrying' => Retrying
    BY <1>0, <1>1, <1>11 DEF DrainCompare, AfterDrain, Retrying, Transports
  <2>2. RetrySafe'
    BY <1>7, <1>11, <2>1 DEF DrainCompare
  <2>3. CASE SameGeneration(on)
    <3>1. RingGood(h)'
      BY <1>6, <1>11, <2>3 DEF DrainCompare, Inside
    <3>2. 1 \in 1 .. Len(ring[on]) /\ Fresh(on, 1)
      BY <1>11, <2>3, HeadFacts DEF DrainCompare
    <3>3. Inside(on)
      BY <1>11 DEF DrainCompare, Inside
    <3>4. Own(on, ring[on][1].msg)
      BY <1>0, <3>2, <3>3 DEF RingGood, NewRing, OwnRing
    <3>5. Own(on, ring[on][1].msg)'
      BY <1>1, <1>11, <2>3, <3>4 DEF DrainCompare, Own, LinkKept
    <3>6. QED
      BY <1>5, <2>2, <3>1, <3>5
  <2>4. CASE ~SameGeneration(on)
    <3>1. ring'[on] = <<>>
      BY <1>0, <1>11, <2>4 DEF DrainCompare
    <3>2. RingGood(h)'
      BY <1>0, <1>1, <3>1, EmptyGood
    <3>3. QED
      BY <1>5, <1>11, <2>2, <2>4, <3>2 DEF DrainCompare, AfterDrain
  <2>5. QED
    BY <2>3, <2>4
<1>12. CASE DrainWrite
  <2>1. RingGood(h)'
    BY <1>6, <1>12 DEF DrainWrite, Inside
  <2>2. RetrySafe'
    BY <1>1, <1>7, <1>12 DEF DrainWrite, Retrying
  <2>3. QED
    BY <1>5, <1>12, <2>1, <2>2 DEF DrainWrite
<1>13. CASE DrainPop
  <2>1. Retrying' => Retrying
    BY <1>0, <1>1, <1>13 DEF DrainPop, AfterDrain, Retrying, Transports
  <2>2. RetrySafe'
    BY <1>7, <1>13, <2>1 DEF DrainPop
  <2>3. ring[on] # <<>> /\ 1 \in 1 .. Len(ring[on]) /\ Head(ring[on]) = ring[on][1]
    BY <1>13, HeadFacts DEF DrainPop
  <2>4. ~Inside(h)'
    BY <1>0, <1>13, AfterDrainFacts DEF DrainPop, Inside
  <2>5. CASE SameGeneration(on)
    <3>1. ring'[on] = Tail(ring[on]) /\ resetAsked' = resetAsked
      BY <1>0, <1>13, <2>5 DEF DrainPop, Popped
    <3>2. \A i \in 1 .. Len(ring'[on]) : i + 1 \in 1 .. Len(ring[on]) /\ ring'[on][i] = ring[on][i + 1]
      <4>1. PICK r \in Seq(Reports) : r = Tail(ring[on])
        BY <1>0, <2>3, Shorter
      <4>2. /\ Len(r) = Len(ring[on]) - 1 /\ Len(ring[on]) \in Nat
            /\ \A i \in 1 .. Len(r) : r[i] = ring[on][i + 1]
        BY <1>0, <2>3, <4>1, Shorter, Elements
      <4>3. ring'[on] = r
        BY <3>1, <4>1
      <4>4. QED
        BY <4>2, <4>3
    <3>3. Still(h)
      BY <1>1, <2>4, <3>1, <3>2 DEF Still, LinkKept
    <3>4. RingGood(h)'
      BY <1>0, <3>3, StillGood
    <3>5. QED
      BY <1>5, <1>13, <2>2, <3>4 DEF DrainPop, AfterDrain
  <2>6. CASE ~SameGeneration(on)
    <3>1. ring' = ring /\ resetAsked'[h]
      BY <1>0, <1>13, <2>6 DEF DrainPop, TypeOK
    <3>2. ~Fresh(on, 1)
      BY <1>13, <2>6, HeadFacts DEF DrainPop
    <3>3. DownRing(h)' /\ NewRing(h)' /\ CleanRing(h)'
      BY <2>4, <3>1 DEF DownRing, NewRing, CleanRing
    <3>4. OwnRing(h)'
      BY <1>0, <1>1, <3>1 DEF RingGood, OwnRing, Fresh, Own, LinkKept
    <3>5. ~CleanRing(on) \/ ~(up[on] /\ callback[on] = "idle" /\ ~resetAsked[on])
      BY <2>3, <3>2 DEF CleanRing
    <3>6. SafeRing(h)'
      BY <1>0, <1>1, <3>1, <3>5 DEF RingGood, SafeRing, LinkKept
    <3>7. RingGood(h)'
      BY <3>3, <3>4, <3>6 DEF RingGood
    <3>8. QED
      BY <1>5, <1>13, <2>2, <3>7 DEF DrainPop, AfterDrain
  <2>7. QED
    BY <2>5, <2>6
<1>14. QED
  BY <1>8, <1>9, <1>10, <1>11, <1>12, <1>13 DEF DrainStep

LEMMA SendGood ==
  ASSUME Typed, Sound, SendReset \/ SendRetryReset \/ SendCheck
  PROVE  Sound'
<1> USE DEF shared, history
<1>0. /\ TypeOK /\ Numbered /\ Placed /\ LiveLinks /\ Generations /\ RetrySafe
      /\ \A t \in Transports : RingGood(t)
      /\ on \in Transports
  BY DEF Typed, Sound, Generations, RingGood, TypeOK
<1>h. PICK h \in Transports : h = on
  BY <1>0
<1> USE <1>h
<1>1. /\ LinkKept /\ UNCHANGED <<on, job, issued, retried, cut>>
      /\ Sending /\ Sending' /\ at' # "drain_write"
      /\ \A m \in retried : issued'[m] = issued[m]
  BY DEF SendReset, SendRetryReset, SendCheck, Sending, LinkKept
<1>2. /\ Own(h, job.msg) /\ (up[h] => callback[h] = "idle")
      /\ up[h] /\ (at # "send" \/ job.part > 1) => ~resetAsked[h]
  BY <1>0, <1>1 DEF Generations, SendSafe
<1>3. Own(on, job.msg)' /\ (up'[h] => callback'[h] = "idle")
  BY <1>1, <1>2 DEF Own, LinkKept
<1>4. ASSUME NEW t \in Transports, t # h, ring'[t] = ring[t], resetAsked'[t] = resetAsked[t]
      PROVE  RingGood(t)'
  <2>1. Still(t)
    BY <1>1, <1>4 DEF Still, Inside, LinkKept
  <2>2. QED
    BY <1>0, <2>1, StillGood
<1>5. CASE SendReset
  <2>1. /\ RingReset /\ at = "send" /\ at' # "send_stamp"
        /\ retries' = retries /\ retryReset' = retryReset
    BY <1>5 DEF SendReset
  <2>2. RingGood(h)'
    BY <1>0, <1>1, <2>1, ResetGood
  <2>3. \A t \in Transports : RingGood(t)'
    BY <1>0, <1>4, <2>1, <2>2, ResetFacts
  <2>4. ~resetAsked'[h]
    BY <1>0, <2>1, ResetFacts
  <2>5. SendSafe'
    BY <1>1, <1>3, <2>4 DEF SendSafe
  <2>6. Retrying' => Retrying
    BY <1>1, <1>5 DEF SendReset, Retrying
  <2>7. RetrySafe'
    BY <1>0, <1>1, <2>1, <2>6, RetriesSame, OldKept, RetriesGood
  <2>8. QED
    BY <1>0, <1>1, <2>3, <2>5, <2>7, SoundFrom
<1>6. CASE SendRetryReset
  <2>1. ring' = ring /\ resetAsked' = resetAsked /\ at = "send_retries" /\ at' = "send_check"
    BY <1>6 DEF SendRetryReset
  <2>2. Still(h)
    BY <1>1, <2>1 DEF Still, LinkKept, Inside
  <2>3. \A t \in Transports : RingGood(t)'
    BY <1>0, <1>4, <2>1, <2>2, StillGood
  <2>4. SendSafe'
    BY <1>1, <1>2, <1>3, <2>1 DEF SendSafe, LinkKept
  <2>5. RetrySafe'
    BY <1>0, <1>1, <1>6, RetryResetGood DEF SendRetryReset
  <2>6. QED
    BY <1>0, <1>1, <2>3, <2>4, <2>5, SoundFrom
<1>7. CASE SendCheck
  <2>1. /\ UNCHANGED <<ring, retries, retryReset, resetAsked>>
        /\ at = "send_check" /\ at' = "send_stamp" /\ up[h]
    BY <1>7 DEF SendCheck, Connected
  <2>2. RingGood(h)'
    <3>1. DownRing(h)' /\ NewRing(h)'
      BY <1>0, <1>1, <2>1 DEF RingGood, DownRing, NewRing, Fresh, Inside, LinkKept
    <3>2. OwnRing(h)'
      BY <1>0, <1>1, <2>1 DEF RingGood, OwnRing, Fresh, Own, LinkKept
    <3>3. CleanRing(h)'
      BY <1>0, <1>1, <2>1 DEF RingGood, CleanRing, Fresh, LinkKept
    <3>4. SafeRing(h)'
      BY <1>0, <1>1, <2>1 DEF RingGood, SafeRing, LinkKept
    <3>5. QED
      BY <3>1, <3>2, <3>3, <3>4 DEF RingGood
  <2>3. \A t \in Transports : RingGood(t)'
    BY <1>4, <2>1, <2>2
  <2>4. SendSafe'
    BY <1>1, <1>2, <1>3, <2>1 DEF SendSafe, LinkKept
  <2>5. Retrying' => Retrying
    BY <1>1, <2>1 DEF Retrying
  <2>6. RetrySafe'
    BY <1>0, <1>1, <2>1, <2>5, RetriesSame, OldKept, RetriesGood
  <2>7. QED
    BY <1>0, <1>1, <2>3, <2>4, <2>6, SoundFrom
<1>8. QED
  BY <1>5, <1>6, <1>7

LEMMA StampGood ==
  ASSUME Typed, Sound, SendStamp
  PROVE  Sound'
<1> USE DEF shared, history
<1>0. /\ TypeOK /\ Numbered /\ Placed /\ LiveLinks /\ Generations /\ RetrySafe
      /\ \A t \in Transports : RingGood(t)
      /\ on \in Transports
  BY DEF Typed, Sound, Generations, RingGood, TypeOK
<1>h. PICK h \in Transports : h = on
  BY <1>0
<1> USE <1>h
<1>1. /\ LinkKept /\ UNCHANGED <<on, issued, retried, cut, resetAsked, retryReset>>
      /\ Sending /\ at = "send_stamp" /\ at' \in {"send", "retry", "work"}
      /\ at' = "retry" => job.retry
      /\ \A m \in retried : issued'[m] = issued[m]
  BY DEF SendStamp, Sending, LinkKept
<1>2. /\ Own(h, job.msg) /\ (up[h] => callback[h] = "idle" /\ ~resetAsked[h])
  BY <1>0, <1>1 DEF Generations, SendSafe
<1>3. ASSUME Sending'
      PROVE  job'.msg = job.msg /\ job'.retry = job.retry
  <2>1. at' = "send"
    BY <1>1, <1>3 DEF Sending
  <2>2. job' = [job EXCEPT !.part = @ + 1]
    BY <2>1 DEF SendStamp
  <2>3. job \in [msg : Nat, part : Nat, retry : BOOLEAN]
    BY <1>0 DEF TypeOK
  <2>4. QED
    BY <2>2, <2>3
<1>4. /\ \A t \in Transports : t # h => ring'[t] = ring[t]
      /\ \A i \in 1 .. Len(ring'[h]) :
           \/ i \in 1 .. Len(ring[h]) /\ ring'[h][i] = ring[h][i]
           \/ ring'[h][i].generation = generation[h] /\ ring'[h][i].msg = job.msg
  BY StampFacts DEF Stamped
<1>5. ASSUME NEW t \in Transports, t # h PROVE RingGood(t)'
  <2>1. Still(t)
    BY <1>1, <1>4, <1>5 DEF Still, Inside, LinkKept
  <2>2. QED
    BY <1>0, <2>1, StillGood
<1>6. RingGood(h)'
  <2>1. DownRing(h)'
    BY <1>0, <1>1 DEF RingGood, DownRing, LinkKept
  <2>2. NewRing(h)'
    BY <1>1, <1>2 DEF NewRing, LinkKept
  <2>3. OwnRing(h)'
    <3> SUFFICES ASSUME ~(up'[h] /\ callback'[h] = "generation"), NEW i \in 1 .. Len(ring'[h]),
                        Fresh(h, i)'
                 PROVE  Own(h, ring[h][i].msg)'
      BY DEF OwnRing
    <3>1. CASE i \in 1 .. Len(ring[h]) /\ ring'[h][i] = ring[h][i]
      <4>1. Own(h, ring[h][i].msg)
        BY <1>0, <1>1, <3>1 DEF RingGood, OwnRing, Fresh, LinkKept
      <4>2. QED
        BY <1>1, <3>1, <4>1 DEF Own, LinkKept
    <3>2. CASE ring'[h][i].msg = job.msg
      BY <1>1, <1>2, <3>2 DEF Own, LinkKept
    <3>3. QED
      BY <1>4, <3>1, <3>2
  <2>4. CleanRing(h)'
    <3> SUFFICES ASSUME up[h], callback[h] \in {"retries", "session", "idle"}, ~resetAsked[h],
                        NEW i \in 1 .. Len(ring'[h])
                 PROVE  ring'[h][i].generation = generation[h]
      BY <1>1 DEF CleanRing, Fresh, LinkKept
    <3>1. \A j \in 1 .. Len(ring[h]) : ring[h][j].generation = generation[h]
      BY <1>0 DEF RingGood, CleanRing, Fresh
    <3>2. QED
      BY <1>4, <3>1
  <2>5. SafeRing(h)'
    BY <1>1, <1>2 DEF SafeRing, LinkKept
  <2>6. QED
    BY <2>1, <2>2, <2>3, <2>4, <2>5 DEF RingGood
<1>7. SendSafe'
  BY <1>1, <1>2, <1>3 DEF SendSafe, Own, LinkKept
<1>8. Retrying' => Retrying
  BY <1>1, <1>3 DEF Retrying, Sending
<1>9. RetriesFrom
  <2>1. retries' = retries \/ (retries # <<>> /\ retries' = Tail(retries))
    BY DEF SendStamp, RetriesAfterSuccess
  <2>2. QED
    BY <1>0, <2>1, RetriesTail
<1>10. RetrySafe'
  BY <1>0, <1>1, <1>8, <1>9, OldKept, RetriesGood
<1>11. at' # "drain_write" /\ \A t \in Transports : RingGood(t)'
  BY <1>1, <1>5, <1>6
<1>12. QED
  BY <1>0, <1>1, <1>7, <1>10, <1>11, SoundFrom

\* Every other step of the main task leaves the rings and their links alone.
LEMMA RingsStill ==
  ASSUME Typed, Sound, LinkKept, UNCHANGED <<ring, resetAsked>>, retried \subseteq retried',
         \A m \in 1 .. Len(issued) : issued'[m] = issued[m],
         \A t \in Transports : ~Inside(t)', at' # "send_stamp"
  PROVE  \A t \in Transports : RingGood(t)'
<1> SUFFICES ASSUME NEW t \in Transports PROVE RingGood(t)'
  OBVIOUS
<1>1. RingGood(t) /\ Numbered
  BY DEF Typed, Sound, Generations, RingGood
<1>2. \A i \in 1 .. Len(ring[t]) : issued'[ring[t][i].msg] = issued[ring[t][i].msg]
  BY <1>1 DEF Numbered
<1>3. Still(t)
  BY <1>2 DEF Still, LinkKept
<1>4. QED
  BY <1>1, <1>3, StillGood

LEMMA RefusedGood ==
  ASSUME Typed, Sound, SendRefused
  PROVE  Sound'
<1> USE DEF shared, history
<1>0. /\ TypeOK /\ Numbered /\ Placed /\ LiveLinks /\ Generations /\ RetrySafe
      /\ on \in Transports /\ retries \in Seq(Retry)
  BY DEF Typed, Sound, TypeOK, Retry
<1> DEFINE r == [msg |-> job.msg, target |-> on, old |-> FALSE]
<1>1. /\ LinkKept /\ UNCHANGED <<on, issued, ring, resetAsked, retryReset>>
      /\ Sending /\ at' = "work"
      /\ \/ UNCHANGED <<retries, retried>>
         \/ retries' = Append(retries, r) /\ retried' = retried \cup {job.msg}
  BY DEF SendRefused, Sending, LinkKept, GiveUp, KeyRefused, RetryRefused
<1>2. /\ ~Sending' /\ ~Retrying' /\ \A t \in Transports : ~Inside(t)'
      /\ retried \subseteq retried'
  <2>1. at' = "work"
    BY <1>1
  <2>2. ~Sending'
    BY <2>1 DEF Sending
  <2>3. ~Retrying' /\ \A t \in Transports : ~Inside(t)'
    BY <2>1, <2>2 DEF Retrying, Inside
  <2>4. QED
    BY <1>1, <2>2, <2>3
<1>3. \A t \in Transports : RingGood(t)'
  BY <1>1, <1>2, RingsStill
<1>4. \A i \in 1 .. Len(retries') : Old(i)' => \E j \in 1 .. Len(retries) : Old(j)
  <2>1. CASE UNCHANGED <<retries, retried>>
    BY <1>1, <2>1 DEF Old, LinkKept
  <2>2. CASE retries' = Append(retries, r)
    <3>1. r \in Retry /\ r.msg = job.msg /\ r.target = on
      BY <1>0, Facts, RetryType
    <3>2. PICK n \in Nat : n = Len(retries) + 1
      BY <1>0, Facts
    <3>3. /\ Len(retries') = n /\ retries'[n] = r
          /\ \A i \in 1 .. Len(retries) : retries'[i] = retries[i]
          /\ Len(retries) \in Nat
      BY <1>0, <2>2, <3>1, <3>2, Added, Facts
    <3>4. Own(on, job.msg)
      BY <1>0, <1>1 DEF Generations, SendSafe
    <3>5. ~Old(n)'
      <4> SUFFICES ASSUME retries'[n].target = "ble"
                   PROVE  issued'[retries'[n].msg].session = session'["ble"]
        BY DEF Old
      <4>1. on = "ble" /\ retries'[n].msg = job.msg
        BY <3>1, <3>3
      <4>2. QED
        BY <1>1, <3>4, <4>1, TransportFacts DEF Own, LinkKept
    <3>6. \A i \in 1 .. Len(retries') : i = n \/ i \in 1 .. Len(retries)
      BY <3>2, <3>3
    <3>7. \A i \in 1 .. Len(retries) : Old(i)' => Old(i)
      BY <1>1, <3>3 DEF Old, LinkKept
    <3>8. QED
      BY <3>5, <3>6, <3>7
  <2>3. QED
    BY <1>1, <2>1, <2>2
<1>5. RetrySafe'
  BY <1>0, <1>1, <1>2, <1>4, RetriesGood
<1>6. QED
  BY <1>0, <1>1, <1>2, <1>3, <1>5, SoundFrom DEF SendSafe

LEMMA RetryGood ==
  ASSUME Typed, Sound, RetryStep \/ NextTurn
  PROVE  Sound'
<1> USE DEF shared, history
<1>0. /\ TypeOK /\ Numbered /\ Placed /\ LiveLinks /\ Generations /\ RetrySafe
      /\ on \in Transports /\ retries \in Seq(Retry)
  BY DEF Typed, Sound, TypeOK, Retry
<1>1. /\ LinkKept /\ UNCHANGED <<issued, retried, ring, resetAsked, retryReset>>
      /\ at' \in {"retry", "work", "send", "drain"}
  BY DEF RetryStep, RetryNothing, RetryExpires, RetrySend, NextTurn, LinkKept
<1>2. /\ \A t \in Transports : ~Inside(t)'
      /\ at' # "send_stamp" /\ at' # "drain_write"
      /\ \A m \in retried : issued'[m] = issued[m]
  BY <1>1 DEF Inside
<1>3. \A t \in Transports : RingGood(t)'
  BY <1>1, <1>2, RingsStill
<1>4. Retrying' => Retrying
  <2>1. CASE RetryStep
    BY <2>1 DEF RetryStep, RetryNothing, RetryExpires, RetrySend, Retrying
  <2>2. CASE NextTurn
    BY <2>2 DEF NextTurn, Retrying, Sending
  <2>3. QED
    BY <2>1, <2>2
<1>5. RetriesFrom
  <2>1. retries' = retries \/ (retries # <<>> /\ retries' = Tail(retries))
    BY DEF RetryStep, RetryNothing, RetryExpires, RetrySend, NextTurn
  <2>2. QED
    BY <1>0, <2>1, RetriesTail
<1>6. RetrySafe'
  BY <1>0, <1>1, <1>2, <1>4, <1>5, OldKept, RetriesGood
<1>7. SendSafe'
  <2>1. CASE RetryNothing \/ RetryExpires \/ NextTurn
    <3>1. ~Sending'
      BY <2>1 DEF RetryNothing, RetryExpires, NextTurn, Sending
    <3>2. QED
      BY <3>1 DEF SendSafe
  <2>2. CASE RetrySend
    <3>1. /\ 1 \in 1 .. Len(retries) /\ Head(retries) = retries[1]
          /\ Retrying
      BY <1>0, <2>2, FirstOne DEF RetrySend, Retrying
    <3>2. PICK m : m = retries[1].msg
      OBVIOUS
    <3>3. PICK t \in Transports : t = Active
      BY <2>2, TransportFacts DEF RetrySend
    <3>4. /\ job' = [msg |-> m, part |-> 1, retry |-> TRUE] /\ on' = t /\ at' = "send"
          /\ retries[1].target = t /\ live[t] /\ t \in {"usb", "ble"}
      BY <2>2, <3>1, <3>2, <3>3, TransportFacts DEF RetrySend, Transports
    <3>5. m \in retried
      BY <1>0, <3>1, <3>2 DEF Numbered
    <3>6. Own(t, m)
      <4>1. CASE t = "usb"
        BY <3>5, <4>1 DEF Own
      <4>2. CASE t = "ble"
        <5>1. ~Old(1)
          BY <1>0, <3>1, <3>4, <4>2 DEF RetrySafe
        <5>2. QED
          BY <3>2, <3>4, <4>2, <5>1 DEF Own, Old
      <4>3. QED
        BY <3>4, <4>1, <4>2
    <3>7. Own(on, job.msg)'
      BY <1>1, <3>4, <3>6 DEF Own, LinkKept
    <3>8. up'[t] => callback'[t] = "idle"
      BY <1>0, <1>1, <3>4 DEF LiveLinks, LinkKept
    <3>9. QED
      BY <3>4, <3>7, <3>8 DEF SendSafe
  <2>3. QED
    BY <2>1, <2>2 DEF RetryStep
<1>8. QED
  BY <1>0, <1>1, <1>2, <1>3, <1>6, <1>7, SoundFrom

LEMMA AgeGood ==
  ASSUME Typed, Sound, RetriesAge
  PROVE  Sound'
<1> USE DEF shared, history
<1>0. /\ TypeOK /\ Numbered /\ Placed /\ LiveLinks /\ Generations /\ RetrySafe
      /\ \A t \in Transports : RingGood(t)
      /\ retries \in Seq(Retry)
  BY DEF Typed, Sound, Generations, RingGood, TypeOK, Retry
<1>1. /\ LinkKept
      /\ UNCHANGED <<issued, retried, ring, resetAsked, retryReset, at, on, job>>
      /\ \A m \in retried : issued'[m] = issued[m]
  BY DEF RetriesAge, LinkKept
<1>2. \A t \in Transports : RingGood(t)'
  <2> SUFFICES ASSUME NEW t \in Transports PROVE RingGood(t)'
    OBVIOUS
  <2>1. Still(t)
    BY <1>1 DEF Still, Inside, LinkKept
  <2>2. QED
    BY <1>0, <2>1, StillGood
<1>3. SendSafe' /\ (at' = "drain_write" => Own(on, ring[on][1].msg)')
  BY <1>0, <1>1 DEF Generations, SendSafe, Sending, Own, LinkKept
<1>4. RetriesFrom
  <2>1. /\ Len(retries') = Len(retries)
        /\ \A i \in 1 .. Len(retries) : /\ retries'[i].msg = retries[i].msg
                                        /\ retries'[i].target = retries[i].target
    BY <1>0, Aged DEF RetriesAge
  <2>2. QED
    BY <2>1 DEF RetriesFrom
<1>5. Retrying' => Retrying
  BY <1>1 DEF Retrying, Sending
<1>6. RetrySafe'
  BY <1>0, <1>1, <1>4, <1>5, OldKept, RetriesGood
<1>7. QED
  BY <1>0, <1>1, <1>2, <1>3, <1>6, SoundFrom

LEMMA IssueGood ==
  ASSUME Typed, Sound, NEW kind \in Kinds, NEW t \in Transports, Issue(kind, t)
  PROVE  Sound'
<1>0. /\ TypeOK /\ Numbered /\ Placed /\ LiveLinks /\ Generations /\ RetrySafe
  BY DEF Typed, Sound
<1>1. /\ LinkKept /\ UNCHANGED <<retried, ring, retries, resetAsked, retryReset>>
      /\ \A m \in 1 .. Len(issued) : issued'[m] = issued[m]
      /\ on' = t /\ at' = "send" /\ live[t]
      /\ job' = [msg |-> Len(issued'), part |-> 1, retry |-> FALSE]
      /\ issued'[Len(issued')].session = session[t]
  <2>1. /\ issued'[Len(issued')] = [kind |-> kind, session |-> session[t]]
        /\ UNCHANGED <<up, callback, generation, session, live>>
        /\ UNCHANGED <<retried, ring, retries, resetAsked, retryReset>>
        /\ \A m \in 1 .. Len(issued) : issued'[m] = issued[m]
        /\ on' = t /\ at' = "send" /\ live[t]
        /\ job' = [msg |-> Len(issued'), part |-> 1, retry |-> FALSE]
    BY <1>0, IssueFacts
  <2>2. QED
    BY <2>1 DEF LinkKept
<1>2. /\ \A u \in Transports : ~Inside(u)'
      /\ at' # "send_stamp" /\ at' # "drain_write" /\ ~Retrying'
      /\ \A m \in retried : issued'[m] = issued[m]
  BY <1>0, <1>1 DEF Inside, Retrying, Sending, Numbered
<1>3. \A u \in Transports : RingGood(u)'
  BY <1>1, <1>2, RingsStill
<1>4. RetrySafe'
  BY <1>0, <1>1, <1>2, RetriesSame, OldKept, RetriesGood
<1>5. job'.msg = Len(issued') /\ job'.part = 1
  BY <1>1
<1>6. up'[t] => callback'[t] = "idle"
  BY <1>0, <1>1 DEF LiveLinks, LinkKept
<1>7. Own(on, job.msg)'
  BY <1>1, <1>5 DEF Own, LinkKept
<1>8. SendSafe'
  BY <1>1, <1>5, <1>6, <1>7 DEF SendSafe
<1>9. QED
  BY <1>0, <1>1, <1>2, <1>3, <1>4, <1>8, SoundFrom

LEMMA SoundStep == Typed /\ Sound /\ [Next]_vars => Sound'
<1> SUFFICES ASSUME Typed, Sound, [Next]_vars PROVE Sound'
  OBVIOUS
<1>1. ASSUME UNCHANGED vars PROVE Sound'
  <2>1. LiveLinks' /\ RetrySafe'
    BY <1>1 DEF vars, Sound, LiveLinks, RetrySafe, Old, Retrying, Sending
  <2>2. /\ \A t \in Transports : DownRing(t)' /\ NewRing(t)' /\ OwnRing(t)' /\ CleanRing(t)' /\ SafeRing(t)'
        /\ SendSafe' /\ (at' = "drain_write" => Own(on, ring[on][1].msg)')
    BY <1>1 DEF vars, Sound, Generations, DownRing, NewRing, OwnRing, CleanRing, SafeRing, SendSafe,
                Sending, Inside, Fresh, Own
  <2>3. QED
    BY <2>1, <2>2 DEF Sound, Generations
<1>2. QED
  BY <1>1, NextSteps, LinkGood, DrainGood, SendGood, StampGood, RefusedGood, RetryGood, AgeGood, IssueGood

LEMMA SoundInit == Init => Sound
<1> SUFFICES ASSUME Init PROVE Sound
  OBVIOUS
<1> USE DEF Init
<1>1. LiveLinks
  BY DEF LiveLinks
<1>2. ASSUME NEW t \in Transports
      PROVE  DownRing(t) /\ NewRing(t) /\ OwnRing(t) /\ CleanRing(t) /\ SafeRing(t)
  <2>1. \A i : i \notin 1 .. Len(ring[t])
    BY NoneIn
  <2>2. DownRing(t) /\ NewRing(t)
    BY <2>1 DEF DownRing, NewRing
  <2>3. OwnRing(t) /\ CleanRing(t) /\ SafeRing(t)
    BY <2>1 DEF OwnRing, CleanRing, SafeRing
  <2>4. QED
    BY <2>2, <2>3
<1>3. SendSafe /\ RetrySafe
  BY NoneIn DEF SendSafe, Sending, RetrySafe
<1>4. QED
  BY <1>1, <1>2, <1>3 DEF Sound, Generations

-----------------------------------------------------------------------------
(* What the host has received.                                             *)

\* Everything but DrainWrite leaves what the host has, and what was said of
\* the messages, as it is.
LEMMA HistoryFacts ==
  ASSUME Typed, [Next]_vars
  PROVE  /\ \A m \in 1 .. Len(issued) : issued'[m] = issued[m]
         /\ retried \subseteq retried' /\ cut \subseteq cut'
         /\ ~DrainWrite => got' = got
<1> USE DEF shared, history
<1>0. TypeOK
  BY DEF Typed
<1>1. ASSUME NEW kind \in Kinds, NEW t \in Transports, Issue(kind, t)
      PROVE  /\ \A m \in 1 .. Len(issued) : issued'[m] = issued[m]
             /\ retried \subseteq retried' /\ cut \subseteq cut'
             /\ got' = got
  BY <1>0, <1>1, IssueFacts
<1>2. CASE LinkStep
  BY <1>0, <1>2, LinkFacts
<1>3. CASE DrainStep
  BY <1>3 DEF DrainStep, DrainReset, DrainRetryReset, DrainNothing, DrainCheck, DrainCompare,
              DrainWrite, DrainFails, DrainPop
<1>4. CASE SendReset \/ SendRetryReset \/ SendCheck \/ SendStamp
  BY <1>4 DEF SendReset, SendRetryReset, SendCheck, SendStamp
<1>5. CASE SendRefused
  BY <1>5 DEF SendRefused, KeyRefused, RetryRefused
<1>6. CASE RetryStep \/ NextTurn \/ RetriesAge
  BY <1>6 DEF RetryStep, RetryNothing, RetryExpires, RetrySend, NextTurn, RetriesAge
<1>7. CASE UNCHANGED vars
  BY <1>7 DEF vars
<1>8. QED
  BY <1>1, <1>2, <1>3, <1>4, <1>5, <1>6, <1>7, NextSteps

\* The report that is written goes behind the others.
LEMMA WriteFacts ==
  ASSUME Typed, DrainWrite
  PROVE  \E d \in Delivery :
           /\ d.msg = ring[on][1].msg /\ d.part = ring[on][1].part /\ d.session = session[on]
           /\ Len(got'[on]) = Len(got[on]) + 1 /\ got'[on][Len(got[on]) + 1] = d
           /\ \A i \in 1 .. Len(got[on]) : got'[on][i] = got[on][i]
           /\ \A t \in Transports : t # on => got'[t] = got[t]
<1>1. /\ TypeOK /\ on \in Transports /\ at = "drain_write" /\ session[on] \in Nat
      /\ got \in [Transports -> Seq(Delivery)]
  BY DEF Typed, TypeOK, DrainWrite, Delivery
<1>2. PICK r \in Reports : r = Head(ring[on]) /\ r = ring[on][1]
  BY <1>1, HeadFacts
<1>3. r.msg \in Nat /\ r.part \in 1 .. 2
  BY DEF Reports
<1>4. PICK d \in Delivery : d = [msg |-> r.msg, part |-> r.part, session |-> session[on]]
  BY <1>1, <1>3 DEF Delivery
<1>5. got' = [got EXCEPT ![on] = Append(got[on], d)]
  BY <1>2, <1>4 DEF DrainWrite
<1>6. PICK q \in Seq(Delivery) : q = Append(got[on], d)
  BY <1>1, Added
<1>7. /\ Len(q) = Len(got[on]) + 1 /\ q[Len(q)] = d
      /\ \A i \in 1 .. Len(got[on]) : q[i] = got[on][i]
  <2>1. got[on] \in Seq(Delivery)
    BY <1>1
  <2>2. QED
    BY <1>6, <2>1, Added
<1>8. got'[on] = q /\ \A t \in Transports : t # on => got'[t] = got[t]
  BY <1>1, <1>5, <1>6
<1>9. QED
  BY <1>2, <1>4, <1>7, <1>8

LEMMA NoStaleStep == Typed /\ Sound /\ NoStaleReport /\ [Next]_vars => NoStaleReport'
<1> SUFFICES ASSUME Typed, Sound, NoStaleReport, [Next]_vars,
                    NEW t \in Transports, NEW i \in 1 .. Len(got'[t])
             PROVE  \/ got'[t][i].session = issued'[got'[t][i].msg].session
                    \/ t = "usb" /\ got'[t][i].msg \in retried'
  <2>1. \A t \in Transports : DOMAIN got'[t] = 1 .. Len(got'[t])
    BY TypedStep DEF Typed, TypeOK
  <2>2. QED
    BY <2>1 DEF NoStaleReport
<1>1. ASSUME i \in 1 .. Len(got[t]), got'[t][i] = got[t][i]
      PROVE  \/ got'[t][i].session = issued'[got'[t][i].msg].session
             \/ t = "usb" /\ got'[t][i].msg \in retried'
  <2>1. got[t][i].msg \in 1 .. Len(issued) /\ DOMAIN got[t] = 1 .. Len(got[t])
    BY <1>1 DEF Typed, TypeOK, Numbered
  <2>2. \/ got[t][i].session = issued[got[t][i].msg].session
        \/ t = "usb" /\ got[t][i].msg \in retried
    BY <1>1, <2>1 DEF NoStaleReport
  <2>3. QED
    BY <1>1, <2>1, <2>2, HistoryFacts
<1>2. CASE ~DrainWrite
  BY <1>1, <1>2, HistoryFacts
<1>3. CASE DrainWrite
  <2>1. PICK d \in Delivery :
          /\ d.msg = ring[on][1].msg /\ d.part = ring[on][1].part /\ d.session = session[on]
          /\ Len(got'[on]) = Len(got[on]) + 1 /\ got'[on][Len(got[on]) + 1] = d
          /\ \A j \in 1 .. Len(got[on]) : got'[on][j] = got[on][j]
          /\ \A u \in Transports : u # on => got'[u] = got[u]
    BY <1>3, WriteFacts
  <2>2. CASE i \in 1 .. Len(got[t])
    BY <1>1, <2>1, <2>2
  <2>3. CASE i \notin 1 .. Len(got[t])
    <3>1. Len(got[on]) \in Nat
      BY Facts DEF Typed
    <3>2. t = on /\ i = Len(got[on]) + 1
      BY <2>1, <2>3, <3>1
    <3>3. got'[t][i] = d
      BY <2>1, <3>2
    <3>4. Own(on, d.msg) /\ issued' = issued /\ retried' = retried
      BY <1>3, <2>1 DEF DrainWrite, Sound, Generations
    <3>5. QED
      BY <2>1, <3>2, <3>3, <3>4 DEF Own
  <2>4. QED
    BY <2>2, <2>3
<1>4. QED
  BY <1>2, <1>3

-----------------------------------------------------------------------------
(* No report is delivered twice.                                           *)

\* A ring keeps its reports, loses the first one or loses them all.
Shortened(t) ==
  \E k \in {0, 1} :
    /\ \A i \in 1 .. Len(ring'[t]) : i + k \in 1 .. Len(ring[t]) /\ ring'[t][i] = ring[t][i + k]
    /\ on = t /\ at = "drain_pop" =>
         k = 1 \/ (on' = t /\ at' = "drain_pop") \/ ~SameGeneration(t)

LEMMA RingKept ==
  ASSUME TypeOK, NEW t \in Transports, ring'[t] = ring[t] \/ ring'[t] = <<>>,
         ~(on = t /\ at = "drain_pop") \/ (on' = t /\ at' = "drain_pop") \/ ~SameGeneration(t)
  PROVE  Shortened(t)
<1>1. Len(ring[t]) \in Nat
  BY Facts
<1>2. ASSUME NEW i \in 1 .. Len(ring'[t])
      PROVE  i \in 1 .. Len(ring[t]) /\ ring'[t][i] = ring[t][i] /\ i + 0 = i
  <2>1. ring'[t] = ring[t]
    BY NoneIn
  <2>2. QED
    BY <1>1, <2>1
<1>3. QED
  BY <1>2 DEF Shortened

LEMMA UnsentKept ==
  ASSUME got' = got, \A t \in Transports : Shortened(t), NEW m, NEW p, Unsent(m, p)
  PROVE  Unsent(m, p)'
BY DEF Unsent, Shortened

\* The retries lose the first one or all of them, or get older.
RetriesShortened ==
  \E k \in {0, 1} :
    /\ \A i \in 1 .. Len(retries') :
         i + k \in 1 .. Len(retries) /\ retries'[i].msg = retries[i + k].msg
    /\ Sending' => k = 0

LEMMA RetriesKept ==
  ASSUME TypeOK, retries' = retries \/ retries' = <<>>
  PROVE  RetriesShortened
<1>1. Len(retries) \in Nat
  BY Facts
<1>2. ASSUME NEW i \in 1 .. Len(retries')
      PROVE  i \in 1 .. Len(retries) /\ retries'[i].msg = retries[i].msg /\ i + 0 = i
  <2>1. retries' = retries
    BY NoneIn
  <2>2. QED
    BY <1>1, <2>1
<1>3. QED
  BY <1>2 DEF RetriesShortened

LEMMA Lengths ==
  ASSUME Typed'
  PROVE  /\ \A t \in Transports : Len(ring'[t]) \in Nat /\ Len(got'[t]) \in Nat
         /\ Len(retries') \in Nat
<1>1. /\ \A t \in Transports : ring'[t] \in Seq(Reports) /\ got'[t] \in Seq(Delivery)
      /\ retries' \in Seq(Retry)
  BY DEF Typed, TypeOK, Retry, Delivery
<1>2. QED
  BY <1>1, Elements

\* Rings and retries that only get shorter, and no new message.
LEMMA CalmOnce ==
  ASSUME Typed, Typed', Once, got' = got, \A t \in Transports : Shortened(t), RetriesShortened, SendKept,
         \A t \in Transports : generation[t] <= generation'[t] /\ generation'[t] \in Nat,
         at' = "drain_write" =>
           /\ on' = on /\ ring'[on] = ring[on]
           /\ at = "drain_write" \/ (at = "drain_compare" /\ SameGeneration(on))
  PROVE  Once'
<1>0. /\ AtMostOnce /\ OneRing /\ GotGone
      /\ UnsentHead /\ UnsentRetries /\ UnsentRest
      /\ OneRetry /\ RetryFirst
      /\ TypeOK /\ Numbered /\ on \in Transports
  BY DEF Once, Typed, TypeOK
<1>l. /\ \A t \in Transports : Len(ring'[t]) \in Nat /\ Len(ring[t]) \in Nat
      /\ Len(retries') \in Nat /\ Len(retries) \in Nat
  BY <1>0, Facts, Lengths
<1>1. AtMostOnce'
  BY <1>0 DEF AtMostOnce
<1>2. OneRing'
  <2> SUFFICES ASSUME NEW t \in Transports, NEW u \in Transports,
                      NEW i \in 1 .. Len(ring'[t]), NEW j \in 1 .. Len(ring'[u]),
                      SameReport(ring'[t][i], ring'[u][j])
               PROVE  t = u /\ i = j
    BY DEF OneRing
  <2>1. PICK k \in {0, 1} : \A n \in 1 .. Len(ring'[t]) :
          n + k \in 1 .. Len(ring[t]) /\ ring'[t][n] = ring[t][n + k]
    BY DEF Shortened
  <2>2. PICK l \in {0, 1} : \A n \in 1 .. Len(ring'[u]) :
          n + l \in 1 .. Len(ring[u]) /\ ring'[u][n] = ring[u][n + l]
    BY DEF Shortened
  <2>3. t = u /\ i + k = j + l
    BY <1>0, <2>1, <2>2 DEF OneRing
  <2>4. CASE k = l
    <3>1. i \in Nat /\ j \in Nat
      BY <1>l
    <3>2. QED
      BY <2>3, <2>4, <3>1
  <2>5. CASE k # l
    <3>1. \A n \in 1 .. Len(ring'[t]) : ring'[t][n] = ring[t][n + k] /\ ring'[t][n] = ring[t][n + l]
      BY <2>1, <2>2, <2>3
    <3>2. i + k \in 1 .. Len(ring[t]) /\ i + l \in 1 .. Len(ring[t])
      BY <2>1, <2>2, <2>3
    <3>3. SameReport(ring[t][i + k], ring[t][i + l])
      BY <3>1 DEF SameReport
    <3>4. i + k = i + l
      BY <1>0, <3>2, <3>3 DEF OneRing
    <3>5. i \in Nat
      BY <1>l
    <3>6. QED
      BY <2>5, <3>4, <3>5
  <2>6. QED
    BY <2>4, <2>5
<1>3. GotGone'
  <2> SUFFICES ASSUME NEW t \in Transports, NEW i \in 1 .. Len(ring'[t]), Got(ring'[t][i]),
                      Fresh(t, i)'
               PROVE  on' = t /\ at' = "drain_pop" /\ i = 1
    BY DEF GotGone, Got
  <2>1. PICK k \in {0, 1} :
          /\ \A n \in 1 .. Len(ring'[t]) : n + k \in 1 .. Len(ring[t]) /\ ring'[t][n] = ring[t][n + k]
          /\ on = t /\ at = "drain_pop" =>
               k = 1 \/ (on' = t /\ at' = "drain_pop") \/ ~SameGeneration(t)
    BY DEF Shortened
  <2>2. i + k \in 1 .. Len(ring[t]) /\ ring'[t][i] = ring[t][i + k]
    BY <2>1
  <2>3. Fresh(t, i + k)
    <3>1. /\ ring[t][i + k].generation <= generation[t] /\ ring[t][i + k].generation \in Nat
          /\ generation[t] \in Nat
      BY <1>0, <2>2, Facts DEF Numbered
    <3>2. generation[t] <= generation'[t] /\ generation'[t] \in Nat
      OBVIOUS
    <3>3. ring[t][i + k].generation = generation'[t]
      BY <2>2 DEF Fresh
    <3>4. QED
      BY <3>1, <3>2, <3>3 DEF Fresh
  <2>4. on = t /\ at = "drain_pop" /\ i + k = 1
    BY <1>0, <2>2, <2>3 DEF GotGone
  <2>5. k = 0 /\ i = 1
    <3>1. i \in Nat /\ i > 0
      BY <1>l
    <3>2. QED
      BY <2>4, <3>1
  <2>6. SameGeneration(t)
    BY <2>3, <2>4, <2>5, HeadFacts
  <2>7. QED
    BY <2>1, <2>4, <2>5, <2>6
<1>4. UnsentHead'
  <2> SUFFICES ASSUME at' = "drain_write" PROVE ~Got(ring[on][1])
    BY DEF UnsentHead, Got
  <2>1. CASE at = "drain_write"
    BY <1>0, <2>1 DEF UnsentHead
  <2>2. CASE at = "drain_compare" /\ SameGeneration(on)
    <3>1. 1 \in 1 .. Len(ring[on]) /\ Fresh(on, 1)
      BY <2>2, HeadFacts
    <3>2. QED
      BY <1>0, <2>2, <3>1 DEF GotGone
  <2>3. QED
    BY <2>1, <2>2
<1>5. UnsentRetries'
  <2> SUFFICES ASSUME NEW i \in 1 .. Len(retries'), NEW p \in 1 .. 2
               PROVE  Unsent(retries[i].msg, p)'
    BY DEF UnsentRetries
  <2>1. PICK j \in 1 .. Len(retries) : retries'[i].msg = retries[j].msg
    BY DEF RetriesShortened
  <2>2. PICK m : m = retries[j].msg
    OBVIOUS
  <2>3. Unsent(m, p)
    BY <1>0, <2>2 DEF UnsentRetries
  <2>4. Unsent(m, p)'
    BY <2>3, UnsentKept
  <2>5. QED
    BY <2>1, <2>2, <2>4
<1>6. UnsentRest'
  <2> SUFFICES ASSUME Sending', NEW p \in 1 .. 2, p >= job'.part PROVE Unsent(job.msg, p)'
    BY DEF UnsentRest
  <2>1. Sending /\ job' = job
    BY DEF SendKept
  <2>2. PICK m : m = job.msg
    OBVIOUS
  <2>3. Unsent(m, p)'
    BY <1>0, <2>1, <2>2, UnsentKept DEF UnsentRest
  <2>4. QED
    BY <2>1, <2>2, <2>3
<1>7. OneRetry'
  <2> SUFFICES ASSUME NEW i \in 1 .. Len(retries'), NEW j \in 1 .. Len(retries'),
                      retries'[i].msg = retries'[j].msg
               PROVE  i = j
    BY DEF OneRetry
  <2>1. PICK k \in {0, 1} : \A n \in 1 .. Len(retries') :
          n + k \in 1 .. Len(retries) /\ retries'[n].msg = retries[n + k].msg
    BY DEF RetriesShortened
  <2>2. i + k = j + k
    BY <1>0, <2>1 DEF OneRetry
  <2>3. i \in Nat /\ j \in Nat
    BY <1>l
  <2>4. QED
    BY <2>2, <2>3
<1>8. RetryFirst'
  <2> SUFFICES ASSUME Sending', NEW i \in 1 .. Len(retries')
               PROVE  retries'[i].msg = job'.msg <=> job'.retry /\ i = 1
    BY DEF RetryFirst
  <2>1. Sending /\ job' = job
    BY DEF SendKept
  <2>2. i + 0 \in 1 .. Len(retries) /\ retries'[i].msg = retries[i + 0].msg
    BY DEF RetriesShortened
  <2>3. i \in 1 .. Len(retries) /\ retries'[i].msg = retries[i].msg
    <3>1. i \in Nat
      BY <1>l
    <3>2. QED
      BY <2>2, <3>1
  <2>4. QED
    BY <1>0, <2>1, <2>3 DEF RetryFirst
<1>9. QED
  BY <1>1, <1>2, <1>3, <1>4, <1>5, <1>6, <1>7, <1>8 DEF Once

\* The steps that do nothing else.
CalmStep ==
  \/ LinkStep
  \/ DrainReset \/ DrainRetryReset \/ DrainNothing \/ DrainCheck \/ DrainCompare \/ DrainFails \/ DrainPop
  \/ SendReset \/ SendRetryReset \/ SendCheck
  \/ RetryNothing \/ RetryExpires \/ NextTurn \/ RetriesAge
  \/ UNCHANGED vars

LEMMA CalmFacts ==
  ASSUME Typed, CalmStep
  PROVE  /\ UNCHANGED <<issued, retried, cut, got>>
         /\ \A t \in Transports : Shortened(t)
         /\ RetriesShortened /\ SendKept
         /\ \A t \in Transports : generation[t] <= generation'[t]
         /\ at' = "drain_write" =>
              /\ on' = on /\ ring'[on] = ring[on]
              /\ at = "drain_write" \/ (at = "drain_compare" /\ SameGeneration(on))
<1> USE DEF shared, history
<1>0. /\ TypeOK /\ on \in Transports /\ ring \in [Transports -> Seq(Reports)]
      /\ \A t \in Transports : generation[t] \in Nat
  BY DEF Typed, TypeOK
<1>1. ASSUME \A t \in Transports : ring'[t] = ring[t] \/ ring'[t] = <<>>,
             at = "drain_pop" => at' = at /\ on' = on
      PROVE  \A t \in Transports : Shortened(t)
  BY <1>0, <1>1, RingKept
<1>2. CASE LinkStep
  <2>1. UNCHANGED <<ring, retries, at, on, job, issued, retried, cut, got>>
    BY <1>0, <1>2, LinkFacts
  <2>2. \A t \in Transports : Shortened(t)
    BY <1>1, <2>1
  <2>3. RetriesShortened
    BY <1>0, <2>1, RetriesKept
  <2>4. SendKept
    BY <2>1 DEF SendKept, Sending
  <2>5. QED
    BY <1>0, <1>2, <2>1, <2>2, <2>3, <2>4, LinkFacts
<1>3. CASE UNCHANGED vars
  <2>1. UNCHANGED <<ring, retries, at, on, job, issued, retried, cut, got, generation>>
    BY <1>3 DEF vars
  <2>2. \A t \in Transports : Shortened(t)
    BY <1>1, <2>1
  <2>3. RetriesShortened
    BY <1>0, <2>1, RetriesKept
  <2>4. SendKept
    BY <2>1 DEF SendKept, Sending
  <2>5. QED
    BY <1>0, <2>1, <2>2, <2>3, <2>4
<1>4. CASE DrainReset \/ SendReset
  <2>1. /\ RingReset /\ UNCHANGED <<on, job, retries, issued, retried, cut, got, generation>>
        /\ at \in {"drain", "send"} /\ at' # "drain_write" /\ (Sending' => Sending)
    BY <1>4 DEF DrainReset, SendReset, Sending
  <2>2. \A t \in Transports : ring'[t] = ring[t] \/ ring'[t] = <<>>
    BY <1>0, <2>1, ResetFacts
  <2>3. \A t \in Transports : Shortened(t)
    BY <1>1, <2>1, <2>2
  <2>4. RetriesShortened /\ SendKept
    BY <1>0, <2>1, RetriesKept DEF SendKept
  <2>5. QED
    BY <1>0, <2>1, <2>3, <2>4
<1>5. CASE DrainRetryReset \/ SendRetryReset
  <2>1. /\ RetryReset /\ UNCHANGED <<ring, on, job, issued, retried, cut, got, generation>>
        /\ at \in {"drain_retries", "send_retries"} /\ at' # "drain_write" /\ (Sending' => Sending)
    BY <1>5 DEF DrainRetryReset, SendRetryReset, Sending
  <2>2. \A t \in Transports : Shortened(t)
    BY <1>1, <2>1
  <2>3. RetriesShortened /\ SendKept
    BY <1>0, <2>1, RetriesKept, RetryResetFacts DEF SendKept
  <2>4. QED
    BY <1>0, <2>1, <2>2, <2>3
<1>6. CASE DrainNothing \/ DrainCheck \/ DrainFails \/ SendCheck \/ RetryNothing \/ NextTurn
  <2>1. /\ UNCHANGED <<ring, retries, job, issued, retried, cut, got, generation>>
        /\ at # "drain_pop" /\ at' # "drain_write"
        /\ Sending' => Sending /\ on' = on
    BY <1>6 DEF DrainNothing, DrainCheck, DrainFails, SendCheck, RetryNothing, NextTurn, AfterDrain, Sending
  <2>2. \A t \in Transports : Shortened(t)
    BY <1>1, <2>1
  <2>3. RetriesShortened /\ SendKept
    BY <1>0, <2>1, RetriesKept DEF SendKept
  <2>4. QED
    BY <1>0, <2>1, <2>2, <2>3
<1>7. CASE RetryExpires
  <2>1. /\ UNCHANGED <<ring, at, on, job, issued, retried, cut, got, generation>>
        /\ at = "retry" /\ retries # <<>> /\ retries' = Tail(retries)
    BY <1>7 DEF RetryExpires
  <2>2. \A t \in Transports : Shortened(t)
    BY <1>1, <2>1
  <2>3. ~Sending'
    BY <2>1 DEF Sending
  <2>4. \A i \in 1 .. Len(retries') : i + 1 \in 1 .. Len(retries) /\ retries'[i].msg = retries[i + 1].msg
    BY <1>0, <2>1, Shorter, Facts
  <2>5. RetriesShortened /\ SendKept
    BY <2>3, <2>4 DEF RetriesShortened, SendKept
  <2>6. QED
    BY <1>0, <2>1, <2>2, <2>5
<1>8. CASE RetriesAge
  <2>1. UNCHANGED <<ring, at, on, job, issued, retried, cut, got, generation>>
    BY <1>8 DEF RetriesAge
  <2>2. \A t \in Transports : Shortened(t)
    BY <1>1, <2>1
  <2>3. /\ Len(retries') = Len(retries) /\ Len(retries) \in Nat
        /\ \A i \in 1 .. Len(retries) : retries'[i].msg = retries[i].msg
    BY <1>0, <1>8, Aged, Facts DEF RetriesAge
  <2>4. \A i \in 1 .. Len(retries') : i + 0 \in 1 .. Len(retries) /\ retries'[i].msg = retries[i + 0].msg
    BY <2>3
  <2>5. RetriesShortened /\ SendKept
    BY <2>1, <2>4 DEF RetriesShortened, SendKept, Sending
  <2>6. QED
    BY <1>0, <2>1, <2>2, <2>5
<1>9. CASE DrainCompare
  <2>1. /\ UNCHANGED <<retries, job, issued, retried, cut, got, generation>>
        /\ at = "drain_compare" /\ ~Sending'
        /\ at' = "drain_write" => on' = on /\ ring' = ring /\ SameGeneration(on)
    BY <1>9 DEF DrainCompare, AfterDrain, Sending
  <2>2. \A t \in Transports : ring'[t] = ring[t] \/ ring'[t] = <<>>
    BY <1>0, <1>9 DEF DrainCompare
  <2>3. \A t \in Transports : Shortened(t)
    BY <1>1, <2>1, <2>2
  <2>4. RetriesShortened /\ SendKept
    BY <1>0, <2>1, RetriesKept DEF SendKept
  <2>5. QED
    BY <1>0, <2>1, <2>3, <2>4
<1>10. CASE DrainPop
  <2>1. /\ UNCHANGED <<retries, job, issued, retried, cut, got, generation>>
        /\ at = "drain_pop" /\ ~Sending' /\ at' # "drain_write"
    BY <1>10 DEF DrainPop, AfterDrain, Sending
  <2>2. RetriesShortened /\ SendKept
    BY <1>0, <2>1, RetriesKept DEF SendKept
  <2>3. ASSUME NEW t \in Transports PROVE Shortened(t)
    <3>1. CASE ~SameGeneration(t) /\ t = on
      <4>1. ring'[t] = ring[t]
        BY <1>10, <3>1 DEF DrainPop
      <4>2. QED
        BY <1>0, <3>1, <4>1, RingKept
    <3>2. CASE t # on
      <4>1. ring'[t] = ring[t]
        BY <1>0, <1>10, <3>2 DEF DrainPop
      <4>2. QED
        BY <1>0, <3>2, <4>1, RingKept
    <3>3. CASE SameGeneration(t) /\ t = on
      <4>1. ring'[t] = Tail(ring[t])
        BY <1>0, <1>10, <3>3 DEF DrainPop, Popped
      <4>2. ring[t] \in Seq(Reports) /\ ring[t] # <<>> /\ Len(ring[t]) \in Nat
        BY <2>1, <3>3, HeadFacts
      <4>3. \A i \in 1 .. Len(ring'[t]) : i + 1 \in 1 .. Len(ring[t]) /\ ring'[t][i] = ring[t][i + 1]
        BY <4>1, <4>2, Shorter
      <4>4. QED
        BY <4>3 DEF Shortened
    <3>4. QED
      BY <3>1, <3>2, <3>3
  <2>4. QED
    BY <1>0, <2>1, <2>2, <2>3
<1>11. QED
  BY <1>2, <1>3, <1>4, <1>5, <1>6, <1>7, <1>8, <1>9, <1>10 DEF CalmStep

LEMMA CalmSteps ==
  ASSUME Typed, [Next]_vars
  PROVE  \/ CalmStep \/ DrainWrite \/ SendStamp \/ SendRefused \/ RetrySend
         \/ \E kind \in Kinds, t \in Transports : Issue(kind, t)
  BY NextSteps DEF CalmStep, DrainStep, RetryStep

LEMMA CalmOnceStep ==
  ASSUME Typed, Typed', Once, CalmStep
  PROVE  Once'
<1>1. \A t \in Transports : generation'[t] \in Nat
  BY DEF Typed, TypeOK
<1>2. QED
  BY <1>1, CalmFacts, CalmOnce

LEMMA OnceParts ==
  ASSUME Typed, Once
  PROVE  /\ AtMostOnce /\ OneRing /\ GotGone
         /\ UnsentHead /\ UnsentRetries /\ UnsentRest
         /\ OneRetry /\ RetryFirst
         /\ TypeOK /\ Numbered /\ Placed /\ on \in Transports
         /\ \A t \in Transports : Len(ring[t]) \in Nat /\ Len(got[t]) \in Nat
         /\ \A t \in Transports : DOMAIN got[t] = 1 .. Len(got[t])
         /\ Len(retries) \in Nat
<1>1. TypeOK /\ Numbered /\ Placed /\ on \in Transports
  BY DEF Typed, TypeOK
<1>2. \A t \in Transports : DOMAIN got[t] = 1 .. Len(got[t])
  BY <1>1 DEF TypeOK
<1>3. QED
  BY <1>1, <1>2, Facts DEF Once

\* The host gets the head of the ring, which it did not have.
LEMMA WriteOnce ==
  ASSUME Typed, Typed', Once, DrainWrite
  PROVE  Once'
<1> USE DEF shared, history
<1>0. /\ AtMostOnce /\ OneRing /\ GotGone /\ UnsentHead /\ UnsentRetries /\ OneRetry
      /\ TypeOK /\ Numbered /\ on \in Transports
      /\ \A t \in Transports : Len(ring[t]) \in Nat /\ Len(got[t]) \in Nat
      /\ \A t \in Transports : DOMAIN got[t] = 1 .. Len(got[t])
  BY OnceParts
<1>1. /\ UNCHANGED <<ring, retries, on, job, generation>>
      /\ at = "drain_write" /\ at' = "drain_pop" /\ ~Sending'
  BY DEF DrainWrite, Sending
<1>2. PICK d \in Delivery :
        /\ d.msg = ring[on][1].msg /\ d.part = ring[on][1].part /\ d.session = session[on]
        /\ Len(got'[on]) = Len(got[on]) + 1 /\ got'[on][Len(got[on]) + 1] = d
        /\ \A i \in 1 .. Len(got[on]) : got'[on][i] = got[on][i]
        /\ \A t \in Transports : t # on => got'[t] = got[t]
  BY WriteFacts
<1>3. 1 \in 1 .. Len(ring[on]) /\ ~Got(ring[on][1])
  BY <1>0, <1>1, HeadFacts DEF UnsentHead
<1>4. ASSUME NEW t \in Transports, NEW i \in 1 .. Len(got'[t])
      PROVE  \/ i \in 1 .. Len(got[t]) /\ got'[t][i] = got[t][i]
             \/ t = on /\ i = Len(got[on]) + 1 /\ got'[t][i] = d
  BY <1>0, <1>2
<1>5. \A t \in Transports : \A i \in 1 .. Len(got[t]) : ~SameReport(got[t][i], d)
  BY <1>2, <1>3 DEF Got, SameReport
<1>6. AtMostOnce'
  <2> SUFFICES ASSUME NEW t \in Transports, NEW u \in Transports,
                      NEW i \in 1 .. Len(got'[t]), NEW j \in 1 .. Len(got'[u]),
                      got'[t][i].msg = got'[u][j].msg, got'[t][i].part = got'[u][j].part
               PROVE  t = u /\ i = j
    <3>1. \A t \in Transports : DOMAIN got'[t] = 1 .. Len(got'[t])
      BY DEF Typed, TypeOK
    <3>2. QED
      BY <3>1 DEF AtMostOnce
  <2>1. CASE i \in 1 .. Len(got[t]) /\ got'[t][i] = got[t][i]
    <3>1. CASE j \in 1 .. Len(got[u]) /\ got'[u][j] = got[u][j]
      BY <1>0, <2>1, <3>1 DEF AtMostOnce
    <3>2. CASE got'[u][j] = d
      BY <1>5, <2>1, <3>2 DEF SameReport
    <3>3. QED
      BY <1>4, <3>1, <3>2
  <2>2. CASE t = on /\ i = Len(got[on]) + 1 /\ got'[t][i] = d
    <3>1. CASE j \in 1 .. Len(got[u]) /\ got'[u][j] = got[u][j]
      BY <1>5, <2>2, <3>1 DEF SameReport
    <3>2. CASE u = on /\ j = Len(got[on]) + 1
      BY <2>2, <3>2
    <3>3. QED
      BY <1>4, <3>1, <3>2
  <2>3. QED
    BY <1>4, <2>1, <2>2
<1>7. OneRing'
  BY <1>0, <1>1 DEF OneRing
<1>8. GotGone'
  <2> SUFFICES ASSUME NEW t \in Transports, NEW i \in 1 .. Len(ring[t]),
                      NEW u \in Transports, NEW j \in 1 .. Len(got'[u]),
                      SameReport(got'[u][j], ring[t][i]), Fresh(t, i)
               PROVE  on = t /\ i = 1
    BY <1>1 DEF GotGone, Got, Fresh
  <2>1. CASE j \in 1 .. Len(got[u]) /\ got'[u][j] = got[u][j]
    <3>1. Got(ring[t][i])
      BY <2>1 DEF Got
    <3>2. QED
      BY <1>0, <1>1, <3>1 DEF GotGone
  <2>2. CASE got'[u][j] = d
    BY <1>0, <1>2, <1>3, <2>2 DEF OneRing, SameReport
  <2>3. QED
    BY <1>4, <2>1, <2>2
<1>9. UnsentRetries'
  <2> SUFFICES ASSUME NEW i \in 1 .. Len(retries), NEW p \in 1 .. 2, NEW t \in Transports
               PROVE  /\ \A j \in 1 .. Len(ring[t]) : ring[t][j].msg = retries[i].msg => ring[t][j].part # p
                      /\ \A j \in 1 .. Len(got'[t]) : got'[t][j].msg = retries[i].msg => got'[t][j].part # p
    BY <1>1 DEF UnsentRetries, Unsent
  <2>1. \A u \in Transports :
          /\ \A j \in 1 .. Len(ring[u]) : ring[u][j].msg = retries[i].msg => ring[u][j].part # p
          /\ \A j \in 1 .. Len(got[u]) : got[u][j].msg = retries[i].msg => got[u][j].part # p
    BY <1>0 DEF UnsentRetries, Unsent
  <2>2. ASSUME NEW j \in 1 .. Len(got'[t]), got'[t][j].msg = retries[i].msg
        PROVE  got'[t][j].part # p
    <3>1. CASE j \in 1 .. Len(got[t]) /\ got'[t][j] = got[t][j]
      BY <2>1, <2>2, <3>1
    <3>2. CASE got'[t][j] = d
      <4>1. ring[on][1].msg = retries[i].msg
        BY <1>2, <2>2, <3>2
      <4>2. ring[on][1].part # p
        BY <1>0, <1>3, <2>1, <4>1
      <4>3. QED
        BY <1>2, <3>2, <4>2
    <3>3. QED
      BY <1>4, <3>1, <3>2
  <2>3. QED
    BY <2>1, <2>2
<1>10. UnsentHead' /\ UnsentRest' /\ OneRetry' /\ RetryFirst'
  BY <1>0, <1>1 DEF UnsentHead, UnsentRest, OneRetry, RetryFirst
<1>11. QED
  BY <1>6, <1>7, <1>8, <1>9, <1>10 DEF Once

\* The message of a step that begins or ends a message was in no list.
LEMMA OtherOnce ==
  ASSUME Typed, Typed', Once, got' = got, ring' = ring, generation' = generation,
         at \notin {"drain_pop", "drain_write"}, at' # "drain_write",
         UnsentRetries', UnsentRest', OneRetry', RetryFirst'
  PROVE  Once'
<1>0. AtMostOnce /\ OneRing /\ GotGone
  BY OnceParts
<1>1. AtMostOnce' /\ OneRing'
  BY <1>0 DEF AtMostOnce, OneRing
<1>2. GotGone'
  BY <1>0 DEF GotGone, Got, Fresh
<1>3. QED
  BY <1>1, <1>2 DEF Once, UnsentHead

LEMMA RefusedOnce ==
  ASSUME Typed, Typed', Once, SendRefused
  PROVE  Once'
<1> USE DEF shared, history
<1>0. /\ UnsentRetries /\ UnsentRest /\ OneRetry /\ RetryFirst
      /\ TypeOK /\ Numbered /\ on \in Transports /\ Len(retries) \in Nat /\ retries \in Seq(Retry)
  BY OnceParts DEF TypeOK, Retry
<1> DEFINE r == [msg |-> job.msg, target |-> on, old |-> FALSE]
<1>1. /\ UNCHANGED <<ring, on, generation, got>>
      /\ at = "send_check" /\ at' = "work" /\ Sending /\ ~Sending'
      /\ \/ UNCHANGED retries
         \/ /\ retries' = Append(retries, r)
            /\ issued[job.msg].kind = "key" /\ ~job.retry
  BY DEF SendRefused, Sending, GiveUp, KeyRefused, RetryRefused
<1>2. UnsentRest' /\ RetryFirst'
  BY <1>1 DEF UnsentRest, RetryFirst
<1>3. CASE UNCHANGED retries
  <2>1. UnsentRetries' /\ OneRetry'
    BY <1>0, <1>1, <1>3 DEF UnsentRetries, Unsent, OneRetry
  <2>2. QED
    BY <1>1, <1>2, <2>1, OtherOnce
<1>4. CASE /\ retries' = Append(retries, r)
           /\ issued[job.msg].kind = "key" /\ ~job.retry
  <2>1. r \in Retry /\ r.msg = job.msg
    BY <1>0, Facts, RetryType
  <2>2. PICK n \in Nat : n = Len(retries) + 1
    BY <1>0
  <2>3. /\ Len(retries') = n /\ retries'[n].msg = job.msg
        /\ \A i \in 1 .. Len(retries) : retries'[i] = retries[i]
        /\ \A i \in 1 .. Len(retries') : i = n \/ i \in 1 .. Len(retries)
    BY <1>0, <1>4, <2>1, <2>2, Added
  <2>4. \A p \in 1 .. 2 : Unsent(job.msg, p)
    <3>1. job.part = 1
      BY <1>0, <1>1, <1>4, KindParts DEF Numbered
    <3>2. QED
      BY <1>0, <1>1, <3>1 DEF UnsentRest
  <2>5. UnsentRetries'
    <3> SUFFICES ASSUME NEW i \in 1 .. Len(retries'), NEW p \in 1 .. 2
                 PROVE  Unsent(retries[i].msg, p)'
      BY DEF UnsentRetries
    <3>1. PICK m : m = retries'[i].msg
      OBVIOUS
    <3>2. Unsent(m, p)
      BY <1>0, <2>3, <2>4, <3>1 DEF UnsentRetries
    <3>3. QED
      BY <1>1, <3>1, <3>2 DEF Unsent
  <2>6. \A i \in 1 .. Len(retries) : retries[i].msg # job.msg
    BY <1>0, <1>1, <1>4 DEF RetryFirst
  <2>7. OneRetry'
    BY <1>0, <2>3, <2>6 DEF OneRetry
  <2>8. QED
    BY <1>1, <1>2, <2>5, <2>7, OtherOnce
<1>5. QED
  BY <1>1, <1>3, <1>4

LEMMA RetrySendOnce ==
  ASSUME Typed, Typed', Once, RetrySend
  PROVE  Once'
<1> USE DEF shared, history
<1>0. UnsentRetries /\ OneRetry /\ TypeOK /\ retries \in Seq(Retry)
  BY OnceParts DEF TypeOK, Retry
<1>1. /\ UNCHANGED <<ring, retries, generation, got>>
      /\ at = "retry" /\ at' = "send" /\ retries # <<>>
      /\ job' = [msg |-> Head(retries).msg, part |-> 1, retry |-> TRUE]
  BY DEF RetrySend
<1>2. 1 \in 1 .. Len(retries) /\ Head(retries) = retries[1]
  BY <1>0, <1>1, FirstOne
<1>3. UnsentRetries' /\ OneRetry'
  BY <1>0, <1>1 DEF UnsentRetries, OneRetry, Unsent
<1>4. UnsentRest'
  BY <1>0, <1>1, <1>2 DEF UnsentRest, UnsentRetries, Unsent
<1>5. RetryFirst'
  BY <1>0, <1>1, <1>2 DEF RetryFirst, OneRetry
<1>6. QED
  BY <1>1, <1>3, <1>4, <1>5, OtherOnce

LEMMA IssueOnce ==
  ASSUME Typed, Typed', Once, NEW kind \in Kinds, NEW t \in Transports, Issue(kind, t)
  PROVE  Once'
<1>0. UnsentRetries /\ OneRetry /\ TypeOK /\ Numbered
  BY OnceParts
<1>1. /\ UNCHANGED <<ring, retries, generation, got>>
      /\ at = "work" /\ at' = "send"
      /\ job' = [msg |-> Len(issued'), part |-> 1, retry |-> FALSE]
      /\ Len(issued') = Len(issued) + 1 /\ Len(issued) \in Nat
  BY <1>0, IssueFacts
<1>2. UnsentRetries' /\ OneRetry'
  BY <1>0, <1>1 DEF UnsentRetries, OneRetry, Unsent
<1>3. UnsentRest'
  <2>1. job'.msg = Len(issued) + 1
    BY <1>1
  <2>2. ASSUME NEW u \in Transports
        PROVE  /\ \A i \in 1 .. Len(ring[u]) : ring[u][i].msg # Len(issued) + 1
               /\ \A i \in 1 .. Len(got[u]) : got[u][i].msg # Len(issued) + 1
    BY <1>0, <1>1 DEF Numbered
  <2>3. QED
    BY <1>1, <2>1, <2>2 DEF UnsentRest, Unsent
<1>4. RetryFirst'
  <2>1. \A i \in 1 .. Len(retries) : retries[i].msg # Len(issued) + 1
    BY <1>0, <1>1 DEF Numbered
  <2>2. QED
    BY <1>1, <2>1 DEF RetryFirst
<1>5. QED
  BY <1>1, <1>2, <1>3, <1>4, OtherOnce

LEMMA StampOnce ==
  ASSUME Typed, Typed', Once, SendStamp
  PROVE  Once'
<1> USE DEF shared, history
<1>0. /\ AtMostOnce /\ OneRing /\ GotGone /\ UnsentRetries /\ UnsentRest /\ OneRetry /\ RetryFirst
      /\ TypeOK /\ Numbered /\ on \in Transports /\ Len(retries) \in Nat /\ retries \in Seq(Retry)
      /\ \A t \in Transports : Len(ring[t]) \in Nat
  BY OnceParts DEF TypeOK, Retry
<1>1. /\ UNCHANGED <<on, generation, got>> /\ Sending /\ at = "send_stamp"
      /\ at' \in {"send", "retry", "work"}
      /\ job \in [msg : Nat, part : Nat, retry : BOOLEAN] /\ job.part \in 1 .. 2
  <2>1. UNCHANGED <<on, generation, got>> /\ at = "send_stamp" /\ at' \in {"send", "retry", "work"}
    BY DEF SendStamp
  <2>2. Sending /\ job \in [msg : Nat, part : Nat, retry : BOOLEAN]
    BY <1>0, StampFacts DEF TypeOK
  <2>3. job.part \in 1 .. Parts(issued[job.msg].kind) /\ Parts(issued[job.msg].kind) \in 1 .. 2
    BY <1>0, <2>2, KindParts DEF Numbered
  <2>4. QED
    BY <2>1, <2>2, <2>3
<1>n. PICK n \in Nat : n = Len(ring[on]) + 1
  BY <1>0
<1>r. PICK r \in Reports : r.msg = job.msg /\ r.part = job.part /\ r = Stamped
  BY StampFacts DEF Stamped
<1>2. /\ Len(ring'[on]) = n /\ ring'[on][n] = r
      /\ \A i \in 1 .. Len(ring[on]) : ring'[on][i] = ring[on][i]
      /\ \A t \in Transports : t # on => ring'[t] = ring[t]
  BY <1>n, <1>r, StampFacts
<1>3. ASSUME NEW t \in Transports, NEW i \in 1 .. Len(ring'[t])
      PROVE  \/ i \in 1 .. Len(ring[t]) /\ ring'[t][i] = ring[t][i]
             \/ t = on /\ i = n /\ ring'[t][i] = r
  BY <1>0, <1>n, <1>2
<1>4. Unsent(job.msg, job.part)
  BY <1>0, <1>1 DEF UnsentRest
<1>5. \A t \in Transports :
        /\ \A i \in 1 .. Len(ring[t]) : ~SameReport(ring[t][i], r) /\ ~SameReport(r, ring[t][i])
        /\ \A i \in 1 .. Len(got[t]) : ~SameReport(got[t][i], r)
  BY <1>r, <1>4 DEF Unsent, SameReport
<1>6. AtMostOnce'
  BY <1>0, <1>1 DEF AtMostOnce
<1>7. OneRing'
  <2> SUFFICES ASSUME NEW t \in Transports, NEW u \in Transports,
                      NEW i \in 1 .. Len(ring'[t]), NEW j \in 1 .. Len(ring'[u]),
                      SameReport(ring'[t][i], ring'[u][j])
               PROVE  t = u /\ i = j
    BY DEF OneRing
  <2>1. CASE i \in 1 .. Len(ring[t]) /\ ring'[t][i] = ring[t][i]
    <3>1. CASE j \in 1 .. Len(ring[u]) /\ ring'[u][j] = ring[u][j]
      BY <1>0, <2>1, <3>1 DEF OneRing
    <3>2. CASE ring'[u][j] = r
      BY <1>5, <2>1, <3>2
    <3>3. QED
      BY <1>3, <3>1, <3>2
  <2>2. CASE t = on /\ i = n /\ ring'[t][i] = r
    <3>1. CASE j \in 1 .. Len(ring[u]) /\ ring'[u][j] = ring[u][j]
      BY <1>5, <2>2, <3>1
    <3>2. CASE u = on /\ j = n
      BY <2>2, <3>2
    <3>3. QED
      BY <1>3, <3>1, <3>2
  <2>3. QED
    BY <1>3, <2>1, <2>2
<1>8. GotGone'
  <2> SUFFICES ASSUME NEW t \in Transports, NEW i \in 1 .. Len(ring'[t]),
                      NEW u \in Transports, NEW j \in 1 .. Len(got[u]),
                      SameReport(got[u][j], ring'[t][i])
               PROVE  ring'[t][i].generation # generation[t]
    BY <1>1 DEF GotGone, Got, Fresh
  <2>1. CASE i \in 1 .. Len(ring[t]) /\ ring'[t][i] = ring[t][i]
    <3>1. Got(ring[t][i])
      BY <2>1 DEF Got
    <3>2. QED
      BY <1>0, <1>1, <2>1, <3>1 DEF GotGone, Fresh
  <2>2. CASE ring'[t][i] = r
    BY <1>5, <2>2
  <2>3. QED
    BY <1>3, <2>1, <2>2
<1>9. /\ at' = "send" => retries' = retries /\ job' = [job EXCEPT !.part = @ + 1]
      /\ at' # "send" => retries' = RetriesAfterSuccess
      /\ job.retry => at' # "send"
  <2>1. job.retry => ~(job.part < Parts(issued[job.msg].kind))
    BY <1>0, <1>1, KindParts DEF Numbered
  <2>2. QED
    BY <2>1 DEF SendStamp
<1>10. PICK k \in {0, 1} :
         /\ \A i \in 1 .. Len(retries') : i + k \in 1 .. Len(retries) /\ retries'[i].msg = retries[i + k].msg
         /\ at' = "send" => k = 0
         /\ job.retry => k = 1
  <2>1. CASE at' = "send" \/ ~job.retry
    <3>1. retries' = retries /\ ~job.retry
      BY <1>9, <2>1 DEF RetriesAfterSuccess
    <3>2. \A i \in 1 .. Len(retries') : i + 0 \in 1 .. Len(retries) /\ retries'[i].msg = retries[i + 0].msg
      BY <1>0, <3>1
    <3>3. QED
      BY <3>1, <3>2
  <2>2. CASE at' # "send" /\ job.retry
    <3>1. \A i \in 1 .. Len(retries') : i + 1 \in 1 .. Len(retries) /\ retries'[i].msg = retries[i + 1].msg
      <4>1. CASE retries = <<>>
        <5>1. retries' = <<>>
          BY <1>9, <2>2, <4>1 DEF RetriesAfterSuccess
        <5>2. QED
          BY <5>1, NoneIn
      <4>2. CASE retries # <<>>
        <5>1. retries' = Tail(retries)
          BY <1>9, <2>2, <4>2 DEF RetriesAfterSuccess
        <5>2. QED
          BY <1>0, <4>2, <5>1, Shorter
      <4>3. QED
        BY <4>1, <4>2
    <3>2. QED
      BY <2>2, <3>1
  <2>3. QED
    BY <2>1, <2>2
<1>11. Len(retries') \in Nat
  BY Lengths
<1>12. \A i \in 1 .. Len(retries') : retries'[i].msg # job.msg
  <2> SUFFICES ASSUME NEW i \in 1 .. Len(retries'), retries'[i].msg = job.msg PROVE FALSE
    OBVIOUS
  <2>1. i + k \in 1 .. Len(retries) /\ retries[i + k].msg = job.msg
    BY <1>10
  <2>2. job.retry /\ i + k = 1
    BY <1>0, <1>1, <2>1 DEF RetryFirst
  <2>3. QED
    BY <1>10, <1>11, <2>2
<1>13. ASSUME NEW m, NEW p, Unsent(m, p), m # job.msg \/ p # job.part
       PROVE  Unsent(m, p)'
  <2> SUFFICES ASSUME NEW t \in Transports
               PROVE  /\ \A i \in 1 .. Len(ring'[t]) : ring'[t][i].msg = m => ring'[t][i].part # p
                      /\ \A i \in 1 .. Len(got[t]) : got[t][i].msg = m => got[t][i].part # p
    BY <1>1 DEF Unsent
  <2>1. /\ \A i \in 1 .. Len(ring[t]) : ring[t][i].msg = m => ring[t][i].part # p
        /\ \A i \in 1 .. Len(got[t]) : got[t][i].msg = m => got[t][i].part # p
    BY <1>13 DEF Unsent
  <2>2. QED
    BY <1>r, <1>3, <1>13, <2>1
<1>14. UnsentRetries'
  <2> SUFFICES ASSUME NEW i \in 1 .. Len(retries'), NEW p \in 1 .. 2
               PROVE  Unsent(retries[i].msg, p)'
    BY DEF UnsentRetries
  <2>1. PICK m : m = retries'[i].msg
    OBVIOUS
  <2>2. Unsent(m, p)
    BY <1>0, <1>10, <2>1 DEF UnsentRetries
  <2>3. m # job.msg
    BY <1>12, <2>1
  <2>4. QED
    BY <1>13, <2>1, <2>2, <2>3
<1>15. UnsentRest'
  <2> SUFFICES ASSUME Sending', NEW p \in 1 .. 2, p >= job'.part PROVE Unsent(job.msg, p)'
    BY DEF UnsentRest
  <2>1. job'.msg = job.msg /\ job'.part = job.part + 1
    BY <1>1, <1>9 DEF Sending
  <2>2. PICK m : m = job.msg
    OBVIOUS
  <2>3. Unsent(m, p) /\ p # job.part
    BY <1>0, <1>1, <2>1, <2>2 DEF UnsentRest
  <2>4. QED
    BY <1>13, <2>1, <2>2, <2>3
<1>16. OneRetry'
  <2> SUFFICES ASSUME NEW i \in 1 .. Len(retries'), NEW j \in 1 .. Len(retries'),
                      retries'[i].msg = retries'[j].msg
               PROVE  i = j
    BY DEF OneRetry
  <2>1. i + k = j + k
    BY <1>0, <1>10 DEF OneRetry
  <2>2. QED
    BY <1>11, <2>1
<1>17. RetryFirst'
  <2> SUFFICES ASSUME Sending', NEW i \in 1 .. Len(retries')
               PROVE  retries'[i].msg = job'.msg <=> job'.retry /\ i = 1
    BY DEF RetryFirst
  <2>1. job'.msg = job.msg /\ job'.retry = job.retry /\ ~job.retry
    BY <1>1, <1>9 DEF Sending
  <2>2. QED
    BY <1>12, <2>1
<1>18. UnsentHead'
  BY <1>1 DEF UnsentHead
<1>19. QED
  BY <1>6, <1>7, <1>8, <1>14, <1>15, <1>16, <1>17, <1>18 DEF Once

LEMMA OnceStep == Typed /\ Once /\ [Next]_vars => Once'
<1> SUFFICES ASSUME Typed, Once, [Next]_vars PROVE Once'
  OBVIOUS
<1>1. Typed'
  BY TypedStep
<1>2. QED
  BY <1>1, CalmSteps, CalmOnceStep, WriteOnce, StampOnce, RefusedOnce, RetrySendOnce, IssueOnce

LEMMA OnceInit == Init => Once
<1> SUFFICES ASSUME Init PROVE Once
  OBVIOUS
<1>1. /\ ring = [t \in Transports |-> <<>>] /\ got = [t \in Transports |-> <<>>] /\ retries = <<>>
      /\ at = "work"
  BY DEF Init
<1>2. \A t \in Transports : \A i : i \notin 1 .. Len(ring[t]) /\ i \notin DOMAIN got[t]
  BY <1>1, NoneIn
<1>3. \A i : i \notin 1 .. Len(retries)
  BY <1>1, NoneIn
<1>4. AtMostOnce
  BY <1>2 DEF AtMostOnce
<1>5. OneRing /\ GotGone
  BY <1>2 DEF OneRing, GotGone
<1>6. UnsentHead /\ UnsentRest /\ RetryFirst
  BY <1>1 DEF UnsentHead, UnsentRest, RetryFirst, Sending
<1>7. UnsentRetries /\ OneRetry
  BY <1>3 DEF UnsentRetries, OneRetry
<1>8. QED
  BY <1>4, <1>5, <1>6, <1>7 DEF Once

-----------------------------------------------------------------------------
(* Messages arrive whole.                                                  *)

LEMMA WholeParts ==
  ASSUME Typed, Whole
  PROVE  /\ WholeMessages /\ \A t \in Transports : Behind(t) /\ Expected(t)
         /\ SecondNext /\ JustSent
         /\ TypeOK /\ Numbered /\ Placed /\ on \in Transports
         /\ \A t \in Transports : /\ Len(ring[t]) \in Nat /\ Len(got[t]) \in Nat
                                  /\ DOMAIN got[t] = 1 .. Len(got[t])
<1>1. TypeOK /\ Numbered /\ Placed /\ on \in Transports
  BY DEF Typed, TypeOK
<1>2. \A t \in Transports : DOMAIN got[t] = 1 .. Len(got[t])
  BY <1>1 DEF TypeOK
<1>3. QED
  BY <1>1, <1>2, Facts DEF Whole

\* A response waits for no retry, so what the host has of it is of its connection.
LEMMA ResponseFacts ==
  ASSUME Typed
  PROVE  /\ \A m \in 1 .. Len(issued) : Response(m) => m \notin retried
         /\ \A t \in Transports : \A i \in 1 .. Len(ring[t]) :
              ring[t][i].part = 2 => Response(ring[t][i].msg)
<1>1. TypeOK /\ Numbered
  BY DEF Typed
<1>2. \A m \in 1 .. Len(issued) : Response(m) => m \notin retried
  BY <1>1, KindParts DEF Numbered, Response
<1>3. \A t \in Transports : \A i \in 1 .. Len(ring[t]) :
        /\ ring[t][i].part <= Parts(issued[ring[t][i].msg].kind)
        /\ Parts(issued[ring[t][i].msg].kind) \in 1 .. 2
  BY <1>1, KindParts DEF Numbered
<1>4. QED
  BY <1>2, <1>3 DEF Response

LEMMA ResponseSession ==
  ASSUME Typed, NoStaleReport, NEW t \in Transports, NEW i \in 1 .. Len(got[t]),
         Response(got[t][i].msg)
  PROVE  issued[got[t][i].msg].session = got[t][i].session
<1>1. i \in DOMAIN got[t] /\ got[t][i].msg \in 1 .. Len(issued)
  BY DEF Typed, TypeOK, Numbered
<1>2. got[t][i].msg \notin retried
  BY <1>1, ResponseFacts
<1>3. QED
  BY <1>1, <1>2 DEF NoStaleReport

\* The host has the first report of a response and waits for the second one.
Waiting(t) ==
  /\ Len(got[t]) > 0
  /\ Last(got[t]).part = 1 /\ Response(Last(got[t]).msg) /\ Last(got[t]).msg \notin cut
  /\ Last(got[t]).session = session[t] /\ up[t]

\* What the host waits for is in the ring and is not going to be reset.
LEMMA WaitingFacts ==
  ASSUME Typed, Sound, NoStaleReport, Whole, NEW t \in Transports, Waiting(t),
         ~(on = t /\ at = "drain_pop")
  PROVE  /\ Len(ring[t]) > 0 /\ ring[t][1].msg = Last(got[t]).msg /\ ring[t][1].part = 2
         /\ ~resetAsked[t] /\ Fresh(t, 1)
<1>0. Expected(t) /\ Len(got[t]) \in Nat /\ Len(ring[t]) \in Nat
  BY WholeParts
<1>1. Len(ring[t]) > 0 /\ ring[t][1].msg = Last(got[t]).msg /\ ring[t][1].part = 2
  BY <1>0 DEF Expected, Waiting
<1>2. issued[ring[t][1].msg].session = session[t]
  <2>1. Len(got[t]) \in 1 .. Len(got[t])
    BY <1>0 DEF Waiting
  <2>2. issued[Last(got[t]).msg].session = Last(got[t]).session
    BY <2>1, ResponseSession DEF Waiting, Last
  <2>3. QED
    BY <1>1, <2>2 DEF Waiting
<1>3. 1 \in 1 .. Len(ring[t]) /\ up[t] /\ SafeRing(t) /\ CleanRing(t)
  BY <1>0, <1>1 DEF Waiting, Sound, Generations
<1>4. callback[t] = "idle" /\ ~resetAsked[t]
  BY <1>2, <1>3 DEF SafeRing
<1>5. Fresh(t, 1)
  BY <1>3, <1>4 DEF CleanRing
<1>6. QED
  BY <1>1, <1>4, <1>5

\* What was said of the messages stays.
LEMMA WholeKept ==
  ASSUME Typed, WholeMessages, got' = got, cut \subseteq cut',
         \A m \in 1 .. Len(issued) : issued'[m] = issued[m]
  PROVE  WholeMessages'
<1>1. \A t \in Transports : \A i \in DOMAIN got[t] : issued'[got[t][i].msg] = issued[got[t][i].msg]
  <2>1. TypeOK /\ Numbered
    BY DEF Typed
  <2>2. \A t \in Transports : DOMAIN got[t] = 1 .. Len(got[t])
    BY <2>1 DEF TypeOK
  <2>3. QED
    BY <2>1, <2>2 DEF Numbered
<1>2. QED
  BY <1>1 DEF WholeMessages

LEMMA BehindKept ==
  ASSUME Typed, NEW t \in Transports, Behind(t), ring'[t] = ring[t], got' = got, cut \subseteq cut',
         \A m \in 1 .. Len(issued) : issued'[m] = issued[m],
         Sending /\ on = t /\ job.part = 2 => job.msg \in cut' \/ (Sending' /\ on' = on /\ job' = job)
  PROVE  Behind(t)'
<1>1. \A i \in 1 .. Len(ring[t]) : Response(ring[t][i].msg)' <=> Response(ring[t][i].msg)
  BY DEF Typed, Numbered, Response
<1>2. \A i \in 1 .. Len(ring[t]) : Got(ring[t][i]) => Got(ring[t][i])'
  BY DEF Got
<1>3. QED
  BY <1>1, <1>2 DEF Behind

LEMMA ExpectedKept ==
  ASSUME Typed, NEW t \in Transports, Expected(t), ring'[t] = ring[t], got' = got, cut \subseteq cut',
         \A m \in 1 .. Len(issued) : issued'[m] = issued[m],
         on = t /\ at = "drain_pop" => on' = t /\ at' = "drain_pop",
         Waiting(t)' => Waiting(t)
  PROVE  Expected(t)'
  BY DEF Expected, Waiting

\* An empty ring, when the host waits for nothing.
LEMMA EmptyBehind ==
  ASSUME Typed, Typed', NEW t \in Transports, ring'[t] = <<>>
  PROVE  Behind(t)'
<1>1. \A i : i \notin 1 .. Len(ring'[t])
  BY NoneIn
<1>2. QED
  BY <1>1 DEF Behind

LEMMA EmptyExpected ==
  ASSUME NEW t \in Transports, ~Waiting(t)'
  PROVE  Expected(t)'
  BY DEF Expected, Waiting

\* A step may end the wait of the host; it never makes the host wait.
LEMMA WaitingKept ==
  ASSUME Typed, NEW t \in Transports, got' = got, cut \subseteq cut',
         \A m \in 1 .. Len(issued) : issued'[m] = issued[m],
         Len(got[t]) > 0 /\ up'[t] /\ session'[t] = Last(got[t]).session =>
           up[t] /\ session[t] = Last(got[t]).session
  PROVE  Waiting(t)' => Waiting(t)
<1> SUFFICES ASSUME Waiting(t)' PROVE Waiting(t)
  OBVIOUS
<1>1. Len(got[t]) > 0 /\ Len(got[t]) \in Nat /\ TypeOK /\ Numbered
  BY Facts DEF Waiting, Typed
<1>2. Last(got[t]).msg \in 1 .. Len(issued)
  BY <1>1 DEF Numbered, Last
<1>3. Response(Last(got[t]).msg)' <=> Response(Last(got[t]).msg)
  BY <1>2 DEF Response, Last
<1>4. QED
  BY <1>1, <1>3 DEF Waiting, Last

\* Nothing happens to the rings, and to what the host has.
LEMMA QuietWhole ==
  ASSUME OutboundInv, ring' = ring, got' = got, cut \subseteq cut',
         \A m \in 1 .. Len(issued) : issued'[m] = issued[m],
         Sending /\ job.part = 2 => job.msg \in cut' \/ (Sending' /\ on' = on /\ job' = job),
         at = "drain_pop" => on' = on /\ at' = "drain_pop",
         \A t \in Transports : Waiting(t)' => Waiting(t),
         SecondNext', JustSent'
  PROVE  Whole'
<1>0. /\ Typed /\ Whole /\ WholeMessages /\ \A t \in Transports : Behind(t) /\ Expected(t)
  BY WholeParts DEF OutboundInv
<1>1. WholeMessages'
  BY <1>0, WholeKept
<1>2. ASSUME NEW t \in Transports PROVE Behind(t)'
  BY <1>0, BehindKept
<1>3. ASSUME NEW t \in Transports PROVE Expected(t)'
  BY <1>0, ExpectedKept
<1>4. QED
  BY <1>1, <1>2, <1>3 DEF Whole

\* A connection is made between two calls about its transport, and is a new one.
LEMMA LinkUp ==
  ASSUME Typed, LinkStep, NEW t \in Transports
  PROVE  \/ (up'[t] => up[t]) /\ session'[t] = session[t]
         \/ ~up[t] /\ session'[t] = session[t] + 1 /\ BetweenCalls(t)
<1>0. TypeOK
  BY DEF Typed
<1>1. ASSUME NEW u \in Transports, Connect(u)
      PROVE  \/ (up'[t] => up[t]) /\ session'[t] = session[t]
             \/ ~up[t] /\ session'[t] = session[t] + 1 /\ BetweenCalls(t)
  BY <1>0, <1>1 DEF Connect, TypeOK
<1>2. ASSUME NEW u \in Transports, Disconnect(u)
      PROVE  (up'[t] => up[t]) /\ session'[t] = session[t]
  BY <1>0, <1>2 DEF Disconnect, TypeOK
<1>3. ASSUME NEW u \in Transports,
             \/ BumpGeneration(u) \/ AskRingReset(u) \/ AskRetryReset \/ EndSession(u) \/ HostPolls
             \/ Handshake(u) \/ SessionIdle(u)
      PROVE  (up'[t] => up[t]) /\ session'[t] = session[t]
  BY <1>3 DEF BumpGeneration, AskRingReset, AskRetryReset, EndSession, HostPolls, Handshake, SessionIdle
<1>4. QED
  BY <1>1, <1>2, <1>3 DEF LinkStep, Callbacks, Callback

LEMMA LinkWhole ==
  ASSUME OutboundInv, LinkStep
  PROVE  Whole'
<1>0. /\ Typed /\ Whole /\ SecondNext /\ JustSent /\ TypeOK /\ Numbered /\ on \in Transports
      /\ \A t \in Transports : Len(got[t]) \in Nat
      /\ UNCHANGED <<ring, retries, at, on, job, issued, retried, cut, got>>
  BY WholeParts, LinkFacts DEF OutboundInv
<1>1. ASSUME NEW t \in Transports PROVE Waiting(t)' => Waiting(t)
  <2>1. ASSUME Len(got[t]) > 0, up'[t], session'[t] = Last(got[t]).session
        PROVE  up[t] /\ session[t] = Last(got[t]).session
    <3>1. Last(got[t]).session <= session[t] /\ Last(got[t]).session \in Nat /\ session[t] \in Nat
      BY <1>0, <2>1, Facts DEF Numbered, Last
    <3>2. session'[t] # session[t] + 1
      BY <2>1, <3>1
    <3>3. QED
      BY <1>0, <2>1, <3>2, LinkUp
  <2>2. QED
    BY <1>0, <2>1, WaitingKept
<1>2. PICK t \in Transports : t = on
  BY <1>0
<1>3. at = "drain_pop" \/ Sending => (up'[t] => up[t]) /\ session'[t] = session[t]
  BY <1>0, <1>2, LinkUp DEF BetweenCalls, Sending
<1>4. SecondNext'
  BY <1>0, <1>2, <1>3 DEF SecondNext, Sending, Last
<1>5. JustSent'
  BY <1>0, <1>2, <1>3 DEF JustSent, SameReport, Last
<1>6. QED
  BY <1>0, <1>1, <1>4, <1>5, QuietWhole DEF Sending

\* The links are as they were.
LEMMA StillWaiting ==
  ASSUME Typed, LinkKept, got' = got, cut \subseteq cut',
         \A m \in 1 .. Len(issued) : issued'[m] = issued[m], NEW t \in Transports
  PROVE  Waiting(t)' => Waiting(t)
  BY WaitingKept DEF LinkKept

LEMMA QuietSteps ==
  ASSUME OutboundInv,
         \/ DrainRetryReset \/ DrainNothing \/ DrainCheck \/ DrainFails
         \/ SendRetryReset \/ SendCheck
         \/ RetryNothing \/ RetryExpires \/ NextTurn \/ RetriesAge \/ UNCHANGED vars
  PROVE  Whole'
<1> USE DEF shared, history
<1>0. /\ Typed /\ Whole /\ SecondNext /\ JustSent
  BY WholeParts DEF OutboundInv
<1>1. /\ UNCHANGED <<ring, got, job, issued, cut>> /\ LinkKept
      /\ Sending <=> Sending'
      /\ Sending \/ at = "drain_pop" => on' = on
      /\ at = "drain_pop" <=> at' = "drain_pop"
      /\ at' = "send_stamp" => at = "send_stamp" \/ (at = "send_check" /\ up[on])
  BY DEF DrainRetryReset, DrainNothing, DrainCheck, DrainFails, SendRetryReset, SendCheck,
         RetryNothing, RetryExpires, NextTurn, RetriesAge, vars, AfterDrain, Sending, LinkKept, Connected
<1>2. ASSUME NEW t \in Transports PROVE Waiting(t)' => Waiting(t)
  BY <1>0, <1>1, StillWaiting
<1>3. SecondNext'
  BY <1>0, <1>1 DEF SecondNext, Last, LinkKept
<1>4. JustSent'
  BY <1>0, <1>1 DEF JustSent, SameReport, Last, LinkKept
<1>5. QED
  BY <1>1, <1>2, <1>3, <1>4, QuietWhole

LEMMA RefusedWhole ==
  ASSUME OutboundInv, SendRefused
  PROVE  Whole'
<1> USE DEF shared, history
<1>0. Typed
  BY DEF OutboundInv
<1>1. /\ UNCHANGED <<ring, got, issued>> /\ LinkKept
      /\ cut \subseteq cut' /\ (job.part > 1 => job.msg \in cut')
      /\ ~Sending' /\ at' = "work" /\ at = "send_check"
  BY DEF SendRefused, GiveUp, Sending, LinkKept
<1>2. ASSUME NEW t \in Transports PROVE Waiting(t)' => Waiting(t)
  BY <1>0, <1>1, StillWaiting
<1>3. SecondNext' /\ JustSent'
  BY <1>1 DEF SecondNext, JustSent
<1>4. QED
  BY <1>1, <1>2, <1>3, QuietWhole

LEMMA BeginWhole ==
  ASSUME OutboundInv, RetrySend \/ \E kind \in Kinds, t \in Transports : Issue(kind, t)
  PROVE  Whole'
<1> USE DEF shared, history
<1>0. Typed /\ TypeOK
  BY DEF OutboundInv, Typed
<1>1. /\ UNCHANGED <<ring, got, cut>> /\ LinkKept
      /\ ~Sending /\ at \in {"retry", "work"} /\ at' = "send" /\ job'.part = 1
      /\ \A m \in 1 .. Len(issued) : issued'[m] = issued[m]
  <2>1. CASE RetrySend
    BY <2>1 DEF RetrySend, Sending, LinkKept
  <2>2. ASSUME NEW kind \in Kinds, NEW t \in Transports, Issue(kind, t)
        PROVE  /\ UNCHANGED <<ring, got, cut, up, callback, generation, session, live>>
               /\ at = "work" /\ at' = "send" /\ job'.part = 1
               /\ \A m \in 1 .. Len(issued) : issued'[m] = issued[m]
    <3>1. /\ UNCHANGED <<ring, got, cut>> /\ UNCHANGED <<up, callback, generation, session, live>>
          /\ at = "work" /\ at' = "send"
          /\ \A m \in 1 .. Len(issued) : issued'[m] = issued[m]
      BY <1>0, <2>2, IssueFacts
    <3>2. job' = [msg |-> Len(issued'), part |-> 1, retry |-> FALSE]
      BY <1>0, <2>2, IssueFacts
    <3>3. QED
      BY <3>1, <3>2
  <2>3. QED
    BY <2>1, <2>2 DEF Sending, LinkKept
<1>2. ASSUME NEW t \in Transports PROVE Waiting(t)' => Waiting(t)
  BY <1>0, <1>1, StillWaiting
<1>3. SecondNext' /\ JustSent'
  BY <1>1 DEF SecondNext, JustSent
<1>4. QED
  BY <1>1, <1>2, <1>3, QuietWhole

\* A ring that is emptied while its host waits for nothing.
LEMMA EmptiedWhole ==
  ASSUME OutboundInv, Typed', NEW h \in Transports, ring'[h] = <<>>, ~Waiting(h),
         \A t \in Transports : t # h => ring'[t] = ring[t],
         LinkKept, UNCHANGED <<got, cut, issued>>,
         at \notin {"drain_pop"}, at' # "drain_pop",
         ~Sending' \/ (Sending /\ on' = on /\ job' = job),
         Sending => Sending' /\ on = h,
         SecondNext'
  PROVE  Whole'
<1>0. /\ Typed /\ WholeMessages /\ \A t \in Transports : Behind(t) /\ Expected(t)
  BY WholeParts DEF OutboundInv
<1>1. ASSUME NEW t \in Transports PROVE Waiting(t)' => Waiting(t)
  BY <1>0, StillWaiting
<1>2. WholeMessages'
  BY <1>0, WholeKept
<1>3. ASSUME NEW t \in Transports PROVE Behind(t)' /\ Expected(t)'
  <2>1. CASE t = h
    BY <1>0, <1>1, <2>1, EmptyBehind, EmptyExpected
  <2>2. CASE t # h
    BY <1>0, <1>1, <2>2, BehindKept, ExpectedKept
  <2>3. QED
    BY <2>1, <2>2
<1>4. QED
  BY <1>2, <1>3 DEF Whole, JustSent

LEMMA ResetWhole ==
  ASSUME OutboundInv, Typed', DrainReset \/ SendReset
  PROVE  Whole'
<1> USE DEF shared, history
<1>0. /\ Typed /\ Sound /\ NoStaleReport /\ Whole /\ SecondNext /\ TypeOK /\ SendSafe
      /\ on \in Transports
  BY WholeParts DEF OutboundInv, Sound, Generations
<1>h. PICK h \in Transports : h = on
  BY <1>0
<1>1. /\ RingReset /\ LinkKept /\ UNCHANGED <<on, job, got, issued, cut>>
      /\ at \in {"drain", "send"} /\ (Sending <=> Sending')
      /\ at' \notin {"drain_pop", "send_stamp"}
      /\ Sending => at = "send"
  BY DEF DrainReset, SendReset, Sending, LinkKept
<1>2. ASSUME NEW t \in Transports PROVE Waiting(t)' => Waiting(t)
  BY <1>0, <1>1, StillWaiting
<1>3. CASE ~resetAsked[on]
  <2>1. ring' = ring
    BY <1>0, <1>1, <1>3, ResetFacts
  <2>2. SecondNext' /\ JustSent'
    BY <1>0, <1>1, <2>1 DEF SecondNext, JustSent, LinkKept, Last
  <2>3. QED
    BY <1>1, <1>2, <2>1, <2>2, QuietWhole
<1>4. CASE resetAsked[on]
  <2>1. ring'[h] = <<>> /\ \A t \in Transports : t # h => ring'[t] = ring[t]
    BY <1>0, <1>1, <1>4, <1>h, ResetFacts
  <2>2. ~Waiting(h)
    BY <1>0, <1>1, <1>4, <1>h, WaitingFacts
  <2>3. SecondNext'
    BY <1>0, <1>1, <1>4 DEF SecondNext, SendSafe, LinkKept
  <2>4. QED
    BY <1>1, <1>h, <2>1, <2>2, <2>3, EmptiedWhole
<1>5. QED
  BY <1>3, <1>4

LEMMA CompareWhole ==
  ASSUME OutboundInv, Typed', DrainCompare
  PROVE  Whole'
<1> USE DEF shared, history
<1>0. /\ Typed /\ Sound /\ NoStaleReport /\ Whole /\ TypeOK /\ on \in Transports
  BY WholeParts DEF OutboundInv
<1>h. PICK h \in Transports : h = on
  BY <1>0
<1>1. /\ LinkKept /\ UNCHANGED <<job, got, issued, cut>>
      /\ at = "drain_compare" /\ ~Sending /\ ~Sending' /\ at' # "drain_pop"
  BY DEF DrainCompare, AfterDrain, Sending, LinkKept
<1>2. ASSUME NEW t \in Transports PROVE Waiting(t)' => Waiting(t)
  BY <1>0, <1>1, StillWaiting
<1>3. SecondNext' /\ JustSent'
  BY <1>1 DEF SecondNext, JustSent
<1>4. CASE SameGeneration(on)
  <2>1. ring' = ring
    BY <1>4 DEF DrainCompare
  <2>2. QED
    BY <1>1, <1>2, <1>3, <2>1, QuietWhole
<1>5. CASE ~SameGeneration(on)
  <2>1. ring'[h] = <<>> /\ \A t \in Transports : t # h => ring'[t] = ring[t]
    BY <1>0, <1>5, <1>h DEF DrainCompare, TypeOK
  <2>2. ~Waiting(h)
    BY <1>0, <1>1, <1>5, <1>h, WaitingFacts, HeadFacts
  <2>3. QED
    BY <1>1, <1>3, <2>1, <2>2, EmptiedWhole
<1>6. QED
  BY <1>4, <1>5

LEMMA PopWhole ==
  ASSUME OutboundInv, Typed', DrainPop
  PROVE  Whole'
<1> USE DEF shared, history
<1>0. /\ Typed /\ Sound /\ NoStaleReport /\ Whole /\ TypeOK /\ Numbered /\ on \in Transports
      /\ WholeMessages /\ \A t \in Transports : Behind(t) /\ Expected(t)
      /\ JustSent /\ \A t \in Transports : SafeRing(t) /\ CleanRing(t)
      /\ ring \in [Transports -> Seq(Reports)]
      /\ \A t \in Transports : Len(got[t]) \in Nat
  BY WholeParts DEF OutboundInv, Sound, Generations, TypeOK
<1>h. PICK h \in Transports : h = on
  BY <1>0
<1>1. /\ LinkKept /\ UNCHANGED <<job, got, issued, cut>>
      /\ at = "drain_pop" /\ ~Sending /\ ~Sending' /\ at' # "drain_pop"
      /\ \A t \in Transports : t # h => ring'[t] = ring[t]
  BY <1>0, <1>h DEF DrainPop, AfterDrain, Sending, LinkKept
<1>2. ASSUME NEW t \in Transports PROVE Waiting(t)' => Waiting(t)
  BY <1>0, <1>1, StillWaiting
<1>3. SecondNext' /\ JustSent'
  BY <1>1 DEF SecondNext, JustSent
<1>4. WholeMessages'
  BY <1>0, <1>1, WholeKept
<1>5. ASSUME NEW t \in Transports, t # h PROVE Behind(t)' /\ Expected(t)'
  <2>1. Behind(t)'
    BY <1>0, <1>1, <1>5, BehindKept
  <2>2. Expected(t)'
    BY <1>0, <1>1, <1>2, <1>5, <1>h, ExpectedKept
  <2>3. QED
    BY <2>1, <2>2
<1>6. /\ ring[h] \in Seq(Reports) /\ ring[h] # <<>> /\ Len(ring[h]) \in Nat
      /\ Len(ring[h]) > 0 /\ 1 \in 1 .. Len(ring[h])
      /\ Len(got[h]) > 0 /\ Last(got[h]).msg = ring[h][1].msg /\ Last(got[h]).part = ring[h][1].part
      /\ Last(got[h]).session = session[h]
      /\ SameGeneration(h) <=> Fresh(h, 1)
  BY <1>0, <1>1, <1>h, HeadFacts DEF JustSent, SameReport
<1>7. ASSUME Waiting(h) PROVE SameGeneration(h)
  <2>1. Len(got[h]) \in 1 .. Len(got[h])
    BY <1>0, <1>6
  <2>2. issued[Last(got[h]).msg].session = session[h] /\ up[h]
    BY <1>0, <1>7, <2>1, ResponseSession DEF Waiting, Last
  <2>3. callback[h] = "idle" /\ ~resetAsked[h]
    BY <1>0, <1>6, <2>2 DEF SafeRing
  <2>4. Fresh(h, 1)
    BY <1>0, <1>6, <2>2, <2>3 DEF CleanRing
  <2>5. QED
    BY <1>6, <2>4
<1>8. CASE ~SameGeneration(h)
  <2>1. ring'[h] = ring[h]
    BY <1>8, <1>h DEF DrainPop
  <2>2. Behind(h)'
    BY <1>0, <1>1, <2>1, BehindKept
  <2>3. Expected(h)'
    BY <1>2, <1>7, <1>8, EmptyExpected
  <2>4. QED
    BY <1>3, <1>4, <1>5, <2>2, <2>3 DEF Whole
<1>9. CASE SameGeneration(h)
  <2>1. ring'[h] = Tail(ring[h])
    BY <1>0, <1>9, <1>h DEF DrainPop, Popped
  <2>2. /\ Len(ring'[h]) = Len(ring[h]) - 1
        /\ \A i \in 1 .. Len(ring'[h]) : i + 1 \in 1 .. Len(ring[h]) /\ ring'[h][i] = ring[h][i + 1]
    BY <1>6, <2>1, Shorter
  <2>3. Behind(h)'
    <3>1. ASSUME NEW i \in 1 .. Len(ring'[h]), ring'[h][i].part = 2
          PROVE  \/ i > 1 /\ ring'[h][i - 1].msg = ring'[h][i].msg /\ ring'[h][i - 1].part = 1
                 \/ /\ i = 1 /\ Len(got[h]) > 0
                    /\ Last(got[h]).msg = ring'[h][i].msg /\ Last(got[h]).part = 1
      <4>1. i + 1 \in 1 .. Len(ring[h]) /\ ring'[h][i] = ring[h][i + 1] /\ i \in Nat
        BY <1>6, <2>2, <3>1
      <4>2. ring[h][i].msg = ring[h][i + 1].msg /\ ring[h][i].part = 1
        <5>1. (i + 1) - 1 = i /\ i + 1 > 1 /\ i + 1 # 1
          BY <3>1, <4>1
        <5>2. \/ ring[h][(i + 1) - 1].msg = ring[h][i + 1].msg /\ ring[h][(i + 1) - 1].part = 1
              \/ i + 1 = 1
          BY <1>0, <3>1, <4>1 DEF Behind
        <5>3. QED
          BY <5>1, <5>2
      <4>3. CASE i = 1
        BY <1>6, <4>1, <4>2, <4>3
      <4>4. CASE i # 1
        <5>1. i - 1 \in 1 .. Len(ring'[h]) /\ (i - 1) + 1 = i
          BY <1>6, <2>2, <4>1, <4>4
        <5>2. ring'[h][i - 1] = ring[h][i]
          BY <2>2, <5>1
        <5>3. QED
          BY <4>1, <4>2, <4>4, <5>2
      <4>5. QED
        BY <4>3, <4>4
    <3>2. ASSUME NEW i \in 1 .. Len(ring'[h]), ring'[h][i].part = 1, Response(ring'[h][i].msg)
          PROVE  \/ /\ i < Len(ring'[h])
                    /\ ring'[h][i + 1].msg = ring'[h][i].msg /\ ring'[h][i + 1].part = 2
                 \/ ring'[h][i].msg \in cut
      <4>1. i + 1 \in 1 .. Len(ring[h]) /\ ring'[h][i] = ring[h][i + 1] /\ i \in Nat
        BY <1>6, <2>2, <3>2
      <4>2. \/ /\ i + 1 < Len(ring[h]) /\ ring[h][i + 2].msg = ring[h][i + 1].msg
               /\ ring[h][i + 2].part = 2
            \/ ring[h][i + 1].msg \in cut
        <5>1. (i + 1) + 1 = i + 2
          BY <4>1
        <5>2. QED
          BY <1>0, <1>1, <3>2, <4>1, <5>1 DEF Behind
      <4>3. i + 1 < Len(ring[h]) => i + 1 \in 1 .. Len(ring'[h]) /\ ring'[h][i + 1] = ring[h][i + 2]
        BY <1>6, <2>2, <4>1
      <4>4. QED
        <5>1. Len(ring[h]) \in Nat /\ Len(ring'[h]) \in Nat /\ Len(ring'[h]) = Len(ring[h]) - 1
          BY <1>6, <2>2
        <5>2. CASE i + 1 < Len(ring[h])
          <6>1. i < Len(ring'[h])
            BY <4>1, <5>1, <5>2
          <6>2. QED
            BY <4>1, <4>2, <4>3, <5>2, <6>1
        <5>3. CASE ~(i + 1 < Len(ring[h]))
          BY <4>1, <4>2, <5>3
        <5>4. QED
          BY <5>2, <5>3
    <3>3. \A m : Response(m)' <=> Response(m)
      BY <1>1 DEF Response
    <3>4. QED
      BY <1>1, <3>1, <3>2, <3>3 DEF Behind
  <2>4. Expected(h)'
    <3> SUFFICES ASSUME Waiting(h)
                 PROVE  /\ Len(ring'[h]) > 0 /\ ring'[h][1].msg = Last(got[h]).msg
                        /\ ring'[h][1].part = 2
      BY <1>1, <1>2 DEF Expected, Waiting, Last, Response, LinkKept
    <3>1. ring[h][1].part = 1 /\ Response(ring[h][1].msg) /\ ring[h][1].msg \notin cut
      BY <1>6 DEF Waiting
    <3>2. 1 < Len(ring[h]) /\ ring[h][2].msg = ring[h][1].msg /\ ring[h][2].part = 2
      BY <1>0, <1>1, <1>6, <3>1 DEF Behind
    <3>3. Len(ring'[h]) > 0 /\ ring'[h][1] = ring[h][2]
      BY <1>6, <2>2, <3>2
    <3>4. QED
      BY <1>6, <3>2, <3>3
  <2>5. QED
    BY <1>3, <1>4, <1>5, <2>3, <2>4 DEF Whole
<1>10. QED
  BY <1>8, <1>9

\* The two reports of a response differ in the number of the part.
LEMMA NextDelivery ==
  ASSUME NEW a \in Delivery, NEW b \in Delivery, a.msg = b.msg, a.session = b.session,
         a.part = 1, b.part = 2
  PROVE  a = [b EXCEPT !.part = @ - 1] /\ b = [a EXCEPT !.part = @ + 1]
<1>1. b.part - 1 = 1 /\ a.part + 1 = 2
  OBVIOUS
<1>2. a = [b EXCEPT !.part = b.part - 1]
  BY <1>1 DEF Delivery
<1>3. b = [a EXCEPT !.part = a.part + 1]
  BY <1>1 DEF Delivery
<1>4. QED
  BY <1>2, <1>3

\* What is written is what the host waits for, unless the rest was cut.
LEMMA WrittenNext ==
  ASSUME OutboundInv, DrainWrite, NEW h \in Transports, h = on,
         NEW d \in Delivery, d.msg = ring[on][1].msg, d.part = ring[on][1].part,
         d.session = session[on]
  PROVE  /\ d.part = 2 =>
              /\ Len(got[h]) > 0 /\ Last(got[h]).msg = d.msg /\ Last(got[h]).part = 1
              /\ Last(got[h]).session = d.session
         /\ Waiting(h) => d.msg = Last(got[h]).msg /\ d.part = 2
<1>0. /\ Typed /\ Sound /\ NoStaleReport /\ Whole /\ TypeOK /\ Numbered /\ UnsentHead
      /\ Behind(h) /\ Len(got[h]) \in Nat /\ at = "drain_write" /\ Own(h, d.msg)
      /\ 1 \in 1 .. Len(ring[h])
  BY WholeParts, HeadFacts DEF OutboundInv, Once, DrainWrite, Sound, Generations
<1>1. ASSUME d.part = 2
      PROVE  /\ Len(got[h]) > 0 /\ Last(got[h]).msg = d.msg /\ Last(got[h]).part = 1
             /\ Last(got[h]).session = d.session
  <2>1. ~Got(ring[h][1])
    BY <1>0 DEF UnsentHead
  <2>2. Len(got[h]) > 0 /\ Last(got[h]).msg = d.msg /\ Last(got[h]).part = 1
    <3>1. ring[h][1].part = 2 /\ d.msg = ring[h][1].msg
      BY <1>1
    <3>2. \/ 1 > 1
          \/ Got(ring[h][1])
          \/ Len(got[h]) > 0 /\ Last(got[h]).msg = ring[h][1].msg /\ Last(got[h]).part = 1
      BY <1>0, <3>1 DEF Behind
    <3>3. QED
      BY <2>1, <3>1, <3>2
  <2>3. Response(d.msg) /\ d.msg \in 1 .. Len(issued)
    BY <1>0, <1>1, ResponseFacts DEF Numbered
  <2>4. issued[d.msg].session = session[h]
    BY <1>0, <2>3, ResponseFacts DEF Own
  <2>5. Len(got[h]) \in 1 .. Len(got[h])
    BY <1>0, <2>2
  <2>6. issued[d.msg].session = Last(got[h]).session
    BY <1>0, <2>2, <2>3, <2>5, ResponseSession DEF Last
  <2>7. QED
    BY <2>2, <2>4, <2>6
<1>2. Waiting(h) => d.msg = Last(got[h]).msg /\ d.part = 2
  BY <1>0, WaitingFacts
<1>3. QED
  BY <1>1, <1>2

LEMMA WriteMessages ==
  ASSUME OutboundInv, Typed', DrainWrite
  PROVE  WholeMessages'
<1> USE DEF shared, history
<1>0. /\ Typed /\ WholeMessages /\ TypeOK /\ Numbered /\ on \in Transports
      /\ \A t \in Transports : /\ Len(ring[t]) \in Nat /\ Len(got[t]) \in Nat
                               /\ DOMAIN got[t] = 1 .. Len(got[t])
                               /\ got[t] \in Seq(Delivery)
      /\ issued' = issued /\ cut' = cut /\ \A t \in Transports : DOMAIN got'[t] = 1 .. Len(got'[t])
      /\ up[on]
  <2>1. Typed /\ Whole /\ TypeOK /\ Numbered /\ WholeMessages /\ on \in Transports
    BY WholeParts DEF OutboundInv
  <2>2. /\ got \in [Transports -> Seq(Delivery)] /\ got' \in [Transports -> Seq(Delivery)]
    BY <2>1 DEF Typed, TypeOK, Delivery
  <2>3. issued' = issued /\ cut' = cut /\ up[on]
    BY DEF DrainWrite, Connected
  <2>4. \A t \in Transports : Len(ring[t]) \in Nat /\ Len(got[t]) \in Nat
    BY <2>1, WholeParts
  <2>5. QED
    BY <2>1, <2>2, <2>3, <2>4
<1>h. PICK h \in Transports : h = on
  BY <1>0
<1>2. PICK d \in Delivery :
        /\ d.msg = ring[on][1].msg /\ d.part = ring[on][1].part /\ d.session = session[on]
        /\ Len(got'[on]) = Len(got[on]) + 1 /\ got'[on][Len(got[on]) + 1] = d
        /\ \A i \in 1 .. Len(got[on]) : got'[on][i] = got[on][i]
        /\ \A t \in Transports : t # on => got'[t] = got[t]
  BY <1>0, WriteFacts
<1>3. /\ d.part = 2 =>
           /\ Len(got[h]) > 0 /\ Last(got[h]).msg = d.msg /\ Last(got[h]).part = 1
           /\ Last(got[h]).session = d.session
      /\ Waiting(h) => d.msg = Last(got[h]).msg /\ d.part = 2
  BY <1>2, <1>h, WrittenNext
<1>4. Len(got[h]) > 0 => Len(got[h]) \in 1 .. Len(got[h]) /\ Last(got[h]) \in Delivery
  BY <1>0 DEF Last
<1>5. \A e \in Delivery : e.part \in 1 .. 2 /\ (e.part > 1 => e.part = 2)
  BY DEF Delivery
<1>6. ASSUME NEW t \in Transports, NEW i \in 1 .. Len(got'[t])
      PROVE  \/ i \in 1 .. Len(got[t]) /\ got'[t][i] = got[t][i]
             \/ t = h /\ i = Len(got[h]) + 1 /\ got'[t][i] = d
  BY <1>0, <1>2, <1>h
<1>7. ASSUME NEW t \in Transports, NEW i \in 1 .. Len(got'[t]), got'[t][i].part > 1
      PROVE  i > 1 /\ got'[t][i - 1] = [got'[t][i] EXCEPT !.part = @ - 1]
  <2>1. CASE i \in 1 .. Len(got[t]) /\ got'[t][i] = got[t][i]
    <3>0. i \in DOMAIN got[t] /\ got[t][i].part > 1
      BY <1>0, <1>7, <2>1
    <3>1. i > 1 /\ got[t][i - 1] = [got[t][i] EXCEPT !.part = @ - 1]
      BY <1>0, <3>0, Zenon DEF WholeMessages
    <3>2. i - 1 \in 1 .. Len(got[t])
      BY <1>0, <2>1, <3>1
    <3>3. got'[t][i - 1] = got[t][i - 1]
      BY <1>2, <3>2
    <3>4. QED
      BY <2>1, <3>1, <3>3
  <2>2. CASE t = h /\ i = Len(got[h]) + 1 /\ got'[t][i] = d
    <3>1. d.part = 2
      BY <1>5, <1>7, <2>2
    <3>2. i - 1 = Len(got[h]) /\ got'[h][Len(got[h])] = Last(got[h]) /\ i > 1
      BY <1>0, <1>2, <1>3, <1>4, <1>h, <2>2, <3>1 DEF Last
    <3>3. Last(got[h]) = [d EXCEPT !.part = @ - 1]
      BY <1>3, <1>4, <3>1, NextDelivery
    <3>4. QED
      BY <2>2, <3>2, <3>3
  <2>3. QED
    BY <1>6, <1>7, <2>1, <2>2
<1>8. ASSUME NEW t \in Transports, NEW i \in 1 .. Len(got'[t]),
             got'[t][i].part < Parts(issued[got'[t][i].msg].kind), i < Len(got'[t])
      PROVE  \/ got'[t][i + 1] = [got'[t][i] EXCEPT !.part = @ + 1]
             \/ got'[t][i].msg \in cut
             \/ got'[t][i + 1].session # got'[t][i].session
  <2>1. i \in 1 .. Len(got[t]) /\ got'[t][i] = got[t][i]
    BY <1>0, <1>2, <1>6, <1>8, <1>h
  <2>2. CASE i < Len(got[t])
    <3>0. /\ i \in DOMAIN got[t] /\ i < Len(got[t])
          /\ got[t][i].part < Parts(issued[got[t][i].msg].kind)
      BY <1>0, <1>8, <2>1, <2>2
    <3>1. \/ got[t][i + 1] = [got[t][i] EXCEPT !.part = @ + 1]
          \/ got[t][i].msg \in cut
          \/ got[t][i + 1].session # got[t][i].session
      <4>1. WholeMessages
        BY <1>0
      <4>2. QED
        BY <4>1, <3>0, ZenonT(30) DEF WholeMessages
    <3>2. i + 1 \in 1 .. Len(got[t])
      BY <1>0, <2>1, <2>2
    <3>3. got'[t][i + 1] = got[t][i + 1]
      BY <1>2, <3>2
    <3>4. QED
      BY <2>1, <3>1, <3>3
  <2>3. CASE ~(i < Len(got[t]))
    <3>1. t = h /\ i = Len(got[h]) /\ Len(got[h]) > 0
      BY <1>0, <1>2, <1>8, <1>h, <2>1, <2>3
    <3>2. got'[t][i + 1] = d /\ got'[t][i] = Last(got[h]) /\ Last(got[h]) \in Delivery
      BY <1>2, <1>4, <1>h, <2>1, <3>1 DEF Last
    <3>3. Last(got[h]).part = 1 /\ Response(Last(got[h]).msg)
      <4>1. Parts(issued[Last(got[h]).msg].kind) \in 1 .. 2
        BY KindParts
      <4>2. Last(got[h]).part < Parts(issued[Last(got[h]).msg].kind)
        BY <1>8, <3>2
      <4>3. QED
        BY <1>5, <3>2, <4>1, <4>2 DEF Response
    <3>4. CASE Waiting(h)
      <4>1. /\ d.msg = Last(got[h]).msg /\ d.part = 2 /\ Last(got[h]).part = 1
            /\ Last(got[h]).session = d.session
        BY <1>2, <1>3, <1>h, <3>4 DEF Waiting
      <4>2. d = [Last(got[h]) EXCEPT !.part = @ + 1]
        BY <3>2, <4>1, NextDelivery
      <4>3. QED
        BY <3>2, <4>2, Zenon
    <3>5. CASE ~Waiting(h)
      BY <1>0, <1>2, <1>h, <3>1, <3>2, <3>3, <3>5 DEF Waiting
    <3>6. QED
      BY <3>4, <3>5
  <2>4. QED
    BY <2>2, <2>3
<1>9. ASSUME NEW t \in Transports, NEW i \in DOMAIN got'[t]
      PROVE  /\ got'[t][i].part > 1 =>
                  i > 1 /\ got'[t][i - 1] = [got'[t][i] EXCEPT !.part = @ - 1]
             /\ got'[t][i].part < Parts(issued'[got'[t][i].msg].kind) /\ i < Len(got'[t]) =>
                  \/ got'[t][i + 1] = [got'[t][i] EXCEPT !.part = @ + 1]
                  \/ got'[t][i].msg \in cut'
                  \/ got'[t][i + 1].session # got'[t][i].session
  <2>1. i \in 1 .. Len(got'[t]) /\ issued' = issued /\ cut' = cut
    BY <1>0
  <2>2. QED
    BY <1>7, <1>8, <2>1, Zenon
<1>10. QED
  BY <1>9, Zenon DEF WholeMessages

LEMMA WriteWhole ==
  ASSUME OutboundInv, Typed', DrainWrite
  PROVE  Whole'
<1>0. /\ Typed /\ TypeOK /\ Numbered /\ on \in Transports
      /\ \A t \in Transports : Behind(t) /\ Expected(t)
      /\ \A t \in Transports : Len(ring[t]) \in Nat /\ Len(got[t]) \in Nat
  BY WholeParts DEF OutboundInv
<1>h. PICK h \in Transports : h = on
  BY <1>0
<1>1. /\ UNCHANGED <<ring, on, job, issued, cut, up, session>>
      /\ at = "drain_write" /\ at' = "drain_pop" /\ ~Sending /\ ~Sending'
  BY DEF DrainWrite, Sending
<1>2. PICK d \in Delivery :
        /\ d.msg = ring[on][1].msg /\ d.part = ring[on][1].part /\ d.session = session[on]
        /\ Len(got'[on]) = Len(got[on]) + 1 /\ got'[on][Len(got[on]) + 1] = d
        /\ \A i \in 1 .. Len(got[on]) : got'[on][i] = got[on][i]
        /\ \A t \in Transports : t # on => got'[t] = got[t]
  BY <1>0, WriteFacts
<1>3. Len(got'[h]) \in 1 .. Len(got'[h]) /\ Last(got'[h]) = d /\ Len(got'[h]) > 0
  BY <1>0, <1>2, <1>h DEF Last
<1>4. ASSUME NEW r, Got(r) PROVE Got(r)'
  <2>1. PICK u \in Transports : \E j \in 1 .. Len(got[u]) : SameReport(got[u][j], r)
    BY <1>4 DEF Got
  <2>2. PICK j \in 1 .. Len(got[u]) : SameReport(got[u][j], r)
    BY <2>1
  <2>3. j \in 1 .. Len(got'[u]) /\ got'[u][j] = got[u][j]
    BY <1>0, <1>2, <2>1
  <2>4. QED
    BY <2>2, <2>3 DEF Got
<1>5. Got(ring[h][1])'
  <2>1. SameReport(got'[h][Len(got'[h])], ring'[h][1])
    BY <1>1, <1>2, <1>3, <1>h DEF SameReport, Last
  <2>2. QED
    BY <1>3, <2>1 DEF Got
<1>6. ASSUME NEW t \in Transports PROVE Behind(t)'
  <2>1. \A m : Response(m)' <=> Response(m)
    BY <1>1 DEF Response
  <2>2. ASSUME NEW i \in 1 .. Len(ring[t]), ring[t][i].part = 2
        PROVE  \/ i > 1 /\ ring[t][i - 1].msg = ring[t][i].msg /\ ring[t][i - 1].part = 1
               \/ i = 1 /\ Got(ring[t][i])'
               \/ /\ i = 1 /\ Len(got'[t]) > 0
                  /\ Last(got'[t]).msg = ring[t][i].msg /\ Last(got'[t]).part = 1
    <3>1. CASE t = h /\ i = 1
      BY <1>5, <3>1
    <3>2. CASE t = h /\ i # 1
      BY <1>0, <2>2, <3>2 DEF Behind
    <3>3. CASE t # h
      <4>1. got'[t] = got[t]
        BY <1>2, <1>h, <3>3
      <4>2. \/ i > 1 /\ ring[t][i - 1].msg = ring[t][i].msg /\ ring[t][i - 1].part = 1
            \/ i = 1 /\ Got(ring[t][i])
            \/ /\ i = 1 /\ Len(got[t]) > 0
               /\ Last(got[t]).msg = ring[t][i].msg /\ Last(got[t]).part = 1
        BY <1>0, <2>2 DEF Behind
      <4>3. Got(ring[t][i]) => Got(ring[t][i])'
        <5>1. PICK r : r = ring[t][i] /\ r = ring'[t][i]
          BY <1>1
        <5>2. Got(r) => Got(r)'
          BY <1>4
        <5>3. QED
          BY <5>1, <5>2 DEF Got
      <4>4. QED
        BY <4>1, <4>2, <4>3
    <3>4. QED
      BY <3>1, <3>2, <3>3
  <2>3. \A i \in 1 .. Len(ring[t]) : ring[t][i].part = 1 /\ Response(ring[t][i].msg) =>
          \/ i < Len(ring[t]) /\ ring[t][i + 1].msg = ring[t][i].msg /\ ring[t][i + 1].part = 2
          \/ ring[t][i].msg \in cut
    BY <1>0, <1>1 DEF Behind
  <2>4. QED
    BY <1>1, <2>1, <2>2, <2>3 DEF Behind
<1>7. ASSUME NEW t \in Transports PROVE Expected(t)'
  <2>1. CASE t = h
    BY <1>1, <1>h, <2>1 DEF Expected
  <2>2. CASE t # h
    <3>1. got'[t] = got[t] /\ ~(on = t /\ at = "drain_pop") /\ Expected(t)
      BY <1>0, <1>2, <1>h, <2>2
    <3>2. \A m : Response(m)' <=> Response(m)
      BY <1>1 DEF Response
    <3>3. QED
      BY <1>1, <3>1, <3>2 DEF Expected
  <2>3. QED
    BY <2>1, <2>2
<1>8. SecondNext'
  BY <1>1 DEF SecondNext
<1>9. JustSent'
  <2>1. SameReport(Last(got'[h]), ring'[h][1]) /\ Last(got'[h]).session = session'[h]
    BY <1>1, <1>2, <1>3, <1>h DEF SameReport
  <2>2. h = on'
    BY <1>1, <1>h
  <2>3. QED
    BY <1>3, <2>1, <2>2 DEF JustSent
<1>10. QED
  BY <1>6, <1>7, <1>8, <1>9, WriteMessages DEF Whole

\* A report is stamped behind the one that was sent before it.
LEMMA StampWhole ==
  ASSUME OutboundInv, Typed', SendStamp
  PROVE  Whole'
<1> USE DEF shared, history
<1>0. /\ Typed /\ TypeOK /\ Numbered /\ on \in Transports /\ WholeMessages /\ SecondNext
      /\ \A t \in Transports : Behind(t) /\ Expected(t)
      /\ \A t \in Transports : Len(ring[t]) \in Nat /\ Len(got[t]) \in Nat
  BY WholeParts DEF OutboundInv
<1>h. PICK h \in Transports : h = on
  BY <1>0
<1>1. /\ LinkKept /\ UNCHANGED <<on, issued, cut, got>>
      /\ at = "send_stamp" /\ Sending /\ at' # "drain_pop" /\ at' # "send_stamp"
      /\ job.part < Parts(issued[job.msg].kind) =>
           job' = [job EXCEPT !.part = @ + 1] /\ Sending'
      /\ ~(job.part < Parts(issued[job.msg].kind)) => ~Sending'
  BY DEF SendStamp, Sending, LinkKept
<1>2. /\ Len(ring'[h]) = Len(ring[h]) + 1 /\ ring'[h][Len(ring[h]) + 1] = Stamped
      /\ \A i \in 1 .. Len(ring[h]) : ring'[h][i] = ring[h][i]
      /\ \A t \in Transports : t # h => ring'[t] = ring[t]
      /\ Stamped.msg = job.msg /\ Stamped.part = job.part
  BY <1>0, <1>h, StampFacts DEF Stamped
<1>3. /\ job.part \in 1 .. 2
      /\ job.part < Parts(issued[job.msg].kind) <=> job.part = 1 /\ Response(job.msg)
      /\ job.msg \in Nat
  <2>1. Parts(issued[job.msg].kind) \in 1 .. 2
    BY KindParts
  <2>2. job.part \in 1 .. Parts(issued[job.msg].kind)
    BY <1>0, <1>1 DEF Numbered
  <2>3. job.msg \in Nat
    BY <1>0 DEF TypeOK
  <2>4. Parts(issued[job.msg].kind) = 2 <=> Response(job.msg)
    BY DEF Response
  <2>5. QED
    BY <2>1, <2>2, <2>3, <2>4
<1>4. Sending' => job'.msg = job.msg /\ job'.part = 2 /\ job.part = 1 /\ Response(job.msg)
  <2>1. ASSUME Sending' PROVE job'.msg = job.msg /\ job'.part = job.part + 1
    BY <1>0, <1>1, <2>1 DEF TypeOK
  <2>2. QED
    BY <1>1, <1>3, <2>1
<1>5. WholeMessages'
  BY <1>0, <1>1, WholeKept
<1>6. ASSUME NEW t \in Transports PROVE Waiting(t)' => Waiting(t)
  BY <1>0, <1>1, StillWaiting
<1>7. ASSUME NEW t \in Transports, t # h PROVE Behind(t)' /\ Expected(t)'
  BY <1>0, <1>1, <1>2, <1>6, <1>7, <1>h, BehindKept, ExpectedKept
<1>8. Last(ring'[h]) = Stamped /\ Len(ring'[h]) > 0
  BY <1>0, <1>2 DEF Last
<1>9. SecondNext'
  <2>1. Sending' => Last(ring'[h]).msg = job'.msg /\ Last(ring'[h]).part = 1
    BY <1>2, <1>4, <1>8
  <2>2. h = on'
    BY <1>1, <1>h
  <2>3. QED
    BY <1>8, <2>1, <2>2 DEF SecondNext
<1>10. JustSent'
  BY <1>1 DEF JustSent
<1>11. \A m : Response(m)' <=> Response(m)
  BY <1>1 DEF Response
<1>12. \A r : Got(r)' <=> Got(r)
  BY <1>1 DEF Got
<1>13. ASSUME NEW i \in 1 .. Len(ring'[h])
       PROVE  \/ i \in 1 .. Len(ring[h]) /\ ring'[h][i] = ring[h][i]
              \/ i = Len(ring[h]) + 1 /\ ring'[h][i] = Stamped
  BY <1>0, <1>2
<1>14. ASSUME NEW i \in 1 .. Len(ring'[h]), ring'[h][i].part = 2
       PROVE  \/ i > 1 /\ ring'[h][i - 1].msg = ring'[h][i].msg /\ ring'[h][i - 1].part = 1
              \/ i = 1 /\ Got(ring'[h][i])
              \/ /\ i = 1 /\ Len(got[h]) > 0
                 /\ Last(got[h]).msg = ring'[h][i].msg /\ Last(got[h]).part = 1
  <2>1. CASE i \in 1 .. Len(ring[h]) /\ ring'[h][i] = ring[h][i]
    <3>1. CASE i > 1
      <4>1. i - 1 \in 1 .. Len(ring[h])
        BY <1>0, <2>1, <3>1
      <4>2. ring'[h][i - 1] = ring[h][i - 1]
        BY <1>2, <4>1
      <4>3. QED
        BY <1>0, <1>14, <2>1, <3>1, <4>2 DEF Behind
    <3>2. CASE ~(i > 1)
      BY <1>0, <1>14, <2>1, <3>2 DEF Behind
    <3>3. QED
      BY <3>1, <3>2
  <2>2. CASE i = Len(ring[h]) + 1 /\ ring'[h][i] = Stamped
    <3>1. job.part = 2
      BY <1>2, <1>14, <2>2
    <3>2. Len(ring[h]) > 0 /\ Last(ring[h]).msg = job.msg /\ Last(ring[h]).part = 1
      BY <1>0, <1>1, <1>h, <3>1 DEF SecondNext
    <3>3. Len(ring[h]) \in 1 .. Len(ring[h]) /\ i - 1 = Len(ring[h]) /\ i > 1
      BY <1>0, <2>2, <3>2
    <3>4. ring'[h][i - 1] = Last(ring[h])
      BY <1>2, <3>3 DEF Last
    <3>5. QED
      BY <1>2, <2>2, <3>2, <3>3, <3>4
  <2>3. QED
    BY <1>13, <2>1, <2>2
<1>15. ASSUME NEW i \in 1 .. Len(ring'[h]), ring'[h][i].part = 1, Response(ring'[h][i].msg)
       PROVE  \/ /\ i < Len(ring'[h]) /\ ring'[h][i + 1].msg = ring'[h][i].msg
                 /\ ring'[h][i + 1].part = 2
              \/ ring'[h][i].msg \in cut
              \/ /\ i = Len(ring'[h]) /\ Sending' /\ job'.msg = ring'[h][i].msg
                 /\ job'.part = 2
  <2>1. CASE i \in 1 .. Len(ring[h]) /\ ring'[h][i] = ring[h][i]
    <3>1. CASE i < Len(ring[h])
      <4>1. i + 1 \in 1 .. Len(ring[h]) /\ i < Len(ring'[h])
        BY <1>0, <1>2, <2>1, <3>1
      <4>2. ring'[h][i + 1] = ring[h][i + 1]
        BY <1>2, <4>1
      <4>3. \/ ring[h][i + 1].msg = ring[h][i].msg /\ ring[h][i + 1].part = 2
            \/ ring[h][i].msg \in cut
        BY <1>0, <1>15, <2>1, <3>1 DEF Behind
      <4>4. QED
        BY <2>1, <4>1, <4>2, <4>3
    <3>2. CASE i = Len(ring[h])
      <4>1. ring'[h][i + 1] = Stamped /\ i < Len(ring'[h])
        BY <1>0, <1>2, <3>2
      <4>2. ring[h][i].msg \in cut \/ (job.msg = ring[h][i].msg /\ job.part = 2)
        BY <1>0, <1>15, <2>1, <3>2 DEF Behind
      <4>3. QED
        BY <1>2, <2>1, <4>1, <4>2
    <3>3. QED
      BY <1>0, <2>1, <3>1, <3>2
  <2>2. CASE i = Len(ring[h]) + 1 /\ ring'[h][i] = Stamped
    <3>1. job.part = 1 /\ Response(job.msg)
      BY <1>2, <1>15, <2>2
    <3>2. Sending'
      BY <1>1, <1>3, <3>1
    <3>3. QED
      BY <1>2, <1>4, <2>2, <3>2
  <2>3. QED
    BY <1>13, <2>1, <2>2
<1>16. Behind(h)'
  <2>1. h = on' /\ cut' = cut /\ got' = got
    BY <1>1, <1>h
  <2>2. QED
    BY <1>11, <1>12, <1>14, <1>15, <2>1 DEF Behind
<1>17. Expected(h)'
  <2>1. ASSUME Waiting(h)
        PROVE  Len(ring'[h]) > 0 /\ ring'[h][1].msg = Last(got[h]).msg /\ ring'[h][1].part = 2
    <3>1. Len(ring[h]) > 0 /\ ring[h][1].msg = Last(got[h]).msg /\ ring[h][1].part = 2
      BY <1>0, <1>1, <2>1 DEF Expected, Waiting
    <3>2. 1 \in 1 .. Len(ring[h])
      BY <1>0, <3>1
    <3>3. QED
      BY <1>2, <1>8, <3>1, <3>2
  <2>2. CASE Waiting(h)'
    BY <1>1, <1>6, <2>1, <2>2 DEF Expected
  <2>3. CASE ~Waiting(h)'
    BY <2>3, EmptyExpected
  <2>4. QED
    BY <2>2, <2>3
<1>18. QED
  BY <1>5, <1>7, <1>9, <1>10, <1>16, <1>17 DEF Whole

LEMMA WholeStep == OutboundInv /\ [Next]_vars => Whole'
<1> SUFFICES ASSUME OutboundInv, [Next]_vars PROVE Whole'
  OBVIOUS
<1>1. Typed /\ Typed'
  BY TypedStep DEF OutboundInv
<1>2. CASE LinkStep
  BY <1>2, LinkWhole
<1>3. CASE DrainStep
  BY <1>1, <1>3, QuietSteps, ResetWhole, CompareWhole, PopWhole, WriteWhole DEF DrainStep
<1>4. CASE SendReset \/ SendRetryReset \/ SendCheck \/ SendStamp \/ SendRefused
  BY <1>1, <1>4, QuietSteps, ResetWhole, StampWhole, RefusedWhole
<1>5. CASE RetryStep \/ NextTurn \/ RetriesAge \/ UNCHANGED vars
  BY <1>5, QuietSteps, BeginWhole DEF RetryStep
<1>6. ASSUME NEW kind \in Kinds, NEW t \in Transports, Issue(kind, t) PROVE Whole'
  BY <1>6, BeginWhole
<1>7. QED
  BY <1>2, <1>3, <1>4, <1>5, <1>6, NextSteps

LEMMA WholeInit == Init => Whole /\ NoStaleReport
<1> SUFFICES ASSUME Init PROVE Whole /\ NoStaleReport
  OBVIOUS
<1>1. /\ ring = [t \in Transports |-> <<>>] /\ got = [t \in Transports |-> <<>>] /\ at = "work"
  BY DEF Init
<1>2. \A t \in Transports : \A i : i \notin 1 .. Len(ring[t]) /\ i \notin DOMAIN got[t]
  BY <1>1, NoneIn
<1>3. \A t \in Transports : ~(Len(got[t]) > 0)
  BY <1>1
<1>4. WholeMessages /\ NoStaleReport
  BY <1>2 DEF WholeMessages, NoStaleReport
<1>5. \A t \in Transports : Behind(t) /\ Expected(t)
  BY <1>2, <1>3 DEF Behind, Expected
<1>6. SecondNext /\ JustSent
  BY <1>1 DEF SecondNext, JustSent, Sending
<1>7. QED
  BY <1>4, <1>5, <1>6 DEF Whole

-----------------------------------------------------------------------------
(* The theorems.                                                           *)

\* What transmit(), the rings and the retries keep while the callbacks of both
\* transports run between any two of their steps.
THEOREM OutboundInvCorrect == Spec => []OutboundInv
<1>1. Init => OutboundInv
  BY TypedInit, SoundInit, OnceInit, WholeInit DEF OutboundInv
<1>2. OutboundInv /\ [Next]_vars => OutboundInv'
  BY TypedStep, SoundStep, NoStaleStep, OnceStep, WholeStep DEF OutboundInv
<1>3. QED
  BY <1>1, <1>2, PTL DEF Spec

\* No ring outgrows its 24 reports and the retries not their 12 actions: the
\* check of companion_usb_send_rpc() and send_ble_rpc_body() still holds when
\* the report is put into the ring.
THEOREM OutboundTypeCorrect == Spec => []TypeOK
<1>1. OutboundInv => TypeOK
  BY DEF OutboundInv, Typed
<1>2. QED
  BY <1>1, OutboundInvCorrect, PTL

\* service_rpc_queue() and companion_usb_service() deliver to a connection only
\* what was sent to it, save the retries of a key sent over USB, which
\* request_session_reset() does not end.
THEOREM NoStaleCorrect == Spec => []NoStaleReport
<1>1. OutboundInv => NoStaleReport
  BY DEF OutboundInv
<1>2. QED
  BY <1>1, OutboundInvCorrect, PTL

\* A report that was written leaves the ring, or the generation keeps it from
\* being written again; companion_ble_service() repeats no action that was sent.
THEOREM AtMostOnceCorrect == Spec => []AtMostOnce
<1>1. OutboundInv => AtMostOnce
  BY DEF OutboundInv, Once
<1>2. QED
  BY <1>1, OutboundInvCorrect, PTL

\* transmit() gives up at the first report that is refused, so the host never has
\* the second report of a response without the first one, nor another message
\* between the two.
THEOREM WholeMessagesCorrect == Spec => []WholeMessages
<1>1. OutboundInv => WholeMessages
  BY DEF OutboundInv, Whole
<1>2. QED
  BY <1>1, OutboundInvCorrect, PTL
=============================================================================
