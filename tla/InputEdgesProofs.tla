-------------------------- MODULE InputEdgesProofs --------------------------
(***************************************************************************)
(* Theorems about InputEdges, for every layout of the keys, every capacity *)
(* of the input queue, every limit of ghosts and every set of transports.  *)
(***************************************************************************)
EXTENDS InputEdges, FiniteSetTheorems, WellFoundedInduction, NaturalsInduction, TLAPS

-----------------------------------------------------------------------------
(* Types.                                                                  *)

Edges ==
  {e \in [key : Keys, down : BOOLEAN, again : BOOLEAN] : e.again => e.down /\ Repeatable(e.key)}
Places == Wires \cup {None}
Pairs == Wires \X Controls
Hosts == [held : SUBSET Pairs, denied : SUBSET Pairs]
Voices == [mic : BOOLEAN, agent : BOOLEAN, on : Places]
Sticks == [on : Places, due : BOOLEAN]

KeysTyped ==
  /\ backend \in {"matrix", "tca", "missing"}
  /\ down \subseteq Keys /\ held \subseteq Keys
  /\ repeatKey \in {None} \cup {k \in Keys : Repeatable(k)}
  /\ queue \in Seq(Edges) /\ scanned \in Seq(Edges) /\ fifo \in Seq(Edges)
  /\ backend # "tca" => fifo = <<>>
  /\ pc = "push" <=> scanned # <<>>

HostTyped ==
  /\ connected \subseteq Wires
  /\ host \in Hosts
  /\ owner \in [Tracked -> Places] /\ voice \in Voices /\ stick \in Sticks

-----------------------------------------------------------------------------
(* The edges on their way to handle_press(), oldest first, and the keys that *)
(* will still report a release: those the keyboard knows to be down.         *)

Stream == queue \o (scanned \o fifo)

Watched ==
  CASE backend = "matrix" -> held
    [] backend = "tca" -> down
    [] OTHER -> {}

\* What comes next of key k after the first i edges of s is a release.
NextIsUp(s, i, k, watched) ==
  \/ \E j \in i + 1 .. Len(s) : /\ s[j].key = k /\ ~s[j].down
                                /\ \A m \in i + 1 .. j - 1 : s[m].key # k
  \/ k \in watched /\ \A m \in i + 1 .. Len(s) : s[m].key # k

\* The keys whose release is reported and looked at.
Kinds == Tracked \cup {"space"}

\* A press is followed by a release of its key, not by another press.
Paired(s, watched) ==
  \A k \in Kinds : \A i \in 1 .. Len(s) :
    s[i].key = k /\ s[i].down => NextIsUp(s, i, k, watched)

-----------------------------------------------------------------------------
(* What the hosts hold and will be told about.                               *)

Undenied(h) == h.held \ h.denied

\* A key that means k is going to be released.
Coming(k) == \E x \in Kinds : Meaning(x) = k /\ NextIsUp(Stream, 0, x, Watched)

KeyOwned(k) ==
  \A t \in Wires : <<t, Control(k)>> \in Undenied(host) =>
    \/ HeldByVoice(t, Control(k))
    \/ owner[k] = t /\ Coming(k)

MicOwned == \A t \in Wires : <<t, "MIC">> \in Undenied(host) => HeldByVoice(t, "MIC")
StickOwned == \A t \in Wires : <<t, "STICK">> \in Undenied(host) => stick.on = t
ChordUnowned == \A t \in Wires : <<t, "CHORD">> \notin Undenied(host)

Owned == (\A k \in Tracked : KeyOwned(k)) /\ MicOwned /\ StickOwned /\ ChordUnowned

HeldInv == KeysTyped /\ HostTyped /\ Paired(Stream, Watched) /\ Owned

-----------------------------------------------------------------------------
(* The edges to come.                                                        *)

\* Sequence r goes on where s ends.
Extends(r, s) == Len(s) <= Len(r) /\ \A i \in 1 .. Len(s) : r[i] = s[i]

\* Sequence r is s without its n-th member.
Without(r, s, n) ==
  /\ Len(r) = Len(s) - 1
  /\ \A i \in 1 .. n - 1 : r[i] = s[i]
  /\ \A i \in n .. Len(s) - 1 : r[i] = s[i + 1]

\* What is added to s keeps presses and releases of each key in turn.
InTurn(r, s, watched, after) ==
  \A k \in Kinds :
    /\ k \in watched => NextIsUp(r, Len(s), k, after)
    /\ \A i \in Len(s) + 1 .. Len(r) : r[i].key = k /\ r[i].down => NextIsUp(r, i, k, after)

LEMMA ExtendedNext ==
  ASSUME NEW s \in Seq(Edges), NEW r \in Seq(Edges), Extends(r, s), NEW i \in 0 .. Len(s),
         NEW k, NEW watched, NEW after, NextIsUp(s, i, k, watched),
         k \in watched => NextIsUp(r, Len(s), k, after)
  PROVE  NextIsUp(r, i, k, after)
<1>1. CASE \E j \in i + 1 .. Len(s) : /\ s[j].key = k /\ ~s[j].down
                                      /\ \A m \in i + 1 .. j - 1 : s[m].key # k
  <2>1. PICK j \in i + 1 .. Len(s) : /\ s[j].key = k /\ ~s[j].down
                                     /\ \A m \in i + 1 .. j - 1 : s[m].key # k
    BY <1>1
  <2>2. j \in i + 1 .. Len(r) /\ r[j] = s[j]
    BY <2>1 DEF Extends
  <2>3. \A m \in i + 1 .. j - 1 : r[m].key # k
    BY <2>1 DEF Extends
  <2> QED BY <2>1, <2>2, <2>3 DEF NextIsUp
<1>2. CASE k \in watched /\ \A m \in i + 1 .. Len(s) : s[m].key # k
  <2>1. \A m \in i + 1 .. Len(s) : r[m].key # k
    BY <1>2 DEF Extends
  <2>2. NextIsUp(r, Len(s), k, after)
    BY <1>2
  <2>3. CASE k \in after /\ \A m \in Len(s) + 1 .. Len(r) : r[m].key # k
    <3>1. \A m \in i + 1 .. Len(r) : r[m].key # k
      BY <2>1, <2>3 DEF Extends
    <3> QED BY <3>1, <2>3 DEF NextIsUp
  <2>4. CASE \E j \in Len(s) + 1 .. Len(r) : /\ r[j].key = k /\ ~r[j].down
                                             /\ \A m \in Len(s) + 1 .. j - 1 : r[m].key # k
    <3>1. PICK j \in Len(s) + 1 .. Len(r) : /\ r[j].key = k /\ ~r[j].down
                                            /\ \A m \in Len(s) + 1 .. j - 1 : r[m].key # k
      BY <2>4
    <3>2. j \in i + 1 .. Len(r) /\ \A m \in i + 1 .. j - 1 : r[m].key # k
      BY <3>1, <2>1
    <3> QED BY <3>1, <3>2 DEF NextIsUp
  <2> QED BY <2>2, <2>3, <2>4 DEF NextIsUp
<1> QED BY <1>1, <1>2 DEF NextIsUp

LEMMA ExtendedPaired ==
  ASSUME NEW s \in Seq(Edges), NEW r \in Seq(Edges), Extends(r, s),
         NEW watched, NEW after, Paired(s, watched), InTurn(r, s, watched, after)
  PROVE  Paired(r, after)
<1> SUFFICES ASSUME NEW k \in Kinds, NEW i \in 1 .. Len(r), r[i].key = k, r[i].down
             PROVE  NextIsUp(r, i, k, after)
  BY DEF Paired
<1>1. CASE i \in 1 .. Len(s)
  <2>1. NextIsUp(s, i, k, watched)
    BY <1>1 DEF Paired, Extends
  <2> QED BY <1>1, <2>1, ExtendedNext DEF InTurn
<1>2. CASE i \in Len(s) + 1 .. Len(r)
  BY <1>2 DEF InTurn
<1> QED BY <1>1, <1>2

\* An edge that leaves does no harm unless it is the release that was to come.
LEMMA WithoutNext ==
  ASSUME NEW s \in Seq(Edges), NEW r \in Seq(Edges), NEW n \in 1 .. Len(s), Without(r, s, n),
         NEW i \in 0 .. Len(s), NEW k, NEW watched, NextIsUp(s, i, k, watched),
         s[n].down \/ s[n].key # k \/ n <= i
  PROVE  NextIsUp(r, IF n <= i THEN i - 1 ELSE i, k, watched)
<1> DEFINE b == IF n <= i THEN i - 1 ELSE i
<1>0. b \in Nat /\ b <= i /\ i <= b + 1 /\ Len(r) = Len(s) - 1 /\ Len(s) \in Nat /\ Len(r) \in Nat
  <2>1. Len(s) \in Nat /\ Len(r) \in Nat /\ Len(r) = Len(s) - 1
    BY DEF Without
  <2> QED BY <2>1
<1>9. ASSUME NEW m \in b + 1 .. Len(r)
      PROVE  \/ m \in i + 1 .. Len(s) /\ m < n /\ r[m] = s[m]
             \/ m + 1 \in i + 1 .. Len(s) /\ m >= n /\ r[m] = s[m + 1]
  <2>1. CASE m < n
    <3>1. m \in i + 1 .. Len(s) /\ m \in 1 .. n - 1
      BY <2>1, <1>0
    <3> QED BY <2>1, <3>1 DEF Without
  <2>2. CASE m >= n
    <3>1. m + 1 \in i + 1 .. Len(s) /\ m \in n .. Len(s) - 1
      BY <2>2, <1>0
    <3> QED BY <2>2, <3>1 DEF Without
  <2> QED BY <2>1, <2>2, <1>0
<1>1. CASE \E j \in i + 1 .. Len(s) : /\ s[j].key = k /\ ~s[j].down
                                      /\ \A m \in i + 1 .. j - 1 : s[m].key # k
  <2>1. PICK j \in i + 1 .. Len(s) : /\ s[j].key = k /\ ~s[j].down
                                     /\ \A m \in i + 1 .. j - 1 : s[m].key # k
    BY <1>1
  <2>2. j # n
    BY <2>1
  <2> DEFINE h == IF j < n THEN j ELSE j - 1
  <2>3. h \in b + 1 .. Len(r) /\ r[h] = s[j]
    BY <1>0, <2>1, <2>2 DEF Without
  <2>4. ASSUME NEW m \in b + 1 .. h - 1
        PROVE  r[m].key # k
    <3>1. m \in b + 1 .. Len(r)
      BY <2>3, <1>0
    <3>2. CASE m \in i + 1 .. Len(s) /\ m < n /\ r[m] = s[m]
      <4>1. m \in i + 1 .. j - 1
        BY <3>2, <2>2
      <4> QED BY <4>1, <3>2, <2>1
    <3>3. CASE m + 1 \in i + 1 .. Len(s) /\ m >= n /\ r[m] = s[m + 1]
      <4>1. m + 1 \in i + 1 .. j - 1
        BY <3>3, <2>2, <1>0
      <4> QED BY <4>1, <3>3, <2>1
    <3> QED BY <3>1, <3>2, <3>3, <1>9
  <2> QED BY <2>1, <2>3, <2>4 DEF NextIsUp
<1>2. CASE k \in watched /\ \A m \in i + 1 .. Len(s) : s[m].key # k
  <2>1. \A m \in b + 1 .. Len(r) : r[m].key # k
    BY <1>9, <1>2
  <2> QED BY <1>2, <2>1 DEF NextIsUp
<1> QED BY <1>1, <1>2 DEF NextIsUp

LEMMA WithoutPaired ==
  ASSUME NEW s \in Seq(Edges), NEW r \in Seq(Edges), NEW n \in 1 .. Len(s), Without(r, s, n),
         NEW watched, Paired(s, watched), n = 1 \/ s[n].down
  PROVE  Paired(r, watched)
<1> SUFFICES ASSUME NEW k \in Kinds, NEW i \in 1 .. Len(r), r[i].key = k, r[i].down
             PROVE  NextIsUp(r, i, k, watched)
  BY DEF Paired
<1>1. CASE i < n
  <2>1. i \in 1 .. Len(s) /\ r[i] = s[i]
    BY <1>1 DEF Without
  <2>2. NextIsUp(s, i, k, watched)
    BY <2>1 DEF Paired
  <2>3. NextIsUp(r, IF n <= i THEN i - 1 ELSE i, k, watched)
    BY <2>1, <2>2, <1>1, WithoutNext
  <2> QED BY <2>3, <1>1
<1>2. CASE i >= n
  <2>1. i + 1 \in 1 .. Len(s) /\ r[i] = s[i + 1]
    BY <1>2 DEF Without
  <2>2. NextIsUp(s, i + 1, k, watched)
    BY <2>1 DEF Paired
  <2>3. NextIsUp(r, IF n <= i + 1 THEN (i + 1) - 1 ELSE i + 1, k, watched)
    BY <2>1, <2>2, <1>2, WithoutNext
  <2> QED BY <2>3, <1>2
<1> QED BY <1>1, <1>2

-----------------------------------------------------------------------------
(* The edges to come, through a scan, a push and a pop.                      *)

LEMMA ConcatFacts ==
  ASSUME NEW S, NEW p \in Seq(S), NEW a \in Seq(S), NEW q, q = p \o a
  PROVE  /\ q \in Seq(S) /\ Len(q) = Len(p) + Len(a)
         /\ \A i \in 1 .. Len(p) : q[i] = p[i]
         /\ \A i \in 1 .. Len(a) : q[Len(p) + i] = a[i]
  OBVIOUS

\* Three sequences in a row.
LEMMA RowFacts ==
  ASSUME NEW S, NEW q \in Seq(S), NEW c \in Seq(S), NEW f \in Seq(S), NEW s, s = q \o (c \o f)
  PROVE  /\ s \in Seq(S) /\ Len(s) = Len(q) + Len(c) + Len(f)
         /\ \A i \in 1 .. Len(q) : s[i] = q[i]
         /\ \A i \in 1 .. Len(c) : s[Len(q) + i] = c[i]
         /\ \A i \in 1 .. Len(f) : s[Len(q) + Len(c) + i] = f[i]
<1> DEFINE t == c \o f
<1>1. /\ t \in Seq(S) /\ Len(t) = Len(c) + Len(f)
      /\ \A i \in 1 .. Len(c) : t[i] = c[i]
      /\ \A i \in 1 .. Len(f) : t[Len(c) + i] = f[i]
  BY ConcatFacts
<1>2. s = q \o t
  OBVIOUS
<1> HIDE DEF t
<1>7. q \in Seq(S) /\ t \in Seq(S)
  BY <1>1
<1>3. /\ s \in Seq(S) /\ Len(s) = Len(q) + Len(t)
      /\ \A i \in 1 .. Len(q) : s[i] = q[i]
      /\ \A i \in 1 .. Len(t) : s[Len(q) + i] = t[i]
  BY <1>2, <1>7, ConcatFacts, SMT
<1>4. Len(q) \in Nat /\ Len(c) \in Nat /\ Len(f) \in Nat
  OBVIOUS
<1>5. ASSUME NEW i \in 1 .. Len(c)
      PROVE  s[Len(q) + i] = c[i]
  <2>1. i \in 1 .. Len(t)
    BY <1>1, <1>4
  <2> QED BY <2>1, <1>1, <1>3
<1>6. ASSUME NEW i \in 1 .. Len(f)
      PROVE  s[Len(q) + Len(c) + i] = f[i]
  <2>1. Len(c) + i \in 1 .. Len(t) /\ Len(q) + (Len(c) + i) = Len(q) + Len(c) + i
    BY <1>1, <1>4
  <2> QED BY <2>1, <1>1, <1>3
<1>8. Len(s) = Len(q) + Len(c) + Len(f)
  BY <1>1, <1>3, <1>4
<1> QED BY <1>3, <1>8, <1>5, <1>6

LEMMA TailFacts ==
  ASSUME NEW S, NEW q \in Seq(S), q # <<>>
  PROVE  /\ Tail(q) \in Seq(S) /\ Len(q) \in Nat \ {0} /\ Len(Tail(q)) = Len(q) - 1
         /\ Head(q) \in S /\ Head(q) = q[1]
         /\ \A i \in 1 .. Len(q) - 1 : Tail(q)[i] = q[i + 1]
  OBVIOUS

LEMMA AppendFacts ==
  ASSUME NEW S, NEW q \in Seq(S), NEW e \in S
  PROVE  /\ Append(q, e) \in Seq(S) /\ Len(q) \in Nat /\ Len(Append(q, e)) = Len(q) + 1
         /\ Append(q, e)[Len(q) + 1] = e
         /\ \A i \in 1 .. Len(q) : Append(q, e)[i] = q[i]
  OBVIOUS

LEMMA RemoveFacts ==
  ASSUME NEW S, NEW q \in Seq(S), NEW n \in 1 .. Len(q)
  PROVE  RemoveAt(q, n) \in Seq(S) /\ Without(RemoveAt(q, n), q, n)
<1> DEFINE a == SubSeq(q, 1, n - 1)
           b == SubSeq(q, n + 1, Len(q))
<1>1. /\ a \in Seq(S) /\ Len(a) = n - 1
      /\ \A i \in 1 .. n - 1 : a[i] = q[i]
  OBVIOUS
<1>2. /\ b \in Seq(S) /\ Len(b) = Len(q) - n
      /\ \A i \in 1 .. Len(q) - n : b[i] = q[n + i]
  OBVIOUS
<1>3. RemoveAt(q, n) = a \o b
  BY DEF RemoveAt
<1>4. Len(q) \in Nat
  OBVIOUS
<1> HIDE DEF a, b
<1>7. a \in Seq(S) /\ b \in Seq(S)
  BY <1>1, <1>2
<1>5. /\ RemoveAt(q, n) \in Seq(S) /\ Len(RemoveAt(q, n)) = Len(a) + Len(b)
      /\ \A i \in 1 .. Len(a) : RemoveAt(q, n)[i] = a[i]
      /\ \A i \in 1 .. Len(b) : RemoveAt(q, n)[Len(a) + i] = b[i]
  BY <1>3, <1>7, ConcatFacts, SMT
<1>6. ASSUME NEW i \in n .. Len(q) - 1
      PROVE  RemoveAt(q, n)[i] = q[i + 1]
  <2>1. i - (n - 1) \in 1 .. Len(b) /\ Len(a) + (i - (n - 1)) = i /\ n + (i - (n - 1)) = i + 1
        /\ i - (n - 1) \in 1 .. Len(q) - n
    BY <1>1, <1>2, <1>4
  <2>2. RemoveAt(q, n)[Len(a) + (i - (n - 1))] = b[i - (n - 1)]
    BY <2>1, <1>5
  <2>3. b[i - (n - 1)] = q[n + (i - (n - 1))]
    BY <2>1, <1>2
  <2> QED BY <2>1, <2>2, <2>3
<1> QED BY <1>1, <1>2, <1>4, <1>5, <1>6 DEF Without

\* One that is in none of the others leaves a row where it leaves its own part.
LEMMA FirstWithout ==
  ASSUME NEW S, NEW q \in Seq(S), NEW p \in Seq(S), NEW t \in Seq(S),
         NEW n \in 1 .. Len(q), Without(p, q, n)
  PROVE  Without(p \o t, q \o t, n)
<1> DEFINE r == p \o t
           s == q \o t
<1>1. /\ Len(r) = Len(p) + Len(t)
      /\ \A i \in 1 .. Len(p) : r[i] = p[i]
      /\ \A i \in 1 .. Len(t) : r[Len(p) + i] = t[i]
  BY ConcatFacts
<1>2. /\ Len(s) = Len(q) + Len(t)
      /\ \A i \in 1 .. Len(q) : s[i] = q[i]
      /\ \A i \in 1 .. Len(t) : s[Len(q) + i] = t[i]
  BY ConcatFacts
<1>3. Len(p) = Len(q) - 1 /\ Len(q) \in Nat /\ Len(t) \in Nat /\ Len(p) \in Nat
  BY DEF Without
<1> HIDE DEF r, s
<1>4. ASSUME NEW i \in 1 .. n - 1
      PROVE  r[i] = s[i]
  <2>1. i \in 1 .. Len(p) /\ i \in 1 .. Len(q)
    BY <1>3
  <2> QED BY <2>1, <1>1, <1>2 DEF Without
<1>5. ASSUME NEW i \in n .. Len(s) - 1
      PROVE  r[i] = s[i + 1]
  <2>1. CASE i < Len(q)
    <3>1. i \in 1 .. Len(p) /\ i + 1 \in 1 .. Len(q) /\ i \in n .. Len(q) - 1
      BY <2>1, <1>3
    <3> QED BY <3>1, <1>1, <1>2 DEF Without
  <2>2. CASE i >= Len(q)
    <3>1. /\ i - Len(p) \in 1 .. Len(t) /\ Len(p) + (i - Len(p)) = i
          /\ Len(q) + (i - Len(p)) = i + 1
      BY <2>2, <1>2, <1>3
    <3>2. r[Len(p) + (i - Len(p))] = t[i - Len(p)]
      BY <3>1, <1>1
    <3>3. s[Len(q) + (i - Len(p))] = t[i - Len(p)]
      BY <3>1, <1>2
    <3> QED BY <3>1, <3>2, <3>3
  <2> QED BY <2>1, <2>2, <1>3
<1>6. Without(r, s, n)
  BY <1>1, <1>2, <1>3, <1>4, <1>5 DEF Without
<1> QED BY <1>6 DEF r, s

-----------------------------------------------------------------------------
(* What a scan finds.                                                        *)

LEMMA FewKeys == IsFiniteSet(Keys)
<1>1. IsFiniteSet({"digit"})
  BY FS_Singleton
<1>2. IsFiniteSet({"digit"} \cup {"action"})
  BY <1>1, FS_AddElement
<1>3. IsFiniteSet(({"digit"} \cup {"action"}) \cup {"chord"})
  BY <1>2, FS_AddElement
<1> DEFINE A == ({"digit"} \cup {"action"}) \cup {"chord"}
<1>4. IsFiniteSet(A \cup {"enter"})
  BY <1>3, FS_AddElement
<1>5. IsFiniteSet((A \cup {"enter"}) \cup {"arrow"})
  BY <1>4, FS_AddElement
<1> DEFINE B == (A \cup {"enter"}) \cup {"arrow"}
<1>6. IsFiniteSet(B \cup {"dial"})
  BY <1>5, FS_AddElement
<1>7. IsFiniteSet((B \cup {"dial"}) \cup {"settings"})
  BY <1>6, FS_AddElement
<1> DEFINE C == (B \cup {"dial"}) \cup {"settings"}
<1>8. IsFiniteSet(C \cup {"esc"})
  BY <1>7, FS_AddElement
<1>9. IsFiniteSet((C \cup {"esc"}) \cup {"other"})
  BY <1>8, FS_AddElement
<1> DEFINE D == (C \cup {"esc"}) \cup {"other"}
<1>10. IsFiniteSet(D \cup {"space"})
  BY <1>9, FS_AddElement
<1>11. Keys \in SUBSET (D \cup {"space"})
  BY InputEdgesAssumption DEF AllKinds
<1> QED BY <1>10, <1>11, FS_Subset

\* One edge of each key that rose or fell.
OneEach(edges) == \A e, f \in edges : e.key = f.key => e = f

LEMMA ScanFacts ==
  ASSUME NEW edges \in SUBSET Edges, OneEach(edges), NEW s \in InScanOrder(edges)
  PROVE  /\ s \in Seq(Edges)
         /\ \A i \in 1 .. Len(s) : s[i] \in edges
         /\ \A e \in edges : \E i \in 1 .. Len(s) : s[i] = e
         /\ \A i, j \in 1 .. Len(s) : s[i].key = s[j].key => i = j
<1> DEFINE key == [e \in edges |-> e.key]
           n == Cardinality(edges)
<1>1. key \in Injection(edges, Keys)
  BY DEF Injection, IsInjective, OneEach, Edges
<1>2. IsFiniteSet(edges)
  BY <1>1, FewKeys, FS_Injection
<1>3. n \in Nat
  BY <1>2, FS_CardinalityType
<1>4. s \in [1 .. n -> edges] /\ ToSet(s) = edges
  BY DEF InScanOrder
<1>5. IsFiniteSet(1 .. n) /\ Cardinality(1 .. n) = n
  BY <1>3, FS_Interval
<1>6. s \in Surjection(1 .. n, edges)
  BY <1>4 DEF Surjection, ToSet
<1>7. s \in Injection(1 .. n, edges)
  BY <1>5, <1>6, FS_SurjSameCardinalityImpliesInj
<1> HIDE DEF n
<1>8. s \in Seq(Edges) /\ Len(s) = n
  BY <1>3, <1>4
<1>9. \A e \in edges : \E i \in 1 .. n : s[i] = e
  BY <1>4 DEF ToSet
<1>10. \A i, j \in 1 .. n : s[i].key = s[j].key => i = j
  BY <1>4, <1>7 DEF OneEach, Injection, IsInjective
<1> QED BY <1>4, <1>8, <1>9, <1>10

LEMMA Opposite ==
  ASSUME NEW up \in SUBSET Keys, NEW fallen \in SUBSET Keys, up \cap fallen = {}
  PROVE  /\ Rising(up) \cup Falling(fallen) \in SUBSET Edges
         /\ OneEach(Rising(up) \cup Falling(fallen))
         /\ \A e \in Rising(up) \cup Falling(fallen) :
              IF e.down THEN e.key \in up ELSE e.key \in fallen
         /\ \A k \in up : Edge(k, TRUE) \in Rising(up)
         /\ \A k \in fallen \cap Kinds : Edge(k, FALSE) \in Falling(fallen)
<1> DEFINE both == Rising(up) \cup Falling(fallen)
<1>1. ASSUME NEW e \in Rising(up)
      PROVE  /\ e \in Edges /\ e.down /\ e.key \in up
             /\ e = [key |-> e.key, down |-> TRUE, again |-> FALSE]
  <2>1. PICK k \in up : e = [key |-> k, down |-> TRUE, again |-> FALSE]
    BY DEF Rising, Edge
  <2>2. k \in Keys
    OBVIOUS
  <2> QED BY <2>1, <2>2 DEF Edges
<1>2. ASSUME NEW e \in Falling(fallen)
      PROVE  /\ e \in Edges /\ ~e.down /\ e.key \in fallen
             /\ e = [key |-> e.key, down |-> FALSE, again |-> FALSE]
  <2>1. PICK k \in fallen : e = [key |-> k, down |-> FALSE, again |-> FALSE]
    BY DEF Falling, Edge
  <2>2. k \in Keys
    OBVIOUS
  <2> QED BY <2>1, <2>2 DEF Edges
<1>3. \A e \in both : e \in Edges /\ (IF e.down THEN e.key \in up ELSE e.key \in fallen)
  BY <1>1, <1>2
<1>4. ASSUME NEW e \in both, NEW f \in both, e.key = f.key
      PROVE  e = f
  <2>1. CASE e \in Rising(up)
    <3>1. f \in Rising(up)
      BY <2>1, <1>1, <1>2, <1>4
    <3> QED BY <2>1, <3>1, <1>1, <1>4
  <2>2. CASE e \in Falling(fallen)
    <3>1. f \in Falling(fallen)
      BY <2>2, <1>1, <1>2, <1>4
    <3> QED BY <2>2, <3>1, <1>2, <1>4
  <2> QED BY <2>1, <2>2
<1>5. \A k \in up : Edge(k, TRUE) \in Rising(up)
  BY DEF Rising
<1>6. \A k \in fallen \cap Kinds : Edge(k, FALSE) \in Falling(fallen)
  BY DEF Falling, Kinds, Tracked, NeedsRelease, Meaning
<1> QED BY <1>3, <1>4, <1>5, <1>6 DEF OneEach

-----------------------------------------------------------------------------
(* The queue.                                                                *)

\* A set of naturals has a least member.
LEMMA LeastFacts ==
  ASSUME NEW T \in SUBSET Nat, T # {}
  PROVE  Min(T) \in T /\ \A y \in T : Min(T) <= y
<1> DEFINE R == OpToRel(<, Nat)
<1>1. IsWellFoundedOn(R, Nat)
  BY NatLessThanWellFounded
<1>2. \A x, y \in Nat : y < x => <<y, x>> \in R
  BY DEF OpToRel
<1> HIDE DEF R
<1>3. PICK x \in T : \A y \in T : ~(<<y, x>> \in R)
  BY <1>1, WFMin
<1>4. \A y \in T : ~(y < x)
  BY <1>2, <1>3
<1>5. \A y \in T : x <= y
  BY <1>4
<1> QED BY <1>5 DEF Min

LEMMA VictimFacts ==
  ASSUME NEW q \in Seq(Edges), Full(q)
  PROVE  /\ Victim(q) \in 1 .. Len(q) /\ q # <<>>
         /\ \/ Droppable(q[Victim(q)])
            \/ Victim(q) = 1 /\ \A i \in 1 .. Len(q) : ~Droppable(q[i])
<1> DEFINE candidates == {i \in DOMAIN q : Droppable(q[i])}
<1>1. DOMAIN q = 1 .. Len(q) /\ Len(q) \in Nat \ {0} /\ q # <<>>
  BY InputEdgesAssumption DEF Full
<1>2. candidates \in SUBSET Nat
  BY <1>1
<1>3. CASE candidates = {}
  BY <1>1, <1>3 DEF Victim
<1>4. CASE candidates # {}
  <2>1. Min(candidates) \in candidates
    BY <1>2, <1>4, LeastFacts
  <2>2. Victim(q) = Min(candidates)
    BY <1>4 DEF Victim
  <2> QED BY <1>1, <2>1, <2>2
<1> QED BY <1>3, <1>4

\* What push() makes of the queue.
LEMMA PushFacts ==
  ASSUME NEW q \in Seq(Edges), NEW e \in Edges
  PROVE  /\ QueuePush(q, e) \in Seq(Edges)
         /\ ~Full(q) => QueuePush(q, e) = Append(q, e)
         /\ Full(q) /\ (e.again \/ e.down) => QueuePush(q, e) = q
         /\ Full(q) /\ ~(e.again \/ e.down) =>
              /\ QueuePush(q, e) = Append(RemoveAt(q, Victim(q)), e)
              /\ RemoveAt(q, Victim(q)) \in Seq(Edges)
<1>1. CASE ~Full(q)
  BY <1>1, AppendFacts DEF QueuePush
<1>2. CASE Full(q) /\ (e.again \/ e.down)
  BY <1>2 DEF QueuePush
<1>3. CASE Full(q) /\ ~(e.again \/ e.down)
  <2>1. RemoveAt(q, Victim(q)) \in Seq(Edges)
    BY <1>3, VictimFacts, RemoveFacts
  <2>2. QueuePush(q, e) = Append(RemoveAt(q, Victim(q)), e)
    BY <1>3 DEF QueuePush
  <2> QED BY <1>3, <2>1, <2>2, AppendFacts
<1> QED BY <1>1, <1>2, <1>3

-----------------------------------------------------------------------------
(* Types: the keys.                                                          *)

LEMMA EdgeTyped ==
  ASSUME NEW k \in Keys, NEW d \in BOOLEAN
  PROVE  Edge(k, d) \in Edges
  BY DEF Edge, Edges

LEMMA StrokeKeys ==
  ASSUME KeysTyped, NEW k \in Keys, KeyDown(k) \/ KeyUp(k)
  PROVE  KeysTyped'
<1>1. PICK d \in BOOLEAN : Report(k, d)
  BY DEF KeyDown, KeyUp
<1>2. fifo' \in Seq(Edges) /\ (backend # "tca" => fifo' = <<>>)
  BY <1>1, EdgeTyped, AppendFacts DEF Report, KeysTyped
<1>3. /\ down' \subseteq Keys
      /\ UNCHANGED <<backend, held, repeatKey, scanned, queue, pc>>
  BY DEF KeyDown, KeyUp, KeysTyped
<1> QED BY <1>2, <1>3 DEF KeysTyped

\* What a scan of the matrix adds: one edge for each key that rose or fell, and
\* perhaps the repetition of a key that no host holds.
Found(up, fallen, s) ==
  \E found \in InScanOrder(Rising(up) \cup Falling(fallen)) :
    \/ s = found
    \/ \E e \in Edges : e.again /\ s = Append(found, e)

LEMMA ScanFound ==
  ASSUME KeysTyped, NEW repeats \in BOOLEAN, MatrixScan(repeats) \/ GhostScan(repeats)
  PROVE  \/ held' = down /\ Found(down \ held, held \ down, scanned')
         \/ held' = {} /\ Found({}, held, scanned')
<1>1. CASE MatrixScan(repeats)
  <2> DEFINE e == [key |-> repeatKey, down |-> TRUE, again |-> TRUE]
  <2>1. repeats => e \in Edges /\ e.again
    <3>1. ASSUME repeats
          PROVE  repeatKey \in Keys /\ Repeatable(repeatKey)
      BY <1>1, <3>1, InputEdgesAssumption DEF KeysTyped, MatrixScan, AllKinds, None
    <3> QED BY <3>1 DEF Edges
  <2>2. PICK found \in InScanOrder(Rising(down \ held) \cup Falling(held \ down)) :
          scanned' = IF repeats THEN Append(found, e) ELSE found
    BY <1>1 DEF MatrixScan
  <2>3. Found(down \ held, held \ down, scanned')
    BY <2>1, <2>2 DEF Found
  <2> QED BY <1>1, <2>3 DEF MatrixScan
<1>2. CASE GhostScan(repeats)
  <2>1. Rising({}) \cup Falling(held) = Falling(held)
    BY DEF Rising
  <2>2. scanned' \in InScanOrder(Rising({}) \cup Falling(held))
    BY <1>2, <2>1 DEF GhostScan
  <2> QED BY <1>2, <2>2 DEF GhostScan, Found
<1> QED BY <1>1, <1>2

\* What was found, key by key: up and fallen tell whether the edge is a press.
LEMMA FoundFacts ==
  ASSUME NEW up \in SUBSET Keys, NEW fallen \in SUBSET Keys, up \cap fallen = {},
         NEW s, Found(up, fallen, s)
  PROVE  /\ s \in Seq(Edges)
         /\ \A k \in Kinds : \A i \in 1 .. Len(s) : s[i].key = k =>
              /\ IF s[i].down THEN k \in up ELSE k \in fallen
              /\ \A j \in 1 .. Len(s) : s[j].key = k => i = j
         /\ \A k \in Kinds \cap fallen : \E i \in 1 .. Len(s) : s[i].key = k /\ ~s[i].down
<1> DEFINE edges == Rising(up) \cup Falling(fallen)
<1>1. PICK found \in InScanOrder(edges) :
        \/ s = found
        \/ \E e \in Edges : e.again /\ s = Append(found, e)
  BY DEF Found
<1>2. /\ edges \in SUBSET Edges /\ OneEach(edges)
      /\ \A e \in edges : IF e.down THEN e.key \in up ELSE e.key \in fallen
      /\ \A k \in fallen \cap Kinds : Edge(k, FALSE) \in edges
  BY Opposite
<1> HIDE DEF edges
<1>3. /\ found \in Seq(Edges)
      /\ \A i \in 1 .. Len(found) : found[i] \in edges
      /\ \A e \in edges : \E i \in 1 .. Len(found) : found[i] = e
      /\ \A i, j \in 1 .. Len(found) : found[i].key = found[j].key => i = j
  BY <1>2, ScanFacts
<1>4. ASSUME NEW k \in Kinds \cap fallen
      PROVE  \E i \in 1 .. Len(found) : found[i].key = k /\ ~found[i].down
  <2>1. PICK i \in 1 .. Len(found) : found[i] = Edge(k, FALSE)
    BY <1>2, <1>3
  <2> QED BY <2>1 DEF Edge
<1>5. Len(found) \in Nat
  BY <1>3
<1>6. CASE s = found
  BY <1>2, <1>3, <1>4, <1>6
<1>7. CASE \E e \in Edges : e.again /\ s = Append(found, e)
  <2>1. PICK e \in Edges : e.again /\ s = Append(found, e)
    BY <1>7
  <2>2. /\ s \in Seq(Edges) /\ Len(s) = Len(found) + 1 /\ s[Len(found) + 1] = e
        /\ \A i \in 1 .. Len(found) : s[i] = found[i]
    BY <1>3, <2>1, AppendFacts
  <2>3. e.key \notin Kinds
    BY <2>1 DEF Edges, Repeatable, Kinds, Tracked
  <2>4. \A i \in 1 .. Len(s) : s[i].key \in Kinds => i \in 1 .. Len(found)
    BY <2>2, <2>3, <1>5
  <2>5. \A i \in 1 .. Len(found) : i \in 1 .. Len(s)
    BY <2>2, <1>5
  <2> QED BY <1>2, <1>3, <1>4, <2>2, <2>4, <2>5
<1> QED BY <1>1, <1>6, <1>7

LEMMA ScanKeys ==
  ASSUME KeysTyped, NEW repeats \in BOOLEAN, Scan(repeats)
  PROVE  KeysTyped'
<1>1. scanned = <<>> /\ pc = "next"
  BY DEF Scan, KeysTyped
<1>2. /\ backend' \in {"matrix", "tca", "missing"} /\ fifo' = <<>> /\ down' = down /\ queue' = queue
      /\ pc' = "push" <=> scanned' # <<>>
  BY DEF Scan, KeysTyped
<1>3. fifo' \in Seq(Edges)
  BY <1>2
<1>4. CASE backend = "matrix"
  <2>1. MatrixScan(repeats) \/ GhostScan(repeats)
    BY <1>4 DEF Scan
  <2>2. down \ held \in SUBSET Keys /\ held \ down \in SUBSET Keys /\ held \in SUBSET Keys
        /\ {} \in SUBSET Keys /\ down \in SUBSET Keys
        /\ (down \ held) \cap (held \ down) = {} /\ {} \cap held = {}
    BY DEF KeysTyped
  <2>6. ASSUME Found(down \ held, held \ down, scanned')
        PROVE  scanned' \in Seq(Edges)
    <3> DEFINE up == down \ held
               fallen == held \ down
    <3>1. up \in SUBSET Keys /\ fallen \in SUBSET Keys /\ up \cap fallen = {}
          /\ Found(up, fallen, scanned')
      BY <2>2, <2>6
    <3> HIDE DEF up, fallen
    <3> QED BY <3>1, FoundFacts
  <2>7. ASSUME Found({}, held, scanned')
        PROVE  scanned' \in Seq(Edges)
    BY <2>2, <2>7, FoundFacts
  <2>3. scanned' \in Seq(Edges)
    BY <2>1, <2>6, <2>7, ScanFound
  <2>4. held' \subseteq Keys
    BY <2>1, <2>2 DEF MatrixScan, GhostScan
  <2>5. repeatKey' \in {None} \cup {k \in Keys : Repeatable(k)}
    <3>1. ASSUME NEW k \in Keys \cup {None}, Repeating(k)
          PROVE  k \in {None} \cup {r \in Keys : Repeatable(r)}
      BY <3>1 DEF Repeating, KeysTyped
    <3> QED BY <2>1, <3>1 DEF MatrixScan, GhostScan
  <2> QED BY <1>2, <1>3, <2>2, <2>3, <2>4, <2>5 DEF KeysTyped
<1>5. CASE backend # "matrix"
  <2>1. scanned' \in Seq(Edges) /\ UNCHANGED <<held, repeatKey>>
    BY <1>5 DEF Scan, TcaScan, RetryInit, KeysTyped
  <2> QED BY <1>2, <1>3, <2>1 DEF KeysTyped
<1> QED BY <1>4, <1>5

LEMMA PushKeys ==
  ASSUME KeysTyped, PushEdge
  PROVE  KeysTyped'
<1>1. scanned # <<>> /\ scanned \in Seq(Edges) /\ queue \in Seq(Edges)
  BY DEF PushEdge, KeysTyped
<1>2. Head(scanned) \in Edges /\ Tail(scanned) \in Seq(Edges)
  BY <1>1, TailFacts
<1>3. queue' \in Seq(Edges)
  BY <1>1, <1>2, PushFacts DEF PushEdge
<1>4. scanned' \in Seq(Edges) /\ (pc' = "push" <=> scanned' # <<>>)
  BY <1>2 DEF PushEdge
<1>5. UNCHANGED <<backend, down, held, repeatKey, fifo>>
  BY DEF PushEdge, keyboard
<1> QED BY <1>3, <1>4, <1>5 DEF KeysTyped

\* The steps that leave the keyboard and what a scan has found alone.
LEMMA OtherKeys ==
  ASSUME KeysTyped, UNCHANGED <<keyboard, scanned>>, queue' \in Seq(Edges),
         pc' = "push" <=> pc = "push"
  PROVE  KeysTyped'
  BY DEF KeysTyped, keyboard

-----------------------------------------------------------------------------
(* What the hosts hold, through a press, a release and a loss.               *)

LEMMA DenyFacts ==
  ASSUME NEW h \in Hosts, NEW t, NEW c
  PROVE  /\ Denied(h, t, c) \in Hosts
         /\ Undenied(Denied(h, t, c)) = Undenied(h) \ {<<t, c>>}
<1>1. Denied(h, t, c) = [held |-> h.held, denied |-> h.denied \cup ({<<t, c>>} \cap h.held)]
  BY DEF Denied, Hosts
<1> QED BY <1>1 DEF Hosts, Undenied

LEMMA ReleaseFacts ==
  ASSUME connected \subseteq Wires, NEW h \in Hosts, NEW t \in Places, NEW c \in Controls,
         NEW g \in ReleaseOn(h, t, c)
  PROVE  g \in Hosts /\ Undenied(g) \subseteq Undenied(h) /\ <<t, c>> \notin Undenied(g)
<1>1. CASE t = None
  <2>1. g = h
    BY <1>1 DEF ReleaseOn
  <2>2. <<t, c>> \notin h.held
    BY <1>1, InputEdgesAssumption DEF Hosts, Pairs
  <2> QED BY <2>1, <2>2 DEF Undenied
<1>2. CASE t # None
  <2>1. g = Denied(h, t, c) \/ g = Released(h, t, c)
    BY <1>2 DEF ReleaseOn
  <2>2. CASE g = Denied(h, t, c)
    BY <2>2, DenyFacts
  <2>3. CASE g = Released(h, t, c)
    BY <2>3 DEF Released, Hosts, Undenied
  <2> QED BY <2>1, <2>2, <2>3
<1> QED BY <1>1, <1>2

LEMMA PressFacts ==
  ASSUME connected \subseteq Wires, NEW h \in Hosts, NEW t, NEW c \in Controls,
         NEW p \in PressOn(h, t, c)
  PROVE  /\ p.host \in Hosts /\ p.sent \in BOOLEAN
         /\ p.sent => t \in Wires /\ p.host = Pressed(h, t, c)
         /\ ~p.sent => p.host = h
<1>1. CASE p = [host |-> h, sent |-> FALSE]
  BY <1>1
<1>2. CASE p = [host |-> Pressed(h, t, c), sent |-> TRUE] /\ t \in connected
  <2>1. Pressed(h, t, c) \in Hosts
    BY <1>2 DEF Pressed, Hosts, Pairs
  <2> QED BY <1>2, <2>1
<1> QED BY <1>1, <1>2 DEF PressOn

LEMMA PressedFacts ==
  ASSUME NEW h \in Hosts, NEW t, NEW c
  PROVE  Undenied(Pressed(h, t, c)) = Undenied(h) \cup {<<t, c>>}
  BY DEF Pressed, Hosts, Undenied

LEMMA PressedTyped ==
  ASSUME NEW h \in Hosts, NEW t \in Wires, NEW c \in Controls
  PROVE  Pressed(h, t, c) \in Hosts
  BY DEF Pressed, Hosts, Pairs

LEMMA VoiceReleaseFacts ==
  ASSUME HostTyped, NEW h \in Hosts, NEW g \in VoiceReleased(h)
  PROVE  /\ g \in Hosts /\ Undenied(g) \subseteq Undenied(h)
         /\ voice.mic => <<voice.on, "MIC">> \notin Undenied(g)
         /\ voice.agent => <<voice.on, "AG">> \notin Undenied(g)
<1>0. voice.on \in Places /\ {"MIC", "AG"} \subseteq Controls /\ connected \subseteq Wires
  BY DEF HostTyped, Voices, Controls
<1>1. PICK f \in IF voice.mic THEN ReleaseOn(h, voice.on, "MIC") ELSE {h} :
        g \in IF voice.agent THEN ReleaseOn(f, voice.on, "AG") ELSE {f}
  BY DEF VoiceReleased
<1>2. f \in Hosts /\ Undenied(f) \subseteq Undenied(h)
      /\ (voice.mic => <<voice.on, "MIC">> \notin Undenied(f))
  <2>1. CASE voice.mic
    BY <1>0, <1>1, <2>1, ReleaseFacts
  <2>2. CASE ~voice.mic
    BY <1>1, <2>2
  <2> QED BY <2>1, <2>2
<1>3. g \in Hosts /\ Undenied(g) \subseteq Undenied(f)
      /\ (voice.agent => <<voice.on, "AG">> \notin Undenied(g))
  <2>1. CASE voice.agent
    BY <1>0, <1>1, <1>2, <2>1, ReleaseFacts
  <2>2. CASE ~voice.agent
    BY <1>1, <1>2, <2>2
  <2> QED BY <2>1, <2>2
<1> QED BY <1>2, <1>3

\* What was going to be released still is.
GoesOn == \A k \in Kinds : NextIsUp(Stream, 0, k, Watched) => NextIsUp(Stream', 0, k, Watched')

LEMMA ComesStill ==
  ASSUME GoesOn, NEW k, Coming(k)
  PROVE  Coming(k)'
<1>1. PICK x \in Kinds : Meaning(x) = k /\ NextIsUp(Stream, 0, x, Watched)
  BY DEF Coming
<1>2. NextIsUp(Stream', 0, x, Watched')
  BY <1>1 DEF GoesOn
<1> QED BY <1>1, <1>2 DEF Coming

LEMMA Loses ==
  ASSUME HostTyped, Owned, connected' \subseteq Wires, host' \in Hosts,
         Undenied(host') \subseteq Undenied(host), UNCHANGED <<owner, voice>>,
         stick' \in Sticks, stick'.on = stick.on, GoesOn
  PROVE  HostTyped' /\ Owned'
<1>1. HostTyped'
  BY DEF HostTyped
<1>2. \A t, c : HeldByVoice(t, c)' = HeldByVoice(t, c)
  BY DEF HeldByVoice
<1>3. ASSUME NEW k \in Tracked
      PROVE  KeyOwned(k)'
  <2> SUFFICES ASSUME NEW t \in Wires, <<t, Control(k)>> \in Undenied(host'),
                      ~HeldByVoice(t, Control(k))'
               PROVE  owner'[k] = t /\ Coming(k)'
    BY DEF KeyOwned
  <2>1. owner[k] = t /\ Coming(k)
    BY <1>2 DEF Owned, KeyOwned
  <2> QED BY <2>1, ComesStill
<1>4. MicOwned'
  BY <1>2 DEF Owned, MicOwned
<1>5. StickOwned' /\ ChordUnowned'
  BY DEF Owned, StickOwned, ChordUnowned
<1> QED BY <1>1, <1>3, <1>4, <1>5 DEF Owned

-----------------------------------------------------------------------------
(* The edges to come, step by step.                                          *)

InStep == GoesOn /\ (Paired(Stream, Watched) => Paired(Stream', Watched'))

LEMMA StreamTyped ==
  ASSUME KeysTyped
  PROVE  /\ Stream \in Seq(Edges) /\ Len(Stream) = Len(queue) + Len(scanned) + Len(fifo)
         /\ \A i \in 1 .. Len(queue) : Stream[i] = queue[i]
         /\ \A i \in 1 .. Len(scanned) : Stream[Len(queue) + i] = scanned[i]
         /\ \A i \in 1 .. Len(fifo) : Stream[Len(queue) + Len(scanned) + i] = fifo[i]
<1>1. queue \in Seq(Edges) /\ scanned \in Seq(Edges) /\ fifo \in Seq(Edges)
  BY DEF KeysTyped
<1> QED BY <1>1, RowFacts DEF Stream

LEMMA StreamTypedNext ==
  ASSUME KeysTyped'
  PROVE  /\ Stream' \in Seq(Edges) /\ Len(Stream') = Len(queue') + Len(scanned') + Len(fifo')
         /\ \A i \in 1 .. Len(queue') : Stream'[i] = queue'[i]
         /\ \A i \in 1 .. Len(scanned') : Stream'[Len(queue') + i] = scanned'[i]
         /\ \A i \in 1 .. Len(fifo') : Stream'[Len(queue') + Len(scanned') + i] = fifo'[i]
<1>1. queue' \in Seq(Edges) /\ scanned' \in Seq(Edges) /\ fifo' \in Seq(Edges)
  BY DEF KeysTyped
<1>2. Stream' = queue' \o (scanned' \o fifo')
  BY DEF Stream
<1> QED BY <1>1, <1>2, RowFacts

LEMMA GoOn ==
  ASSUME Stream \in Seq(Edges), Stream' \in Seq(Edges), Extends(Stream', Stream),
         InTurn(Stream', Stream, Watched, Watched')
  PROVE  InStep
<1>1. ASSUME NEW k \in Kinds, NextIsUp(Stream, 0, k, Watched)
      PROVE  NextIsUp(Stream', 0, k, Watched')
  <2>1. k \in Watched => NextIsUp(Stream', Len(Stream), k, Watched')
    BY DEF InTurn
  <2>2. 0 \in 0 .. Len(Stream)
    OBVIOUS
  <2> QED BY <1>1, <2>1, <2>2, ExtendedNext
<1>2. Paired(Stream, Watched) => Paired(Stream', Watched')
  BY ExtendedPaired
<1> QED BY <1>1, <1>2 DEF InStep, GoesOn

\* Nothing is added, and the keyboard knows of at least the same keys.
LEMMA SameStream ==
  ASSUME Stream \in Seq(Edges), Stream' = Stream, Watched \cap Kinds \subseteq Watched'
  PROVE  InStep
<1>1. Extends(Stream', Stream) /\ Len(Stream') = Len(Stream) /\ Len(Stream) \in Nat
  BY DEF Extends
<1>2. ASSUME NEW k \in Kinds, k \in Watched
      PROVE  NextIsUp(Stream', Len(Stream), k, Watched')
  BY <1>1, <1>2 DEF NextIsUp
<1>3. InTurn(Stream', Stream, Watched, Watched')
  BY <1>1, <1>2 DEF InTurn
<1> QED BY <1>1, <1>3, GoOn

LEMMA OneMore ==
  ASSUME NEW s \in Seq(Edges), NEW r \in Seq(Edges), Extends(r, s), Len(r) = Len(s) + 1,
         NEW e, e = r[Len(s) + 1], NEW watched, NEW after,
         \A x \in Kinds \cap watched : IF x = e.key THEN ~e.down ELSE x \in after,
         e.down => e.key \in after
  PROVE  InTurn(r, s, watched, after)
<1>0. Len(s) \in Nat
  OBVIOUS
<1>1. ASSUME NEW x \in Kinds, x \in watched
      PROVE  NextIsUp(r, Len(s), x, after)
  <2>1. CASE x = e.key
    <3>1. ~e.down
      BY <1>1, <2>1
    <3>2. Len(s) + 1 \in Len(s) + 1 .. Len(r) /\ \A m \in Len(s) + 1 .. (Len(s) + 1) - 1 : r[m].key # x
      BY <1>0
    <3> QED BY <2>1, <3>1, <3>2 DEF NextIsUp
  <2>2. CASE x # e.key
    <3>1. x \in after
      BY <1>1, <2>2
    <3>2. \A m \in Len(s) + 1 .. Len(r) : m = Len(s) + 1
      BY <1>0
    <3> QED BY <2>2, <3>1, <3>2 DEF NextIsUp
  <2> QED BY <2>1, <2>2
<1>2. ASSUME NEW x \in Kinds, NEW i \in Len(s) + 1 .. Len(r), r[i].key = x, r[i].down
      PROVE  NextIsUp(r, i, x, after)
  <2>1. i = Len(s) + 1
    BY <1>0
  <2>2. \A m \in i + 1 .. Len(r) : r[m].key # x
    BY <2>1, <1>0
  <2> QED BY <1>2, <2>1, <2>2 DEF NextIsUp
<1> QED BY <1>1, <1>2 DEF InTurn

LEMMA StrokeStream ==
  ASSUME KeysTyped, KeysTyped', NEW k \in Keys, KeyDown(k) \/ KeyUp(k)
  PROVE  InStep
<1>1. queue' = queue /\ scanned' = scanned /\ backend' = backend /\ held' = held /\ scanned = <<>>
  BY DEF KeyDown, KeyUp, KeysTyped
<1>2. Stream \in Seq(Edges) /\ Stream' \in Seq(Edges)
  BY StreamTyped, StreamTypedNext
<1>3. CASE fifo' = fifo
  <2>1. Stream' = Stream
    BY <1>1, <1>3 DEF Stream
  <2>2. Watched \cap Kinds \subseteq Watched'
    <3>1. CASE backend # "tca"
      BY <1>1, <3>1 DEF Watched
    <3>2. CASE backend = "tca"
      <4>1. Watched = down /\ Watched' = down'
        BY <1>1, <3>2 DEF Watched
      <4>2. CASE KeyDown(k)
        BY <4>1, <4>2 DEF KeyDown
      <4>3. CASE KeyUp(k)
        <5>1. fifo \in Seq(Edges) /\ (NeedsRelease(k) => fifo' = Append(fifo, Edge(k, FALSE)))
          BY <3>2, <4>3 DEF KeyUp, Report, KeysTyped
        <5>2. Edge(k, FALSE) \in Edges
          BY EdgeTyped
        <5>4. Len(Append(fifo, Edge(k, FALSE))) = Len(fifo) + 1 /\ Len(fifo) \in Nat
          BY <5>1, <5>2, AppendFacts
        <5>3. ~NeedsRelease(k)
          <6> SUFFICES ASSUME NeedsRelease(k)
                       PROVE  FALSE
            OBVIOUS
          <6>1. Append(fifo, Edge(k, FALSE)) = fifo
            BY <1>3, <5>1
          <6>2. Len(fifo) = Len(fifo) + 1
            BY <5>4, <6>1
          <6> QED BY <5>4, <6>2
        <5> QED BY <4>1, <4>3, <5>3 DEF KeyUp, NeedsRelease, Meaning, Kinds, Tracked
      <4> QED BY <4>2, <4>3
    <3> QED BY <3>1, <3>2
  <2> QED BY <1>2, <2>1, <2>2, SameStream
<1>4. ASSUME NEW d \in BOOLEAN, backend = "tca", fifo' = Append(fifo, Edge(k, d)),
             IF d THEN KeyDown(k) ELSE KeyUp(k)
      PROVE  InStep
  <2> DEFINE e == Edge(k, d)
  <2>1. e \in Edges /\ e.key = k /\ e.down = d
    BY EdgeTyped DEF Edge
  <2> HIDE DEF e
  <2>2. /\ fifo \in Seq(Edges) /\ queue \in Seq(Edges) /\ scanned \in Seq(Edges) /\ fifo' = Append(fifo, e)
        /\ Len(queue) \in Nat /\ Len(fifo) \in Nat /\ Len(scanned) = 0
    BY <1>1, <1>4 DEF KeysTyped, e
  <2>3. Len(fifo') = Len(fifo) + 1 /\ fifo'[Len(fifo) + 1] = e
        /\ \A i \in 1 .. Len(fifo) : fifo'[i] = fifo[i]
    BY <2>1, <2>2, AppendFacts
  <2>4. Len(Stream') = Len(Stream) + 1 /\ Len(Stream) = Len(queue) + Len(fifo)
    <3>1. Len(Stream) = Len(queue) + Len(scanned) + Len(fifo)
      BY StreamTyped
    <3>2. Len(Stream') = Len(queue') + Len(scanned') + Len(fifo')
      BY StreamTypedNext
    <3>3. Len(queue') = Len(queue) /\ Len(scanned') = 0
      BY <1>1, <2>2
    <3> QED BY <2>2, <2>3, <3>1, <3>2, <3>3
  <2>5. Stream'[Len(Stream) + 1] = e
    <3>1. /\ Len(fifo) + 1 \in 1 .. Len(fifo')
          /\ Len(queue') + Len(scanned') + (Len(fifo) + 1) = Len(Stream) + 1
      BY <1>1, <2>2, <2>3, <2>4
    <3>2. Stream'[Len(queue') + Len(scanned') + (Len(fifo) + 1)] = fifo'[Len(fifo) + 1]
      BY <3>1, StreamTypedNext
    <3> QED BY <2>3, <3>1, <3>2
  <2>6. ASSUME NEW i \in 1 .. Len(Stream)
        PROVE  Stream'[i] = Stream[i]
    <3>1. CASE i \in 1 .. Len(queue)
      BY <1>1, <3>1, StreamTyped, StreamTypedNext
    <3>2. CASE i \notin 1 .. Len(queue)
      <4> DEFINE j == i - Len(queue)
      <4>1. j \in 1 .. Len(fifo) /\ j \in 1 .. Len(fifo') /\ Len(queue) + Len(scanned) + j = i
            /\ Len(queue') + Len(scanned') + j = i
        BY <1>1, <2>2, <2>3, <2>4, <3>2
      <4>2. Stream[Len(queue) + Len(scanned) + j] = fifo[j]
        BY <4>1, StreamTyped
      <4>3. Stream'[Len(queue') + Len(scanned') + j] = fifo'[j]
        BY <4>1, StreamTypedNext
      <4> QED BY <4>1, <4>2, <4>3, <2>3
    <3> QED BY <3>1, <3>2
  <2>7. Extends(Stream', Stream)
    BY <2>2, <2>4, <2>6 DEF Extends
  <2>8. Watched = down /\ Watched' = down'
    BY <1>1, <1>4 DEF Watched
  <2>9. /\ \A x \in Kinds \cap Watched : IF x = e.key THEN ~e.down ELSE x \in Watched'
        /\ e.down => e.key \in Watched'
    BY <1>4, <2>1, <2>8 DEF KeyDown, KeyUp
  <2>10. InTurn(Stream', Stream, Watched, Watched')
    BY <1>2, <2>4, <2>5, <2>7, <2>9, OneMore
  <2> QED BY <1>2, <2>7, <2>10, GoOn
<1> QED BY <1>3, <1>4 DEF KeyDown, KeyUp, Report

LEMMA FoundInTurn ==
  ASSUME NEW s \in Seq(Edges), NEW r \in Seq(Edges), Extends(r, s),
         NEW up \in SUBSET Keys, NEW fallen \in SUBSET Keys, NEW x, Found(up, fallen, x),
         Len(r) = Len(s) + Len(x), \A i \in 1 .. Len(x) : r[Len(s) + i] = x[i],
         NEW watched \in SUBSET Keys, NEW after \in SUBSET Keys,
         up \cap watched = {}, fallen \subseteq watched, watched \ fallen \subseteq after,
         up \subseteq after
  PROVE  InTurn(r, s, watched, after)
<1>1. up \cap fallen = {}
  OBVIOUS
<1>2. /\ x \in Seq(Edges)
      /\ \A k \in Kinds : \A i \in 1 .. Len(x) : x[i].key = k =>
           /\ IF x[i].down THEN k \in up ELSE k \in fallen
           /\ \A j \in 1 .. Len(x) : x[j].key = k => i = j
      /\ \A k \in Kinds \cap fallen : \E i \in 1 .. Len(x) : x[i].key = k /\ ~x[i].down
  BY <1>1, FoundFacts
<1>3. Len(s) \in Nat /\ Len(x) \in Nat
  BY <1>2
<1>4. \A m \in Len(s) + 1 .. Len(r) : m - Len(s) \in 1 .. Len(x) /\ r[m] = x[m - Len(s)]
  <2> TAKE m \in Len(s) + 1 .. Len(r)
  <2>1. m - Len(s) \in 1 .. Len(x) /\ Len(s) + (m - Len(s)) = m
    BY <1>3
  <2>2. r[Len(s) + (m - Len(s))] = x[m - Len(s)]
    BY <2>1
  <2> QED BY <2>1, <2>2
<1>5. ASSUME NEW k \in Kinds, k \in watched
      PROVE  NextIsUp(r, Len(s), k, after)
  <2>1. CASE k \in fallen
    <3>1. PICK i \in 1 .. Len(x) : x[i].key = k /\ ~x[i].down
      BY <1>2, <2>1
    <3> DEFINE j == Len(s) + i
    <3>2. j \in Len(s) + 1 .. Len(r) /\ r[j].key = k /\ ~r[j].down
      BY <1>3, <3>1
    <3>3. ASSUME NEW m \in Len(s) + 1 .. j - 1
          PROVE  r[m].key # k
      <4>1. m \in Len(s) + 1 .. Len(r) /\ m - Len(s) # i
        BY <3>2, <1>3
      <4>2. m - Len(s) \in 1 .. Len(x) /\ r[m] = x[m - Len(s)]
        BY <1>4, <4>1
      <4> QED BY <1>2, <3>1, <4>1, <4>2
    <3> QED BY <3>2, <3>3 DEF NextIsUp
  <2>2. CASE k \notin fallen
    <3>1. k \in after /\ k \notin up
      BY <1>5, <2>2
    <3>2. ASSUME NEW m \in Len(s) + 1 .. Len(r)
          PROVE  r[m].key # k
      <4>1. m - Len(s) \in 1 .. Len(x) /\ r[m] = x[m - Len(s)]
        BY <1>4
      <4>2. x[m - Len(s)].key # k
        BY <1>2, <2>2, <3>1, <4>1
      <4> QED BY <4>1, <4>2
    <3> QED BY <3>1, <3>2 DEF NextIsUp
  <2> QED BY <2>1, <2>2
<1>6. ASSUME NEW k \in Kinds, NEW i \in Len(s) + 1 .. Len(r), r[i].key = k, r[i].down
      PROVE  NextIsUp(r, i, k, after)
  <2>1. i - Len(s) \in 1 .. Len(x) /\ r[i] = x[i - Len(s)]
    BY <1>4
  <2>2. k \in up
    BY <1>2, <1>6, <2>1
  <2>3. ASSUME NEW m \in i + 1 .. Len(r)
        PROVE  r[m].key # k
    <3>1. m \in Len(s) + 1 .. Len(r) /\ m - Len(s) # i - Len(s)
      BY <1>3
    <3>2. m - Len(s) \in 1 .. Len(x) /\ r[m] = x[m - Len(s)]
      BY <1>4, <3>1
    <3> QED BY <1>2, <1>6, <2>1, <3>1, <3>2
  <2> QED BY <2>2, <2>3 DEF NextIsUp
<1> QED BY <1>5, <1>6 DEF InTurn

LEMMA EmptyFacts ==
  ASSUME NEW S, NEW s \in Seq(S)
  PROVE  <<>> \o s = s /\ s \o <<>> = s
  OBVIOUS

LEMMA ScanStream ==
  ASSUME KeysTyped, KeysTyped', NEW repeats \in BOOLEAN, Scan(repeats)
  PROVE  InStep
<1>1. scanned = <<>> /\ fifo' = <<>> /\ queue' = queue /\ down' = down
      /\ queue \in Seq(Edges) /\ fifo \in Seq(Edges) /\ Len(queue) \in Nat
  BY DEF Scan, KeysTyped
<1>2. Stream \in Seq(Edges) /\ Stream' \in Seq(Edges)
  BY StreamTyped, StreamTypedNext
<1>3. CASE backend # "matrix"
  <2>1. scanned' = fifo
    BY <1>3 DEF Scan, TcaScan, RetryInit, KeysTyped
  <2>2. Stream' = Stream
    BY <1>1, <2>1, EmptyFacts DEF Stream
  <2>3. Watched \subseteq Watched'
    BY <1>1, <1>3 DEF Scan, Watched, KeysTyped
  <2> QED BY <1>2, <2>2, <2>3, SameStream
<1>4. CASE backend = "matrix"
  <2>1. fifo = <<>> /\ backend' = "matrix" /\ (MatrixScan(repeats) \/ GhostScan(repeats))
    BY <1>4 DEF Scan, KeysTyped
  <2>2. Watched = held /\ Watched' = held' /\ held \in SUBSET Keys /\ held' \in SUBSET Keys
        /\ down \in SUBSET Keys
    BY <1>4, <2>1 DEF Watched, KeysTyped
  <2>3. Len(scanned) = 0 /\ Len(fifo) = 0 /\ Len(fifo') = 0 /\ Len(queue') = Len(queue)
    BY <1>1, <2>1
  <2>4. Len(Stream) = Len(queue)
    BY <1>1, <2>3, StreamTyped
  <2>5. Len(Stream') = Len(Stream) + Len(scanned') /\ Len(scanned') \in Nat
    <3>1. Len(Stream') = Len(queue') + Len(scanned') + Len(fifo')
      BY StreamTypedNext
    <3>2. Len(scanned') \in Nat
      BY DEF KeysTyped
    <3> QED BY <1>1, <2>3, <2>4, <3>1, <3>2
  <2>6. \A i \in 1 .. Len(scanned') : Stream'[Len(Stream) + i] = scanned'[i]
    BY <2>3, <2>4, StreamTypedNext
  <2>7. \A i \in 1 .. Len(Stream) : Stream'[i] = Stream[i]
    <3>1. \A i \in 1 .. Len(queue) : Stream[i] = queue[i]
      BY StreamTyped
    <3>2. \A i \in 1 .. Len(queue') : Stream'[i] = queue'[i]
      BY StreamTypedNext
    <3> QED BY <1>1, <2>4, <3>1, <3>2
  <2>8. Extends(Stream', Stream)
    BY <1>1, <2>4, <2>5, <2>7 DEF Extends
  <2>9. ASSUME NEW up \in SUBSET Keys, NEW fallen \in SUBSET Keys, Found(up, fallen, scanned'),
               up \cap held = {}, fallen \subseteq held, held \ fallen \subseteq held',
               up \subseteq held'
        PROVE  InStep
    <3>1. InTurn(Stream', Stream, Watched, Watched')
      BY <1>2, <2>2, <2>5, <2>6, <2>8, <2>9, FoundInTurn
    <3> QED BY <1>2, <2>8, <3>1, GoOn
  <2>10. CASE held' = down /\ Found(down \ held, held \ down, scanned')
    <3> DEFINE up == down \ held
               fallen == held \ down
    <3>1. up \in SUBSET Keys /\ fallen \in SUBSET Keys /\ Found(up, fallen, scanned')
          /\ up \cap held = {} /\ fallen \subseteq held /\ held \ fallen \subseteq held'
          /\ up \subseteq held'
      BY <2>2, <2>10
    <3> HIDE DEF up, fallen
    <3> QED BY <3>1, <2>9
  <2>11. CASE held' = {} /\ Found({}, held, scanned')
    BY <2>2, <2>9, <2>11
  <2> QED BY <2>1, <2>10, <2>11, ScanFound
<1> QED BY <1>3, <1>4

LEMMA GoWithout ==
  ASSUME Stream \in Seq(Edges), Stream' \in Seq(Edges), Watched' = Watched,
         NEW n \in 1 .. Len(Stream), Without(Stream', Stream, n), n = 1 \/ Stream[n].down
  PROVE  /\ Paired(Stream, Watched) => Paired(Stream', Watched')
         /\ \A k \in Kinds : Stream[n].down \/ Stream[n].key # k =>
              (NextIsUp(Stream, 0, k, Watched) => NextIsUp(Stream', 0, k, Watched'))
<1>1. Paired(Stream, Watched) => Paired(Stream', Watched')
  BY WithoutPaired
<1>2. ASSUME NEW k \in Kinds, Stream[n].down \/ Stream[n].key # k,
             NextIsUp(Stream, 0, k, Watched)
      PROVE  NextIsUp(Stream', 0, k, Watched')
  <2>1. 0 \in 0 .. Len(Stream)
    OBVIOUS
  <2>2. NextIsUp(Stream', IF n <= 0 THEN 0 - 1 ELSE 0, k, Watched)
    BY <1>2, <2>1, WithoutNext
  <2> QED BY <2>2
<1> QED BY <1>1, <1>2

\* push(): the edge goes into the queue, is refused, or takes the place of another one.
LEMMA PushStream ==
  ASSUME KeysTyped, KeysTyped', PushEdge
  PROVE  \/ Stream' = Stream
         \/ \E n \in 1 .. Len(Stream) :
              /\ Without(Stream', Stream, n)
              /\ \/ Stream[n].down
                 \/ n = 1 /\ Sacrificed(queue, Head(scanned)) = {Stream[1].key}
<1> DEFINE e == Head(scanned)
           rest == Tail(scanned) \o fifo
           v == Victim(queue)
<1>1. /\ queue \in Seq(Edges) /\ scanned \in Seq(Edges) /\ fifo \in Seq(Edges)
      /\ scanned # <<>>
      /\ queue' = QueuePush(queue, e) /\ scanned' = Tail(scanned) /\ fifo' = fifo
  BY DEF PushEdge, KeysTyped, keyboard
<1>2. /\ e \in Edges /\ Tail(scanned) \in Seq(Edges) /\ rest \in Seq(Edges)
      /\ scanned = <<e>> \o Tail(scanned) /\ <<e>> \in Seq(Edges)
  BY <1>1
<1>3. Stream = queue \o (<<e>> \o rest) /\ Stream' = queue' \o rest
  BY <1>1, <1>2 DEF Stream
<1>4. \A q \in Seq(Edges) : Append(q, e) \o rest = q \o (<<e>> \o rest)
  BY <1>2
<1> HIDE DEF e, rest
<1>5. CASE ~Full(queue)
  BY <1>1, <1>2, <1>3, <1>4, <1>5, PushFacts
<1>8. /\ Len(queue) \in Nat /\ Len(rest) \in Nat
      /\ Len(Stream) = Len(queue) + 1 + Len(rest)
      /\ \A i \in 1 .. Len(queue) : Stream[i] = queue[i]
      /\ Stream[Len(queue) + 1] = e
  <2>1. /\ Len(<<e>>) = 1 /\ <<e>>[1] = e
    OBVIOUS
  <2>2. /\ Stream \in Seq(Edges) /\ Len(Stream) = Len(queue) + Len(<<e>>) + Len(rest)
        /\ \A i \in 1 .. Len(queue) : Stream[i] = queue[i]
        /\ \A i \in 1 .. Len(<<e>>) : Stream[Len(queue) + i] = <<e>>[i]
    BY <1>1, <1>2, <1>3, RowFacts
  <2>3. Stream[Len(queue) + 1] = <<e>>[1]
    BY <2>1, <2>2
  <2> QED BY <1>1, <1>2, <2>1, <2>2, <2>3
<1>6. CASE Full(queue) /\ (e.again \/ e.down)
  <2> DEFINE n == Len(queue) + 1
  <2>1. queue' = queue
    BY <1>1, <1>2, <1>6, PushFacts
  <2>2. e.down
    BY <1>2, <1>6 DEF Edges
  <2>3. Append(queue, e) \in Seq(Edges) /\ n \in 1 .. Len(Append(queue, e))
        /\ Without(queue, Append(queue, e), n)
    BY <1>1, <1>2, AppendFacts DEF Without
  <2> HIDE DEF n
  <2>4. Without(queue \o rest, Append(queue, e) \o rest, n)
    BY <1>1, <1>2, <2>3, FirstWithout
  <2>5. Without(Stream', Stream, n)
    BY <1>1, <1>3, <1>4, <2>1, <2>4
  <2>6. n \in 1 .. Len(Stream) /\ Stream[n].down
    BY <1>8, <2>2 DEF n
  <2> QED BY <2>5, <2>6
<1>7. CASE Full(queue) /\ ~(e.again \/ e.down)
  <2>1. /\ queue' = Append(RemoveAt(queue, v), e) /\ RemoveAt(queue, v) \in Seq(Edges)
    BY <1>1, <1>2, <1>7, PushFacts
  <2>2. /\ v \in 1 .. Len(queue)
        /\ Droppable(queue[v]) \/ v = 1
    BY <1>1, <1>7, VictimFacts
  <2>9. Without(RemoveAt(queue, v), queue, v)
    BY <1>1, <2>2, RemoveFacts
  <2>3. Stream' = RemoveAt(queue, v) \o (<<e>> \o rest)
    BY <1>3, <1>4, <2>1
  <2>8. <<e>> \o rest \in Seq(Edges)
    BY <1>2
  <2>4. Without(Stream', Stream, v)
    <3> DEFINE t == <<e>> \o rest
               p == RemoveAt(queue, v)
    <3>1. t \in Seq(Edges) /\ p \in Seq(Edges) /\ Stream' = p \o t /\ Stream = queue \o t
          /\ Without(p, queue, v)
      BY <1>3, <2>1, <2>3, <2>8, <2>9
    <3> HIDE DEF t, p, v
    <3> QED BY <1>1, <2>2, <3>1, FirstWithout
  <2>5. v \in 1 .. Len(Stream) /\ Stream[v] = queue[v]
    BY <1>8, <2>2
  <2>6. CASE queue[v].down
    BY <2>4, <2>5, <2>6
  <2>7. CASE ~queue[v].down
    <3>1. v = 1
      BY <2>2, <2>7 DEF Droppable
    <3>2. Sacrificed(queue, e) = {queue[v].key}
      BY <1>7, <2>7 DEF Sacrificed
    <3>3. Sacrificed(queue, Head(scanned)) = {Stream[1].key}
      BY <2>5, <3>1, <3>2 DEF e
    <3> QED BY <2>4, <2>5, <3>1, <3>3
  <2> QED BY <2>6, <2>7
<1> QED BY <1>5, <1>6, <1>7

\* Only one edge leaves: the oldest one of the queue, which is handled.
LEMMA PopStream ==
  ASSUME KeysTyped, KeysTyped', HandleEdge
  PROVE  /\ Head(queue) \in Edges /\ Stream \in Seq(Edges) /\ Stream' \in Seq(Edges)
         /\ 1 \in 1 .. Len(Stream) /\ Stream[1] = Head(queue)
         /\ Without(Stream', Stream, 1) /\ Watched' = Watched
<1>1. /\ queue \in Seq(Edges) /\ queue # <<>> /\ queue' = Tail(queue)
      /\ UNCHANGED <<keyboard, scanned>>
      /\ scanned \in Seq(Edges) /\ fifo \in Seq(Edges)
  BY DEF HandleEdge, KeysTyped
<1>2. Watched' = Watched /\ fifo' = fifo /\ scanned' = scanned
  BY <1>1 DEF keyboard, Watched
<1>3. /\ Tail(queue) \in Seq(Edges) /\ Len(queue) \in Nat \ {0} /\ Len(Tail(queue)) = Len(queue) - 1
      /\ Head(queue) \in Edges /\ Head(queue) = queue[1]
      /\ \A i \in 1 .. Len(queue) - 1 : Tail(queue)[i] = queue[i + 1]
  BY <1>1, TailFacts
<1>4. Without(Tail(queue), queue, 1) /\ 1 \in 1 .. Len(queue)
  BY <1>3 DEF Without
<1> DEFINE rest == scanned \o fifo
<1>5. rest \in Seq(Edges) /\ Stream = queue \o rest /\ Stream' = Tail(queue) \o rest
  BY <1>1, <1>2 DEF Stream
<1> HIDE DEF rest
<1>6. Without(Stream', Stream, 1)
  BY <1>1, <1>3, <1>4, <1>5, FirstWithout
<1>7. /\ Stream \in Seq(Edges) /\ Stream' \in Seq(Edges)
      /\ Len(Stream) = Len(queue) + Len(scanned) + Len(fifo)
      /\ \A i \in 1 .. Len(queue) : Stream[i] = queue[i]
  BY StreamTyped, StreamTypedNext
<1>8. Len(scanned) \in Nat /\ Len(fifo) \in Nat
  BY <1>1
<1>9. 1 \in 1 .. Len(Stream) /\ Stream[1] = Head(queue)
  BY <1>3, <1>4, <1>7, <1>8
<1> QED BY <1>2, <1>3, <1>6, <1>7, <1>9

\* What the edge that is handled says of the edges of its key that are left.
LEMMA PopFacts ==
  ASSUME KeysTyped, KeysTyped', Paired(Stream, Watched), HandleEdge
  PROVE  LET e == Head(queue) IN
           /\ e \in Edges
           /\ Paired(Stream', Watched')
           /\ \A k \in Kinds : e.down \/ e.key # k =>
                (NextIsUp(Stream, 0, k, Watched) => NextIsUp(Stream', 0, k, Watched'))
           /\ e.down /\ e.key \in Kinds => NextIsUp(Stream', 0, e.key, Watched')
<1> DEFINE e == Head(queue)
<1>1. /\ e \in Edges /\ Stream \in Seq(Edges) /\ Stream' \in Seq(Edges)
      /\ 1 \in 1 .. Len(Stream) /\ Stream[1] = e
      /\ Without(Stream', Stream, 1) /\ Watched' = Watched
  BY PopStream
<1> HIDE DEF e
<1>2. /\ Paired(Stream', Watched')
      /\ \A k \in Kinds : e.down \/ e.key # k =>
           (NextIsUp(Stream, 0, k, Watched) => NextIsUp(Stream', 0, k, Watched'))
  BY <1>1, GoWithout
<1>3. ASSUME e.down, e.key \in Kinds
      PROVE  NextIsUp(Stream', 0, e.key, Watched')
  <2>1. NextIsUp(Stream, 1, e.key, Watched)
    BY <1>1, <1>3 DEF Paired
  <2>2. 1 \in 0 .. Len(Stream)
    BY <1>1
  <2>3. NextIsUp(Stream', IF 1 <= 1 THEN 1 - 1 ELSE 1, e.key, Watched)
    BY <1>1, <2>1, <2>2, WithoutNext
  <2> QED BY <1>1, <2>3
<1>5. /\ e \in Edges
      /\ Paired(Stream', Watched')
      /\ \A k \in Kinds : e.down \/ e.key # k =>
           (NextIsUp(Stream, 0, k, Watched) => NextIsUp(Stream', 0, k, Watched'))
      /\ e.down /\ e.key \in Kinds => NextIsUp(Stream', 0, e.key, Watched')
  BY <1>1, <1>2, <1>3
<1> QED BY <1>5 DEF e

-----------------------------------------------------------------------------
(* Who owns what a host holds, step by step.                                 *)

\* A host may forget anything; what it holds anew, or what lost the release that was
\* to come, needs an owner.
LEMMA Settles ==
  ASSUME HostTyped, Owned, HostTyped', voice' = voice,
         \A t \in Wires : \A c \in {"MIC", "CHORD"} :
           <<t, c>> \in Undenied(host') => <<t, c>> \in Undenied(host),
         StickOwned',
         \A k \in Tracked : \A t \in Wires : <<t, Control(k)>> \in Undenied(host') =>
           \/ owner'[k] = t /\ Coming(k)'
           \/ /\ <<t, Control(k)>> \in Undenied(host)
              /\ ~(owner[k] = t /\ Coming(k))
  PROVE  Owned'
<1>1. \A t, c : HeldByVoice(t, c)' = HeldByVoice(t, c)
  BY DEF HeldByVoice
<1>2. ASSUME NEW k \in Tracked
      PROVE  KeyOwned(k)'
  <2> SUFFICES ASSUME NEW t \in Wires, <<t, Control(k)>> \in Undenied(host'),
                      ~HeldByVoice(t, Control(k))
               PROVE  owner'[k] = t /\ Coming(k)'
    BY <1>1 DEF KeyOwned
  <2> QED BY DEF Owned, KeyOwned
<1>3. MicOwned'
  BY <1>1 DEF Owned, MicOwned
<1>4. ChordUnowned'
  BY DEF Owned, ChordUnowned
<1> QED BY <1>2, <1>3, <1>4 DEF Owned

\* push(): the host loses nothing but the release that is sacrificed.
LEMMA PushOwned ==
  ASSUME HeldInv, PushEdge
  PROVE  HeldInv'
<1>1. KeysTyped'
  BY PushKeys DEF HeldInv
<1> DEFINE lost == Sacrificed(queue, Head(scanned))
<1>2. PICK x : /\ host' = IF lost = {} THEN host ELSE LoseRelease(Meaning(x))
               /\ \A k : lost = {k} => x = k
  <2> DEFINE y == CHOOSE k \in lost : TRUE
  <2>1. \A k : lost = {k} => y = k
    OBVIOUS
  <2>2. host' = IF lost = {} THEN host ELSE LoseRelease(Meaning(y))
    BY DEF PushEdge
  <2> HIDE DEF lost, y
  <2> QED BY <2>1, <2>2
<1> HIDE DEF lost
<1>3. host' \in Hosts /\ Undenied(host') \subseteq Undenied(host)
      /\ \A k : Meaning(k) \in Tracked /\ lost = {k} =>
           <<owner[Meaning(k)], Control(Meaning(k))>> \notin Undenied(host')
  <2>1. host \in Hosts
    BY DEF HeldInv, HostTyped
  <2>2. CASE lost = {}
    BY <1>2, <2>1, <2>2
  <2>3. CASE lost # {}
    <3>1. host' = Denied(host, OwnerOf(Meaning(x)), Control(Meaning(x)))
      BY <1>2, <2>3 DEF LoseRelease
    <3>2. host' \in Hosts
          /\ Undenied(host') = Undenied(host) \ {<<OwnerOf(Meaning(x)), Control(Meaning(x))>>}
      BY <2>1, <3>1, DenyFacts
    <3>3. ASSUME NEW k, Meaning(k) \in Tracked, lost = {k}
          PROVE  <<owner[Meaning(k)], Control(Meaning(k))>> \notin Undenied(host')
      BY <1>2, <3>2, <3>3, <2>3 DEF OwnerOf
    <3> QED BY <3>2, <3>3
  <2> QED BY <2>2, <2>3
<1>4. UNCHANGED <<owner, voice, stick, connected, backend, held, down>>
  BY DEF PushEdge, keyboard, gestures, session
<1>5. HostTyped'
  BY <1>3, <1>4 DEF HeldInv, HostTyped
<1>6. Watched' = Watched
  BY <1>4 DEF Watched
<1>7. Stream \in Seq(Edges) /\ Stream' \in Seq(Edges)
  BY <1>1, StreamTyped, StreamTypedNext DEF HeldInv
<1>8. /\ Paired(Stream', Watched')
      /\ \A k \in Kinds : NextIsUp(Stream, 0, k, Watched) =>
           NextIsUp(Stream', 0, k, Watched') \/ lost = {k}
  <2>1. CASE Stream' = Stream
    BY <1>6, <2>1 DEF HeldInv
  <2>2. CASE \E n \in 1 .. Len(Stream) :
               /\ Without(Stream', Stream, n)
               /\ \/ Stream[n].down
                  \/ n = 1 /\ lost = {Stream[1].key}
    <3>1. PICK n \in 1 .. Len(Stream) :
                 /\ Without(Stream', Stream, n)
                 /\ \/ Stream[n].down
                    \/ n = 1 /\ lost = {Stream[1].key}
      BY <2>2
    <3>2. /\ Paired(Stream, Watched) => Paired(Stream', Watched')
          /\ \A k \in Kinds : Stream[n].down \/ Stream[n].key # k =>
               (NextIsUp(Stream, 0, k, Watched) => NextIsUp(Stream', 0, k, Watched'))
      BY <1>6, <1>7, <3>1, GoWithout
    <3>3. ASSUME NEW k \in Kinds, lost # {k}
          PROVE  Stream[n].down \/ Stream[n].key # k
      BY <3>1, <3>3
    <3> QED BY <3>2, <3>3 DEF HeldInv
  <2> QED BY <1>1, <2>1, <2>2, PushStream DEF HeldInv, lost
<1>9. Owned'
  <2>1. StickOwned'
    BY <1>3, <1>4 DEF HeldInv, Owned, StickOwned
  <2>2. \A t \in Wires : \A c \in {"MIC", "CHORD"} :
          <<t, c>> \in Undenied(host') => <<t, c>> \in Undenied(host)
    BY <1>3
  <2>3. ASSUME NEW k \in Tracked, NEW t \in Wires, <<t, Control(k)>> \in Undenied(host')
        PROVE  \/ owner'[k] = t /\ Coming(k)'
               \/ /\ <<t, Control(k)>> \in Undenied(host)
                  /\ ~(owner[k] = t /\ Coming(k))
    <3>1. <<t, Control(k)>> \in Undenied(host) /\ owner' = owner
      BY <1>3, <1>4, <2>3
    <3>2. CASE owner[k] = t /\ Coming(k)
      <4>1. PICK y \in Kinds : Meaning(y) = k /\ NextIsUp(Stream, 0, y, Watched)
        BY <3>2 DEF Coming
      <4>2. NextIsUp(Stream', 0, y, Watched') \/ lost = {y}
        BY <1>8, <4>1
      <4>3. lost # {y}
        BY <1>3, <2>3, <3>2, <4>1
      <4> QED BY <3>1, <3>2, <4>1, <4>2, <4>3 DEF Coming
    <3> QED BY <3>1, <3>2
  <2> QED BY <1>4, <1>5, <2>1, <2>2, <2>3, Settles DEF HeldInv
<1> QED BY <1>1, <1>5, <1>8, <1>9 DEF HeldInv

\* What handling the edge e makes of hosts and gestures, as far as the properties need it:
\* nobody forgets a release, and a press that was sent is remembered.
Handled(e) ==
  /\ HostTyped' /\ voice' = voice /\ StickOwned'
  /\ \A t \in Wires : \A c \in {"MIC", "CHORD"} :
       <<t, c>> \in Undenied(host') => <<t, c>> \in Undenied(host)
  /\ \A k \in Tracked : \A t \in Wires : <<t, Control(k)>> \in Undenied(host') =>
       \/ <<t, Control(k)>> \in Undenied(host) /\ owner'[k] = owner[k] /\ (~e.down => e.key # k)
       \/ <<t, Control(k)>> \in Undenied(host) /\ owner[k] # t
       \/ owner'[k] = t /\ e.down /\ e.key = k

\* An edge as handle_press() sees it.
Mapped(e) == [e EXCEPT !.key = Meaning(@)]

LEMMA MappedFacts ==
  ASSUME NEW e \in Edges
  PROVE  Mapped(e).key = Meaning(e.key) /\ Mapped(e).down = e.down
  BY DEF Mapped, Edges

LEMMA HandledOwned ==
  ASSUME HeldInv, KeysTyped', HandleEdge, Handled(Mapped(Head(queue)))
  PROVE  HeldInv'
<1> DEFINE e == Head(queue)
<1>1. /\ e \in Edges
      /\ Paired(Stream', Watched')
      /\ \A k \in Kinds : e.down \/ e.key # k =>
           (NextIsUp(Stream, 0, k, Watched) => NextIsUp(Stream', 0, k, Watched'))
      /\ e.down /\ e.key \in Kinds => NextIsUp(Stream', 0, e.key, Watched')
  BY PopFacts DEF HeldInv
<1>2. Handled(Mapped(e))
  OBVIOUS
<1> HIDE DEF e
<1>3. ASSUME NEW k \in Tracked, Coming(k), ~e.down => Meaning(e.key) # k
      PROVE  Coming(k)'
  <2>1. PICK x \in Kinds : Meaning(x) = k /\ NextIsUp(Stream, 0, x, Watched)
    BY <1>3 DEF Coming
  <2>2. NextIsUp(Stream', 0, x, Watched')
    BY <1>1, <1>3, <2>1
  <2> QED BY <2>1, <2>2 DEF Coming
<1>4. ASSUME NEW k \in Tracked, e.down, Meaning(e.key) = k
      PROVE  Coming(k)'
  <2>1. e.key \in Kinds
    BY <1>4 DEF Kinds, Meaning
  <2> QED BY <1>1, <1>4, <2>1 DEF Coming
<1>5. ASSUME NEW k \in Tracked, NEW t \in Wires, <<t, Control(k)>> \in Undenied(host')
      PROVE  \/ owner'[k] = t /\ Coming(k)'
             \/ /\ <<t, Control(k)>> \in Undenied(host)
                /\ ~(owner[k] = t /\ Coming(k))
  <2>0. Mapped(e).key = Meaning(e.key) /\ Mapped(e).down = e.down
    BY <1>1, MappedFacts
  <2>1. CASE <<t, Control(k)>> \in Undenied(host) /\ owner'[k] = owner[k]
             /\ (~e.down => Meaning(e.key) # k)
    BY <1>3, <2>1
  <2>2. CASE <<t, Control(k)>> \in Undenied(host) /\ owner[k] # t
    BY <2>2
  <2>3. CASE owner'[k] = t /\ e.down /\ Meaning(e.key) = k
    BY <1>4, <2>3
  <2> QED BY <1>2, <1>5, <2>0, <2>1, <2>2, <2>3 DEF Handled
<1>6. Owned'
  BY <1>2, <1>5, Settles DEF HeldInv, Handled
<1> QED BY <1>1, <1>2, <1>6 DEF HeldInv, Handled

\* A step that keeps the gestures.
LEMMA KeepsHandled ==
  ASSUME HostTyped, Owned, NEW e, host' \in Hosts, Undenied(host') \subseteq Undenied(host),
         UNCHANGED <<owner, stick, voice>>, connected' = connected,
         ~e.down /\ e.key \in Tracked => <<owner[e.key], Control(e.key)>> \notin Undenied(host')
  PROVE  Handled(e)
<1>1. HostTyped' /\ StickOwned'
  BY DEF HostTyped, Owned, StickOwned
<1>2. ASSUME NEW k \in Tracked, NEW t \in Wires, <<t, Control(k)>> \in Undenied(host')
      PROVE  \/ <<t, Control(k)>> \in Undenied(host) /\ owner'[k] = owner[k] /\ (~e.down => e.key # k)
             \/ <<t, Control(k)>> \in Undenied(host) /\ owner[k] # t
  BY <1>2
<1> QED BY <1>1, <1>2 DEF Handled

\* The host and the gestures stay as they are.
LEMMA UnmovedHandled ==
  ASSUME HostTyped, Owned, NEW e, e.down, HostUnmoved, connected' = connected
  PROVE  Handled(e)
<1>1. host' = host /\ host \in Hosts /\ UNCHANGED <<owner, stick, voice>>
  BY DEF HostUnmoved, gestures, HostTyped
<1> QED BY <1>1, KeepsHandled

LEMMA SwallowedHandled ==
  ASSUME HostTyped, Owned, NEW e, Swallowed(e), connected' = connected
  PROVE  Handled(e)
<1>1. host \in Hosts /\ UNCHANGED <<owner, stick, voice>>
  BY DEF Swallowed, gestures, HostTyped
<1>2. CASE e.down
  BY <1>1, <1>2, KeepsHandled DEF Swallowed
<1>3. CASE ~e.down
  <2>1. host' = Denied(host, OwnerOf(e.key), Control(e.key))
    BY <1>3 DEF Swallowed, LoseRelease
  <2>2. host' \in Hosts /\ Undenied(host') = Undenied(host) \ {<<OwnerOf(e.key), Control(e.key)>>}
    BY <1>1, <2>1, DenyFacts
  <2>3. e.key \in Tracked => <<owner[e.key], Control(e.key)>> \notin Undenied(host')
    BY <2>2 DEF OwnerOf
  <2> QED BY <1>1, <2>2, <2>3, KeepsHandled
<1> QED BY <1>2, <1>3

LEMMA KindFacts ==
  /\ \A k \in Tracked : Control(k) \in Controls /\ Control(k) \notin {"MIC", "CHORD", "STICK"}
  /\ \A k, l \in Tracked : Control(k) = Control(l) => k = l
  /\ \A k : Control(k) \in Controls
  BY DEF Tracked, Control, Controls

\* A release is sent where the press was, and then forgotten.
LEMMA ReleaseHandled ==
  ASSUME HostTyped, Owned, NEW e, ~e.down, HandleRelease(e.key), connected' = connected
  PROVE  Handled(e)
<1> DEFINE k == e.key
<1>1. /\ host \in Hosts /\ connected \subseteq Wires /\ owner \in [Tracked -> Places]
      /\ OwnerOf(k) \in Places /\ Control(k) \in Controls
  BY KindFacts DEF HostTyped, OwnerOf, Places
<1>2. /\ host' \in ReleaseOn(host, OwnerOf(k), Control(k))
      /\ owner' = IF k \in Tracked THEN [owner EXCEPT ![k] = None] ELSE owner
      /\ UNCHANGED <<stick, voice>>
  BY DEF HandleRelease
<1> HIDE DEF k
<1>3. host' \in Hosts /\ Undenied(host') \subseteq Undenied(host)
      /\ <<OwnerOf(k), Control(k)>> \notin Undenied(host')
  BY <1>1, <1>2, ReleaseFacts
<1>4. owner' \in [Tracked -> Places] /\ \A l \in Tracked : l # k => owner'[l] = owner[l]
  BY <1>1, <1>2 DEF Places
<1>5. HostTyped' /\ StickOwned'
  BY <1>2, <1>3, <1>4 DEF HostTyped, Owned, StickOwned
<1>6. ASSUME NEW l \in Tracked, NEW t \in Wires, <<t, Control(l)>> \in Undenied(host')
      PROVE  \/ <<t, Control(l)>> \in Undenied(host) /\ owner'[l] = owner[l] /\ (~e.down => e.key # l)
             \/ <<t, Control(l)>> \in Undenied(host) /\ owner[l] # t
  <2>1. CASE l # k
    BY <1>3, <1>4, <1>6, <2>1 DEF k
  <2>2. CASE l = k
    <3>1. owner[l] # t
      BY <1>3, <1>6, <2>2 DEF OwnerOf
    <3> QED BY <1>3, <1>6, <2>2, <3>1 DEF k
  <2> QED BY <2>1, <2>2
<1> QED BY <1>2, <1>3, <1>5, <1>6 DEF Handled

\* A press that was sent has an owner from now on; the chord never has one.
LEMMA HoldHandled ==
  ASSUME HostTyped, Owned, NEW e, e.down, HoldControl(e.key),
         connected' = connected
  PROVE  Handled(e)
<1> DEFINE k == e.key
<1>1. /\ host \in Hosts /\ connected \subseteq Wires /\ owner \in [Tracked -> Places]
      /\ Control(k) \in Controls
  BY KindFacts DEF HostTyped
<1>2. PICK p \in PressOn(host, Active, Control(k)) :
        LET place == IF p.sent THEN Active ELSE None
        IN  /\ host' = IF k \in Tracked THEN Forgotten(p.host, k, place)
                       ELSE Denied(p.host, Active, Control(k))
            /\ owner' = IF k \in Tracked THEN [owner EXCEPT ![k] = place] ELSE owner
            /\ UNCHANGED <<stick, voice>>
  BY DEF HoldControl
<1> DEFINE place == IF p.sent THEN Active ELSE None
<1> HIDE DEF k
<1>3. /\ p.host \in Hosts /\ p.sent \in BOOLEAN
      /\ p.sent => Active \in Wires /\ p.host = Pressed(host, Active, Control(k))
      /\ ~p.sent => p.host = host
  BY <1>1, PressFacts
<1>4. Undenied(p.host) \subseteq Undenied(host) \cup {<<Active, Control(k)>>}
      /\ (~p.sent => Undenied(p.host) = Undenied(host))
  BY <1>1, <1>3, PressedFacts
<1>5. CASE k \in Tracked
  <2>1. host' = Forgotten(p.host, k, place) /\ owner' = [owner EXCEPT ![k] = place]
    BY <1>2, <1>5
  <2>2. /\ owner' \in [Tracked -> Places] /\ (\A l \in Tracked : l # k => owner'[l] = owner[l])
        /\ owner'[k] = place
    BY <1>1, <1>3, <1>5, <2>1 DEF Places
  <2>3. Control(k) \notin {"MIC", "CHORD", "STICK"} /\ \A l \in Tracked : Control(l) = Control(k) => l = k
    BY <1>5, KindFacts
  <2>4. /\ host' \in Hosts /\ Undenied(host') \subseteq Undenied(p.host)
        /\ owner[k] # place => <<owner[k], Control(k)>> \notin Undenied(host')
    <3>1. CASE owner[k] = place
      BY <1>3, <2>1, <3>1 DEF Forgotten
    <3>2. CASE owner[k] # place
      <4>1. host' = Denied(p.host, owner[k], Control(k))
        BY <2>1, <3>2 DEF Forgotten
      <4> QED BY <1>3, <4>1, DenyFacts
    <3> QED BY <3>1, <3>2
  <2>5. HostTyped'
    BY <1>2, <2>2, <2>4 DEF HostTyped
  <2>6. StickOwned'
    BY <1>2, <1>4, <2>3, <2>4 DEF Owned, StickOwned
  <2>7. \A t \in Wires : \A c \in {"MIC", "CHORD"} :
          <<t, c>> \in Undenied(host') => <<t, c>> \in Undenied(host)
    BY <1>4, <2>3, <2>4
  <2>8. ASSUME NEW l \in Tracked, NEW t \in Wires, <<t, Control(l)>> \in Undenied(host')
        PROVE  \/ <<t, Control(l)>> \in Undenied(host) /\ owner'[l] = owner[l] /\ (~e.down => e.key # l)
               \/ <<t, Control(l)>> \in Undenied(host) /\ owner[l] # t
               \/ owner'[l] = t /\ e.down /\ e.key = l
    <3>1. CASE l # k
      <4>1. Control(l) # Control(k)
        BY <2>3, <3>1
      <4>2. <<t, Control(l)>> \in Undenied(host)
        BY <1>4, <2>4, <2>8, <4>1
      <4> QED BY <2>2, <3>1, <4>2
    <3>2. CASE l = k
      <4>1. <<t, Control(l)>> \in Undenied(host) \/ (p.sent /\ t = Active)
        BY <1>3, <1>4, <2>4, <2>8, <3>2
      <4>2. CASE p.sent /\ t = Active
        <5>1. owner'[k] = t
          BY <2>2, <4>2
        <5> QED BY <3>2, <5>1 DEF k
      <4>3. CASE owner[k] # t
        BY <2>2, <3>2, <4>1, <4>2, <4>3
      <4>4. CASE owner[k] = t
        <5>1. owner[k] = place
          BY <2>4, <2>8, <3>2, <4>4
        <5>2. owner'[k] = t
          BY <2>2, <4>4, <5>1
        <5> QED BY <3>2, <5>2 DEF k
      <4> QED BY <4>3, <4>4
    <3> QED BY <3>1, <3>2
  <2> QED BY <1>2, <2>5, <2>6, <2>7, <2>8 DEF Handled
<1>6. CASE k \notin Tracked
  <2>1. host' = Denied(p.host, Active, Control(k)) /\ owner' = owner
    BY <1>2, <1>6
  <2>2. host' \in Hosts /\ Undenied(host') \subseteq Undenied(host)
    BY <1>3, <1>4, <2>1, DenyFacts
  <2> QED BY <1>2, <2>1, <2>2, KeepsHandled
<1> QED BY <1>5, <1>6

\* An impulse is remembered with the transport it deflects; the one before is centred.
LEMMA ImpulseHandled ==
  ASSUME HostTyped, Owned, NEW e, e.down, StickImpulse, connected' = connected
  PROVE  Handled(e)
<1>1. /\ host \in Hosts /\ connected \subseteq Wires /\ stick \in Sticks /\ stick.on \in Places
      /\ "STICK" \in Controls
  BY DEF HostTyped, Controls, Sticks
<1>2. CASE Active = None
  BY <1>2, UnmovedHandled DEF StickImpulse
<1>3. CASE Active # None
  <2>1. PICK h \in IF stick.on \notin {None, Active} THEN ReleaseOn(host, stick.on, "STICK") ELSE {host} :
          \E p \in PressOn(h, Active, "STICK") :
            /\ host' = p.host
            /\ stick' = IF p.sent THEN [on |-> Active, due |-> FALSE] ELSE stick
            /\ UNCHANGED <<owner, voice>>
    BY <1>3 DEF StickImpulse
  <2>2. PICK p \in PressOn(h, Active, "STICK") :
          /\ host' = p.host
          /\ stick' = IF p.sent THEN [on |-> Active, due |-> FALSE] ELSE stick
          /\ UNCHANGED <<owner, voice>>
    BY <2>1
  <2>3. /\ h \in Hosts /\ Undenied(h) \subseteq Undenied(host)
        /\ stick.on \notin {None, Active} => <<stick.on, "STICK">> \notin Undenied(h)
    <3>1. CASE stick.on \notin {None, Active}
      BY <1>1, <2>1, <3>1, ReleaseFacts
    <3>2. CASE stick.on \in {None, Active}
      BY <1>1, <2>1, <3>2
    <3> QED BY <3>1, <3>2
  <2>4. /\ p.host \in Hosts /\ p.sent \in BOOLEAN
        /\ p.sent => Active \in Wires /\ p.host = Pressed(h, Active, "STICK")
        /\ ~p.sent => p.host = h
    BY <1>1, <2>3, PressFacts
  <2>5. Undenied(p.host) \subseteq Undenied(h) \cup {<<Active, "STICK">>}
    BY <2>3, <2>4, PressedFacts
  <2>6. stick' \in Sticks
    BY <1>1, <2>2, <2>4 DEF Sticks, Places
  <2>7. HostTyped'
    BY <2>2, <2>4, <2>6 DEF HostTyped
  <2>8. ASSUME NEW t \in Wires, <<t, "STICK">> \in Undenied(host')
        PROVE  stick'.on = t
    <3>1. CASE p.sent
      <4>1. stick'.on = Active
        BY <2>2, <3>1
      <4>2. CASE t # Active
        <5>1. <<t, "STICK">> \in Undenied(h)
          BY <2>2, <2>5, <2>8, <4>2
        <5>2. stick.on = t
          BY <2>3, <5>1 DEF Owned, StickOwned
        <5>3. t # None
          BY InputEdgesAssumption
        <5> QED BY <2>3, <4>2, <5>1, <5>2, <5>3
      <4> QED BY <4>1, <4>2
    <3>2. CASE ~p.sent
      BY <2>2, <2>3, <2>4, <2>8, <3>2 DEF Owned, StickOwned
    <3> QED BY <2>4, <3>1, <3>2
  <2>9. StickOwned'
    BY <2>8 DEF StickOwned
  <2>10. \A t \in Wires : \A c \in Controls \ {"STICK"} :
           <<t, c>> \in Undenied(host') => <<t, c>> \in Undenied(host)
    BY <2>2, <2>3, <2>5
  <2>11. \A k \in Tracked : Control(k) \in Controls \ {"STICK"}
    BY KindFacts
  <2>12. \A t \in Wires : \A c \in {"MIC", "CHORD"} :
           <<t, c>> \in Undenied(host') => <<t, c>> \in Undenied(host)
    BY <2>10 DEF Controls
  <2>13. \A k \in Tracked : \A t \in Wires : <<t, Control(k)>> \in Undenied(host') =>
           <<t, Control(k)>> \in Undenied(host) /\ owner'[k] = owner[k]
    BY <2>2, <2>10, <2>11
  <2> QED BY <2>2, <2>7, <2>9, <2>12, <2>13 DEF Handled
<1> QED BY <1>2, <1>3

\* The agent key goes down and up at once.
LEMMA EscapeHandled ==
  ASSUME HostTyped, Owned, NEW e, e.down, EscapeComposer, connected' = connected
  PROVE  Handled(e)
<1>1. host \in Hosts /\ connected \subseteq Wires /\ "AG" \in Controls
  BY DEF HostTyped, Controls
<1>2. PICK p \in PressOn(host, Active, "AG") :
        host' \in IF p.sent THEN ReleaseOn(p.host, Active, "AG") ELSE {p.host}
  BY DEF EscapeComposer
<1>3. /\ p.host \in Hosts /\ p.sent \in BOOLEAN
      /\ p.sent => Active \in Wires /\ p.host = Pressed(host, Active, "AG")
      /\ ~p.sent => p.host = host
  BY <1>1, PressFacts
<1>4. host' \in Hosts /\ Undenied(host') \subseteq Undenied(host)
  <2>1. CASE p.sent
    <3>1. Undenied(p.host) = Undenied(host) \cup {<<Active, "AG">>} /\ Active \in Places
      BY <1>1, <1>3, <2>1, PressedFacts DEF Places
    <3>2. host' \in ReleaseOn(p.host, Active, "AG")
      BY <1>2, <2>1
    <3>3. host' \in Hosts /\ Undenied(host') \subseteq Undenied(p.host)
          /\ <<Active, "AG">> \notin Undenied(host')
      BY <1>1, <1>3, <3>1, <3>2, ReleaseFacts
    <3> QED BY <3>1, <3>3
  <2>2. CASE ~p.sent
    BY <1>1, <1>2, <1>3, <2>2
  <2> QED BY <2>1, <2>2
<1>5. UNCHANGED <<owner, stick, voice>>
  BY DEF EscapeComposer, gestures
<1> QED BY <1>4, <1>5, KeepsHandled

LEMMA DispatchHandled ==
  ASSUME HostTyped, Owned, NEW e, e.down \in BOOLEAN, connected' = connected,
         Swallowed(e) \/ Dispatch(e)
  PROVE  Handled(e)
<1>1. CASE Swallowed(e)
  BY <1>1, SwallowedHandled
<1>2. CASE Dispatch(e) /\ Gated(e)
  BY <1>2, SwallowedHandled DEF Dispatch, GatedEdge
<1>3. CASE Dispatch(e) /\ ~Gated(e) /\ ~e.down
  <2>1. HandleRelease(e.key)
    BY <1>3 DEF Dispatch
  <2> QED BY <1>3, <2>1, ReleaseHandled
<1>4. CASE Dispatch(e) /\ ~Gated(e) /\ e.down
  <2>1. PressOnPreviews(e.key) \/ PressOnMenu(e.key) \/ PressOnDeck(e.key)
    BY <1>4 DEF Dispatch
  <2>2. HoldControl(e.key) \/ StickImpulse \/ EscapeComposer \/ HostUnmoved
    <3>1. CASE PressOnPreviews(e.key)
      BY <3>1 DEF PressOnPreviews, GoTo
    <3>2. CASE PressOnMenu(e.key)
      BY <3>2 DEF PressOnMenu, GoTo
    <3>3. CASE PressOnDeck(e.key)
      BY <3>3 DEF PressOnDeck, GoTo
    <3> QED BY <2>1, <3>1, <3>2, <3>3
  <2> QED BY <1>4, <2>2, HoldHandled, ImpulseHandled, EscapeHandled, UnmovedHandled
<1> QED BY <1>1, <1>2, <1>3, <1>4

LEMMA EdgeOwned ==
  ASSUME HeldInv, HandleEdge
  PROVE  HeldInv'
<1>1. queue \in Seq(Edges) /\ queue # <<>> /\ queue' = Tail(queue)
      /\ UNCHANGED <<keyboard, scanned>> /\ connected' = connected
      /\ (pc' = "push" <=> pc = "push")
  BY DEF HandleEdge, HeldInv, KeysTyped, session
<1>2. Tail(queue) \in Seq(Edges) /\ Head(queue) \in Edges
  BY <1>1, TailFacts
<1>3. KeysTyped'
  BY <1>1, <1>2, OtherKeys DEF HeldInv
<1> DEFINE e == Mapped(Head(queue))
<1>4. Swallowed(e) \/ Dispatch(e)
  BY DEF HandleEdge, Mapped
<1>5. e.down \in BOOLEAN
  BY <1>2, MappedFacts DEF Edges
<1> HIDE DEF e
<1>6. Handled(e)
  BY <1>1, <1>4, <1>5, DispatchHandled DEF HeldInv
<1> QED BY <1>3, <1>6, HandledOwned DEF e

\* The steps that do not touch the keyboard, and what is on its way from there.
LEMMA StillStream ==
  ASSUME KeysTyped, UNCHANGED <<keyboard, scanned, queue>>, pc' = "push" <=> pc = "push"
  PROVE  KeysTyped' /\ Stream' = Stream /\ Watched' = Watched /\ InStep
<1>1. queue' \in Seq(Edges)
  BY DEF KeysTyped
<1>2. KeysTyped'
  BY <1>1, OtherKeys
<1>3. Stream' = Stream /\ Watched' = Watched
  BY DEF Stream, Watched, keyboard
<1>4. InStep
  BY <1>3 DEF InStep, GoesOn
<1> QED BY <1>2, <1>3, <1>4

\* Nothing that host h holds is owed to the voice gesture.
Bare(h) ==
  /\ h \in Hosts /\ Undenied(h) \subseteq Undenied(host)
  /\ \A t \in Wires : <<t, "MIC">> \notin Undenied(h)
  /\ \A k \in Tracked : \A t \in Wires : <<t, Control(k)>> \in Undenied(h) =>
       owner[k] = t /\ Coming(k)

LEMMA VoiceBare ==
  ASSUME HostTyped, Owned, NEW h \in Hosts, Undenied(h) \subseteq Undenied(host),
         NEW g \in VoiceReleased(h)
  PROVE  Bare(g)
<1>1. /\ g \in Hosts /\ Undenied(g) \subseteq Undenied(h)
      /\ voice.mic => <<voice.on, "MIC">> \notin Undenied(g)
      /\ voice.agent => <<voice.on, "AG">> \notin Undenied(g)
  BY VoiceReleaseFacts
<1>2. \A t \in Wires : \A c : <<t, c>> \in Undenied(g) => ~HeldByVoice(t, c)
  BY <1>1 DEF HeldByVoice
<1>3. \A t \in Wires : <<t, "MIC">> \notin Undenied(g)
  BY <1>1, <1>2 DEF Owned, MicOwned
<1>4. ASSUME NEW k \in Tracked, NEW t \in Wires, <<t, Control(k)>> \in Undenied(g)
      PROVE  owner[k] = t /\ Coming(k)
  BY <1>1, <1>2, <1>4 DEF Owned, KeyOwned
<1> QED BY <1>1, <1>3, <1>4 DEF Bare

\* Once the gesture has let go of everything, it may hold something else.
LEMMA BareOwned ==
  ASSUME Owned, NEW h, Bare(h), Stream' = Stream, Watched' = Watched, owner' = owner,
         StickOwned', NEW fresh, Undenied(host') \subseteq Undenied(h) \cup fresh,
         \A f \in fresh : \E t \in Wires :
           \E c \in {"AG", "MIC"} : f = <<t, c>> /\ HeldByVoice(t, c)'
  PROVE  Owned'
<1>1. \A t, c : <<t, c>> \in fresh => c \in {"AG", "MIC"} /\ HeldByVoice(t, c)'
  OBVIOUS
<1>2. ASSUME NEW k \in Tracked
      PROVE  KeyOwned(k)'
  <2> SUFFICES ASSUME NEW t \in Wires, <<t, Control(k)>> \in Undenied(host'),
                      ~HeldByVoice(t, Control(k))'
               PROVE  owner'[k] = t /\ Coming(k)'
    BY DEF KeyOwned
  <2>1. <<t, Control(k)>> \in Undenied(h)
    BY <1>1
  <2>2. owner[k] = t /\ Coming(k)
    BY <2>1 DEF Bare
  <2> QED BY <2>2 DEF Coming
<1>3. MicOwned'
  BY <1>1 DEF MicOwned, Bare
<1>4. ChordUnowned'
  <2>1. \A t \in Wires : <<t, "CHORD">> \notin Undenied(h)
    BY DEF Bare, Owned, ChordUnowned
  <2>2. \A t : <<t, "CHORD">> \notin fresh
    BY <1>1
  <2> QED BY <2>1, <2>2 DEF ChordUnowned
<1> QED BY <1>2, <1>3, <1>4 DEF Owned

LEMMA BareStays ==
  ASSUME Owned, NEW h, Bare(h), Stream' = Stream, Watched' = Watched, owner' = owner,
         StickOwned', Undenied(host') \subseteq Undenied(h)
  PROVE  Owned'
<1>1. PICK fresh : fresh = {}
  OBVIOUS
<1>2. /\ Undenied(host') \subseteq Undenied(h) \cup fresh
      /\ \A f \in fresh : \E t \in Wires :
           \E c \in {"AG", "MIC"} : f = <<t, c>> /\ HeldByVoice(t, c)'
  BY <1>1
<1> QED BY <1>2, BareOwned

LEMMA HeadOwned ==
  ASSUME HeldInv, NEW expired \in BOOLEAN, LoopHead(expired)
  PROVE  HeldInv'
<1>1. /\ UNCHANGED <<keyboard, scanned, queue, owner, connected>>
      /\ (pc' = "push" <=> pc = "push")
  BY DEF LoopHead, session
<1>2. /\ KeysTyped' /\ Stream' = Stream /\ Watched' = Watched /\ InStep
      /\ Paired(Stream', Watched')
  BY <1>1, StillStream DEF HeldInv, InStep
<1>3. PICK h \in StickCentred(host) :
        host' \in IF VoiceStranded THEN VoiceReleased(h) ELSE {h}
  BY DEF LoopHead
<1>4. /\ stick' = IF stick.due THEN [on |-> None, due |-> FALSE] ELSE stick
      /\ voice' = IF VoiceStranded THEN NoVoice ELSE voice
  BY DEF LoopHead, StickExpired
<1>5. /\ host \in Hosts /\ connected \subseteq Wires /\ stick \in Sticks /\ stick.on \in Places
      /\ "STICK" \in Controls /\ voice \in Voices
  BY DEF HeldInv, HostTyped, Controls, Sticks
<1>6. /\ h \in Hosts /\ Undenied(h) \subseteq Undenied(host)
      /\ stick.due => <<stick.on, "STICK">> \notin Undenied(h)
  <2>1. CASE stick.due
    BY <1>3, <1>5, <2>1, ReleaseFacts DEF StickCentred, StickExpired
  <2>2. CASE ~stick.due
    BY <1>3, <1>5, <2>2 DEF StickCentred, StickExpired
  <2> QED BY <2>1, <2>2
<1>7. host' \in Hosts /\ Undenied(host') \subseteq Undenied(h)
  BY <1>3, <1>6, VoiceReleaseFacts DEF HeldInv
<1>8. StickOwned'
  <2> SUFFICES ASSUME NEW t \in Wires, <<t, "STICK">> \in Undenied(host')
               PROVE  stick'.on = t
    BY DEF StickOwned
  <2>1. stick.on = t
    BY <1>6, <1>7 DEF HeldInv, Owned, StickOwned
  <2> QED BY <1>4, <1>6, <1>7, <2>1
<1>9. stick' \in Sticks /\ voice' \in Voices
  BY <1>4, <1>5 DEF Sticks, Voices, Places, NoVoice
<1>10. HostTyped'
  BY <1>1, <1>5, <1>7, <1>9 DEF HeldInv, HostTyped
<1>11. CASE VoiceStranded
  <2>1. Bare(host')
    BY <1>3, <1>6, <1>11, VoiceBare DEF HeldInv
  <2>2. Undenied(host') \subseteq Undenied(host')
    OBVIOUS
  <2>3. Owned'
    BY <1>1, <1>2, <1>8, <2>1, <2>2, BareStays DEF HeldInv
  <2> QED BY <1>2, <1>10, <2>3 DEF HeldInv
<1>12. CASE ~VoiceStranded
  <2>1. voice' = voice
    BY <1>4, <1>12
  <2>2. \A t \in Wires : \A c \in {"MIC", "CHORD"} :
          <<t, c>> \in Undenied(host') => <<t, c>> \in Undenied(host)
    BY <1>6, <1>7
  <2>3. ASSUME NEW k \in Tracked, NEW t \in Wires, <<t, Control(k)>> \in Undenied(host')
        PROVE  \/ owner'[k] = t /\ Coming(k)'
               \/ /\ <<t, Control(k)>> \in Undenied(host)
                  /\ ~(owner[k] = t /\ Coming(k))
    <3>1. <<t, Control(k)>> \in Undenied(host) /\ owner' = owner
      BY <1>1, <1>6, <1>7, <2>3
    <3> QED BY <1>2, <3>1 DEF Coming
  <2>4. Owned'
    BY <1>8, <1>10, <2>1, <2>2, <2>3, Settles DEF HeldInv
  <2> QED BY <1>2, <1>10, <2>4 DEF HeldInv
<1> QED BY <1>11, <1>12

\* BtnA: what the gesture held is released before it holds anything again.
LEMMA PressedBare ==
  ASSUME HostTyped, Owned, Stream' = Stream, Watched' = Watched, UNCHANGED <<owner, stick>>,
         ButtonPressed
  PROVE  host' \in Hosts /\ voice' \in Voices /\ Owned'
<1>1. /\ host \in Hosts /\ connected \subseteq Wires /\ {"AG", "MIC"} \subseteq Controls
      /\ Undenied(host) \subseteq Undenied(host)
  BY DEF HostTyped, Controls
<1>2. PICK h \in IF VoiceInUse THEN VoiceReleased(host) ELSE {host} :
        IF dim
        THEN host' = h /\ voice' = NoVoice
        ELSE \E a \in PressOn(h, Active, "AG"), m \in BOOLEAN :
               /\ m => Active \in connected
               /\ IF m
                  THEN /\ host' = Pressed(a.host, Active, "MIC")
                       /\ voice' = [mic |-> TRUE, agent |-> a.sent, on |-> Active]
                  ELSE /\ host' \in IF a.sent THEN ReleaseOn(a.host, Active, "AG") ELSE {a.host}
                       /\ voice' = NoVoice
  BY DEF ButtonPressed
<1>3. Bare(h)
  <2>1. h \in VoiceReleased(host)
    BY <1>2 DEF VoiceInUse, VoiceReleased
  <2> QED BY <1>1, <2>1, VoiceBare
<1>4. h \in Hosts /\ Undenied(h) \subseteq Undenied(host)
  BY <1>3 DEF Bare
<1>5. NoVoice \in Voices
  BY DEF NoVoice, Voices, Places
<1>6. ASSUME host' \in Hosts, Undenied(host') \subseteq Undenied(h)
      PROVE  Owned'
  <2>1. StickOwned'
    BY <1>4, <1>6 DEF Owned, StickOwned
  <2> QED BY <1>3, <1>6, <2>1, BareStays
<1>7. CASE dim
  BY <1>2, <1>4, <1>5, <1>6, <1>7
<1>8. CASE ~dim
  <2>1. PICK a \in PressOn(h, Active, "AG"), m \in BOOLEAN :
          /\ m => Active \in connected
          /\ IF m
             THEN /\ host' = Pressed(a.host, Active, "MIC")
                  /\ voice' = [mic |-> TRUE, agent |-> a.sent, on |-> Active]
             ELSE /\ host' \in IF a.sent THEN ReleaseOn(a.host, Active, "AG") ELSE {a.host}
                  /\ voice' = NoVoice
    BY <1>2, <1>8
  <2>2. /\ a.host \in Hosts /\ a.sent \in BOOLEAN
        /\ a.sent => Active \in Wires /\ a.host = Pressed(h, Active, "AG")
        /\ ~a.sent => a.host = h
    BY <1>1, <1>4, PressFacts
  <2>3. CASE m
    <3>1. Active \in Wires /\ host' = Pressed(a.host, Active, "MIC")
          /\ voice' = [mic |-> TRUE, agent |-> a.sent, on |-> Active]
      BY <1>1, <2>1, <2>3
    <3>2. host' \in Hosts /\ Undenied(host') = Undenied(a.host) \cup {<<Active, "MIC">>}
      BY <1>1, <2>2, <3>1, PressedFacts, PressedTyped
    <3> DEFINE fresh == IF a.sent THEN {<<Active, "AG">>, <<Active, "MIC">>} ELSE {<<Active, "MIC">>}
    <3>3. Undenied(host') \subseteq Undenied(h) \cup fresh
      <4>1. CASE a.sent
        <5>1. Undenied(a.host) = Undenied(h) \cup {<<Active, "AG">>}
          BY <1>4, <2>2, <4>1, PressedFacts
        <5> QED BY <3>2, <4>1, <5>1
      <4>2. CASE ~a.sent
        BY <2>2, <3>2, <4>2
      <4> QED BY <4>1, <4>2
    <3>4. voice' \in Voices /\ voice'.on = Active /\ voice'.mic /\ (a.sent => voice'.agent)
      BY <2>2, <3>1 DEF Voices, Places
    <3>5. \A f \in fresh : \E t \in Wires :
            \E c \in {"AG", "MIC"} : f = <<t, c>> /\ HeldByVoice(t, c)'
      <4>1. PICK t \in Wires : t = Active
        BY <3>1
      <4>2. HeldByVoice(t, "MIC")' /\ (a.sent => HeldByVoice(t, "AG")')
        BY <3>4, <4>1 DEF HeldByVoice
      <4> QED BY <4>1, <4>2
    <3>6. \A t : <<t, "STICK">> \notin fresh
      OBVIOUS
    <3> HIDE DEF fresh
    <3>7. StickOwned'
      BY <1>4, <3>3, <3>6 DEF Owned, StickOwned
    <3>8. Owned'
      BY <1>3, <3>3, <3>5, <3>7, BareOwned
    <3> QED BY <3>2, <3>4, <3>8
  <2>4. CASE ~m
    <3>1. host' \in IF a.sent THEN ReleaseOn(a.host, Active, "AG") ELSE {a.host}
      BY <2>1, <2>4
    <3>2. host' \in Hosts /\ Undenied(host') \subseteq Undenied(h)
      <4>1. CASE a.sent
        <5>1. Undenied(a.host) = Undenied(h) \cup {<<Active, "AG">>} /\ Active \in Places
          BY <1>4, <2>2, <4>1, PressedFacts DEF Places
        <5>2. host' \in ReleaseOn(a.host, Active, "AG")
          BY <3>1, <4>1
        <5>3. host' \in Hosts /\ Undenied(host') \subseteq Undenied(a.host)
              /\ <<Active, "AG">> \notin Undenied(host')
          BY <1>1, <2>2, <5>1, <5>2, ReleaseFacts
        <5> QED BY <5>1, <5>3
      <4>2. CASE ~a.sent
        BY <1>4, <2>2, <3>1, <4>2
      <4> QED BY <4>1, <4>2
    <3>3. voice' \in Voices
      BY <1>5, <2>1, <2>4
    <3> QED BY <1>6, <3>2, <3>3
  <2> QED BY <2>3, <2>4
<1> QED BY <1>7, <1>8

LEMMA ButtonOwned ==
  ASSUME HeldInv, VoiceButton
  PROVE  HeldInv'
<1>1. /\ UNCHANGED <<keyboard, scanned, queue, owner, stick, connected>>
      /\ (pc' = "push" <=> pc = "push")
  BY DEF VoiceButton, session
<1>2. /\ KeysTyped' /\ Stream' = Stream /\ Watched' = Watched /\ InStep
      /\ Paired(Stream', Watched')
  BY <1>1, StillStream DEF HeldInv, InStep
<1>3. ButtonPressed \/ ButtonReleased \/ UNCHANGED <<host, voice>>
  BY DEF VoiceButton
<1>4. /\ host \in Hosts /\ voice \in Voices /\ Undenied(host) \subseteq Undenied(host)
  BY DEF HeldInv, HostTyped
<1>5. CASE ButtonPressed
  <2>1. host' \in Hosts /\ voice' \in Voices /\ Owned'
    BY <1>1, <1>2, <1>5, PressedBare DEF HeldInv
  <2> QED BY <1>1, <1>2, <2>1 DEF HeldInv, HostTyped
<1>6. CASE ButtonReleased
  <2>1. host' \in VoiceReleased(host) /\ voice' = NoVoice
    BY <1>6 DEF ButtonReleased
  <2>2. Bare(host')
    BY <1>4, <2>1, VoiceBare DEF HeldInv
  <2>3. host' \in Hosts /\ Undenied(host') \subseteq Undenied(host)
        /\ Undenied(host') \subseteq Undenied(host')
    BY <2>2 DEF Bare
  <2>4. StickOwned'
    BY <1>1, <2>3 DEF HeldInv, Owned, StickOwned
  <2>5. Owned'
    BY <1>1, <1>2, <2>2, <2>3, <2>4, BareStays DEF HeldInv
  <2>6. voice' \in Voices
    BY <2>1 DEF NoVoice, Voices, Places
  <2> QED BY <1>1, <1>2, <2>3, <2>5, <2>6 DEF HeldInv, HostTyped
<1>7. CASE UNCHANGED <<host, voice>>
  <2>1. HostTyped' /\ Owned'
    BY <1>1, <1>2, <1>4, <1>7, Loses DEF HeldInv, HostTyped, InStep
  <2> QED BY <1>2, <2>1 DEF HeldInv
<1> QED BY <1>3, <1>5, <1>6, <1>7

\* The steps that change neither what is owned nor what is on its way.
LEMMA QuietOwned ==
  ASSUME HeldInv, UNCHANGED <<keyboard, scanned, queue, owner, voice>>, pc' = "push" <=> pc = "push",
         connected' \subseteq Wires, host' \in Hosts, Undenied(host') \subseteq Undenied(host),
         stick' \in Sticks, stick'.on = stick.on
  PROVE  HeldInv'
<1>1. KeysTyped' /\ InStep
  BY StillStream DEF HeldInv
<1>2. HostTyped' /\ Owned'
  BY <1>1, Loses DEF HeldInv, InStep
<1> QED BY <1>1, <1>2 DEF HeldInv, InStep

LEMMA LossFacts ==
  ASSUME NEW h \in Hosts, NEW lost
  PROVE  LET g == [held |-> h.held \ lost, denied |-> h.denied \ lost]
         IN  g \in Hosts /\ Undenied(g) \subseteq Undenied(h)
  BY DEF Hosts, Undenied

LEMMA SideOwned ==
  ASSUME HeldInv, HostSide \/ StickDue \/ PressButton \/ ReleaseButton \/ LoopRest
  PROVE  HeldInv'
<1>1. /\ connected \subseteq Wires /\ host \in Hosts /\ stick \in Sticks
      /\ Undenied(host) \subseteq Undenied(host)
  BY DEF HeldInv, HostTyped
<1>2. CASE HostSide
  <2>1. PICK t \in Wires : SessionStarts(t) \/ SessionIdles(t) \/ ConnectionLost(t)
    BY <1>2 DEF HostSide
  <2>2. UNCHANGED <<keyboard, scanned, queue, owner, voice, stick, pc>>
    BY <2>1 DEF SessionStarts, SessionIdles, ConnectionLost, gestures
  <2>3. connected' \subseteq Wires
    BY <1>1, <2>1 DEF SessionStarts, SessionIdles, ConnectionLost
  <2>4. host' \in Hosts /\ Undenied(host') \subseteq Undenied(host)
    <3>1. CASE SessionStarts(t) \/ SessionIdles(t)
      BY <1>1, <3>1 DEF SessionStarts, SessionIdles
    <3>2. CASE ConnectionLost(t)
      <4> DEFINE lost == {t} \X Controls
      <4>1. host' = [held |-> host.held \ lost, denied |-> host.denied \ lost]
        BY <3>2 DEF ConnectionLost
      <4> HIDE DEF lost
      <4> QED BY <1>1, <4>1, LossFacts
    <3> QED BY <2>1, <3>1, <3>2
  <2> QED BY <1>1, <2>2, <2>3, <2>4, QuietOwned
<1>3. CASE StickDue
  <2>1. UNCHANGED <<keyboard, scanned, queue, owner, voice, pc, host, connected>>
        /\ stick' = [stick EXCEPT !.due = TRUE]
    BY <1>3 DEF StickDue, session
  <2>2. stick' \in Sticks /\ stick'.on = stick.on
    BY <1>1, <2>1 DEF Sticks
  <2> QED BY <1>1, <2>1, <2>2, QuietOwned
<1>4. CASE PressButton \/ ReleaseButton
  <2>1. UNCHANGED <<keyboard, scanned, queue, owner, voice, stick, pc, host, connected>>
    BY <1>4 DEF PressButton, ReleaseButton, session, gestures
  <2> QED BY <1>1, <2>1, QuietOwned
<1>5. CASE LoopRest
  <2>1. UNCHANGED <<keyboard, scanned, queue, owner, voice, stick, host, connected>>
        /\ pc = "pop" /\ pc' = "head"
    BY <1>5 DEF LoopRest, session, gestures
  <2> QED BY <1>1, <2>1, QuietOwned
<1> QED BY <1>2, <1>3, <1>4, <1>5

\* A key that moves, and a scan.
LEMMA FreshOwned ==
  ASSUME HeldInv, KeysTyped', InStep, UNCHANGED <<owner, voice, stick, host, connected>>
  PROVE  HeldInv'
<1>1. /\ connected' \subseteq Wires /\ host' \in Hosts /\ stick' \in Sticks
      /\ Undenied(host') \subseteq Undenied(host) /\ stick'.on = stick.on
  BY DEF HeldInv, HostTyped
<1>2. HostTyped' /\ Owned'
  BY <1>1, Loses DEF HeldInv, InStep
<1> QED BY <1>2 DEF HeldInv, InStep

LEMMA HeldInit == Init => HeldInv
<1> SUFFICES ASSUME Init
             PROVE  HeldInv
  OBVIOUS
<1>1. KeysTyped
  BY InputEdgesAssumption DEF Init, KeysTyped
<1>2. HostTyped
  BY DEF Init, HostTyped, Hosts, Pairs, Voices, NoVoice, Sticks, Places
<1>3. Stream = <<>>
  BY DEF Init, Stream
<1>4. Paired(Stream, Watched)
  BY <1>3 DEF Paired
<1>5. Undenied(host) = {}
  BY DEF Init, Undenied
<1>6. Owned
  BY <1>5 DEF Owned, KeyOwned, MicOwned, StickOwned, ChordUnowned
<1> QED BY <1>1, <1>2, <1>4, <1>6 DEF HeldInv

LEMMA HeldNext == HeldInv /\ [Next]_vars => HeldInv'
<1> SUFFICES ASSUME HeldInv, [Next]_vars
             PROVE  HeldInv'
  OBVIOUS
<1>1. CASE UNCHANGED vars
  BY <1>1 DEF vars, keyboard, session, surface, gestures, HeldInv, KeysTyped, HostTyped, Owned,
     KeyOwned, Coming, MicOwned, StickOwned, ChordUnowned, HeldByVoice, Stream, Watched
<1>2. ASSUME NEW x \in BOOLEAN, LoopHead(x)
      PROVE  HeldInv'
  BY <1>2, HeadOwned
<1>3. CASE VoiceButton
  BY <1>3, ButtonOwned
<1>4. ASSUME NEW r \in BOOLEAN, Scan(r)
      PROVE  HeldInv'
  <2>1. KeysTyped' /\ InStep
    BY <1>4, ScanKeys, ScanStream DEF HeldInv
  <2>2. UNCHANGED <<owner, voice, stick, host, connected>>
    BY <1>4 DEF Scan, gestures, session
  <2> QED BY <2>1, <2>2, FreshOwned
<1>5. CASE PushEdge
  BY <1>5, PushOwned
<1>6. CASE HandleEdge
  BY <1>6, EdgeOwned
<1>7. ASSUME NEW k \in Keys, KeyDown(k) \/ KeyUp(k)
      PROVE  HeldInv'
  <2>1. KeysTyped' /\ InStep
    BY <1>7, StrokeKeys, StrokeStream DEF HeldInv
  <2>2. UNCHANGED <<owner, voice, stick, host, connected>>
    BY <1>7 DEF KeyDown, KeyUp, gestures, session
  <2> QED BY <2>1, <2>2, FreshOwned
<1>8. CASE HostSide \/ StickDue \/ PressButton \/ ReleaseButton \/ LoopRest
  BY <1>8, SideOwned
<1> QED BY <1>1, <1>2, <1>3, <1>4, <1>5, <1>6, <1>7, <1>8 DEF Next, MainStep, User

\* What comes next of a key is a release: the key is down, or the release is on its way.
LEMMA UpComes ==
  ASSUME KeysTyped, NEW k \in Kinds, NextIsUp(Stream, 0, k, Watched)
  PROVE  k \in Keys /\ ReleaseComing(k)
<1>1. CASE k \in Watched
  BY <1>1 DEF Watched, ReleaseComing, KeysTyped
<1>2. CASE \E j \in 0 + 1 .. Len(Stream) : Stream[j].key = k /\ ~Stream[j].down
  <2>1. PICK j \in 1 .. Len(Stream) : Stream[j].key = k /\ ~Stream[j].down
    BY <1>2
  <2>2. Stream[j] = Edge(k, FALSE)
    <3>1. Stream[j] \in Edges
      BY StreamTyped
    <3>2. ~Stream[j].again
      BY <2>1, <3>1 DEF Edges
    <3>3. \A e \in Edges : e = [key |-> e.key, down |-> e.down, again |-> e.again]
                           /\ e.down \in BOOLEAN /\ e.again \in BOOLEAN
      BY DEF Edges
    <3>4. Stream[j].down = FALSE /\ Stream[j].again = FALSE
      BY <2>1, <3>1, <3>2, <3>3
    <3> QED BY <2>1, <3>1, <3>3, <3>4 DEF Edge
  <2>4. k \in Keys
    <3>1. Stream[j] \in Edges
      BY StreamTyped
    <3> QED BY <2>1, <3>1 DEF Edges
  <2>3. Stream[j] \in ToSet(queue) \cup ToSet(scanned) \cup ToSet(fifo)
    <3>0. /\ Len(Stream) = Len(queue) + Len(scanned) + Len(fifo)
          /\ queue \in Seq(Edges) /\ scanned \in Seq(Edges) /\ fifo \in Seq(Edges)
          /\ Len(queue) \in Nat /\ Len(scanned) \in Nat /\ Len(fifo) \in Nat
      BY StreamTyped DEF KeysTyped
    <3>1. CASE j \in 1 .. Len(queue)
      <4>1. Stream[j] = queue[j]
        BY <3>1, StreamTyped
      <4> QED BY <3>0, <3>1, <4>1 DEF ToSet
    <3>2. CASE j \in Len(queue) + 1 .. Len(queue) + Len(scanned)
      <4>1. j - Len(queue) \in 1 .. Len(scanned) /\ Len(queue) + (j - Len(queue)) = j
        BY <3>0, <3>2
      <4>2. Stream[Len(queue) + (j - Len(queue))] = scanned[j - Len(queue)]
        BY <4>1, StreamTyped
      <4> QED BY <3>0, <4>1, <4>2 DEF ToSet
    <3>3. CASE j \in Len(queue) + Len(scanned) + 1 .. Len(Stream)
      <4> DEFINE i == j - (Len(queue) + Len(scanned))
      <4>1. i \in 1 .. Len(fifo) /\ Len(queue) + Len(scanned) + i = j
        BY <3>0, <3>3
      <4>2. Stream[Len(queue) + Len(scanned) + i] = fifo[i]
        BY <4>1, StreamTyped
      <4> QED BY <3>0, <4>1, <4>2 DEF ToSet
    <3> QED BY <3>0, <3>1, <3>2, <3>3
  <2> QED BY <2>2, <2>3, <2>4 DEF ReleaseComing
<1> QED BY <1>1, <1>2 DEF NextIsUp

LEMMA HeldExplained == HeldInv => HeldIsExplained
<1> SUFFICES ASSUME HeldInv, NEW h \in host.held \ host.denied
             PROVE  \/ HeldByKey(h[1], h[2])
                    \/ HeldByVoice(h[1], h[2])
                    \/ h[2] = "STICK" /\ stick.on = h[1]
  BY DEF HeldIsExplained
<1>1. PICK t \in Wires, c \in Controls : h = <<t, c>>
  BY DEF HeldInv, HostTyped, Hosts, Pairs
<1>2. <<t, c>> \in Undenied(host)
  BY <1>1 DEF Undenied
<1>3. CASE c = "MIC"
  BY <1>1, <1>2, <1>3 DEF HeldInv, Owned, MicOwned
<1>4. CASE c = "STICK"
  BY <1>1, <1>2, <1>4 DEF HeldInv, Owned, StickOwned
<1>5. CASE c = "CHORD"
  BY <1>2, <1>5 DEF HeldInv, Owned, ChordUnowned
<1>6. ASSUME NEW k \in Tracked, c = Control(k)
      PROVE  HeldByVoice(t, c) \/ HeldByKey(t, c)
  <2>1. \/ HeldByVoice(t, c)
        \/ owner[k] = t /\ Coming(k)
    BY <1>2, <1>6 DEF HeldInv, Owned, KeyOwned
  <2>2. ASSUME owner[k] = t, Coming(k)
        PROVE  HeldByKey(t, c)
    <3>1. PICK x \in Kinds : Meaning(x) = k /\ NextIsUp(Stream, 0, x, Watched)
      BY <2>2 DEF Coming
    <3>2. x \in Keys /\ ReleaseComing(x)
      BY <3>1, UpComes DEF HeldInv
    <3> QED BY <1>6, <2>2, <3>1, <3>2 DEF HeldByKey
  <2> QED BY <2>1, <2>2
<1>7. c \in {"MIC", "STICK", "CHORD"} \/ \E k \in Tracked : c = Control(k)
  BY DEF Controls, Control, Tracked
<1> QED BY <1>1, <1>3, <1>4, <1>5, <1>6, <1>7

-----------------------------------------------------------------------------

\* No control is held on a host that nobody will release there: a press is
\* remembered with its transport, and the release of its key is on its way, its
\* key is down, the voice gesture owns it, or the joystick will be centred
\* (keys.cpp:46-64, main.cpp:496-536).
THEOREM HeldCorrect == Spec => []HeldIsExplained
<1>1. Init => HeldInv
  BY HeldInit
<1>2. HeldInv /\ [Next]_vars => HeldInv'
  BY HeldNext
<1>3. HeldInv => HeldIsExplained
  BY HeldExplained
<1> QED BY <1>1, <1>2, <1>3, PTL DEF Spec

-----------------------------------------------------------------------------
(* The places of a queue whose edges may not be dropped, in ascending order. *)

Lists(f, S) ==
  /\ f \in Seq(Nat)
  /\ \A i \in 1 .. Len(f) : f[i] \in S
  /\ \A p \in S : \E i \in 1 .. Len(f) : f[i] = p
  /\ \A i, j \in 1 .. Len(f) : i < j => f[i] < f[j]

\* There is but one way to list the members of a set.
LEMMA SoleList ==
  ASSUME NEW S, NEW f, NEW g, Lists(f, S), Lists(g, S)
  PROVE  f = g
<1>1. /\ f \in Seq(Nat) /\ g \in Seq(Nat) /\ Len(f) \in Nat /\ Len(g) \in Nat
      /\ \A i \in 1 .. Len(f) : f[i] \in Nat
      /\ \A i \in 1 .. Len(g) : g[i] \in Nat
  BY DEF Lists
<1> DEFINE T == {i \in Nat \ {0} : ~(i \in 1 .. Len(f) <=> i \in 1 .. Len(g))
                                   \/ (i \in 1 .. Len(f) /\ i \in 1 .. Len(g) /\ f[i] # g[i])}
<1>2. CASE T = {}
  <2>1. \A i \in Nat \ {0} : i \in 1 .. Len(f) <=> i \in 1 .. Len(g)
    BY <1>2
  <2>2. Len(f) = Len(g)
    <3>1. Len(f) # 0 => Len(f) \in 1 .. Len(g)
      BY <1>1, <2>1
    <3>2. Len(g) # 0 => Len(g) \in 1 .. Len(f)
      BY <1>1, <2>1
    <3> QED BY <1>1, <3>1, <3>2
  <2>3. ASSUME NEW i \in 1 .. Len(f)
        PROVE  f[i] = g[i]
    <3>1. i \in Nat \ {0} /\ i \in 1 .. Len(g) /\ i \notin T
      BY <1>1, <1>2, <2>2
    <3> QED BY <3>1
  <2> QED BY <1>1, <2>2, <2>3
<1>3. CASE T # {}
  <2>1. T \in SUBSET Nat
    OBVIOUS
  <2>2. PICK n \in T : \A m \in T : n <= m
    BY <1>3, <2>1, LeastFacts
  <2>3. n \in Nat \ {0} /\ \A m \in 1 .. n - 1 : m \notin T
    BY <2>2
  <2>4. \A m \in 1 .. n - 1 : /\ m \in 1 .. Len(f) <=> m \in 1 .. Len(g)
                              /\ m \in 1 .. Len(f) => f[m] = g[m]
    BY <2>3
  <2>5. \/ n \in 1 .. Len(f) /\ n \notin 1 .. Len(g)
        \/ n \in 1 .. Len(g) /\ n \notin 1 .. Len(f)
        \/ n \in 1 .. Len(f) /\ n \in 1 .. Len(g) /\ f[n] < g[n]
        \/ n \in 1 .. Len(f) /\ n \in 1 .. Len(g) /\ g[n] < f[n]
    BY <1>1, <2>2
  <2> HIDE DEF T
  <2>6. ASSUME n \in 1 .. Len(f), n \in 1 .. Len(g) => f[n] < g[n]
        PROVE  FALSE
    <3>1. PICK j \in 1 .. Len(g) : g[j] = f[n]
      BY <2>6 DEF Lists
    <3>2. CASE j < n
      <4>1. j \in 1 .. Len(f) /\ f[j] = g[j] /\ f[j] < f[n]
        BY <1>1, <2>3, <2>4, <2>6, <3>2 DEF Lists
      <4> QED BY <1>1, <2>6, <3>1, <4>1
    <3>3. CASE j >= n
      <4>1. n \in 1 .. Len(g) /\ (n = j \/ g[n] < g[j])
        BY <2>3, <3>3 DEF Lists
      <4> QED BY <1>1, <2>6, <3>1, <4>1
    <3> QED BY <2>3, <3>2, <3>3
  <2>7. ASSUME n \in 1 .. Len(g), n \in 1 .. Len(f) => g[n] < f[n]
        PROVE  FALSE
    <3>1. PICK j \in 1 .. Len(f) : f[j] = g[n]
      BY <2>7 DEF Lists
    <3>2. CASE j < n
      <4>1. j \in 1 .. Len(g) /\ f[j] = g[j] /\ g[j] < g[n]
        BY <1>1, <2>3, <2>4, <2>7, <3>2 DEF Lists
      <4> QED BY <1>1, <2>7, <3>1, <4>1
    <3>3. CASE j >= n
      <4>1. n \in 1 .. Len(f) /\ (n = j \/ f[n] < f[j])
        BY <2>3, <3>3 DEF Lists
      <4> QED BY <1>1, <2>7, <3>1, <4>1
    <3> QED BY <2>3, <3>2, <3>3
  <2> QED BY <2>5, <2>6, <2>7
<1> QED BY <1>2, <1>3

LEMMA OrderFacts ==
  ASSUME NEW S \in SUBSET Nat, NEW f, Lists(f, S)
  PROVE  Ascending(S) = f
<1>1. f \in Seq(Nat) /\ Len(f) \in Nat
  BY DEF Lists
<1> DEFINE n == Len(f)
           C == Cardinality(S)
<1>2. f \in [1 .. n -> S]
  BY <1>1 DEF Lists
<1>3. IsFiniteSet(1 .. n) /\ Cardinality(1 .. n) = n
  <2>1. n \in Nat
    BY <1>1
  <2> HIDE DEF n
  <2>2. IsFiniteSet(1 .. n) /\ Cardinality(1 .. n) = IF 1 > n THEN 0 ELSE n - 1 + 1
    BY <2>1, FS_Interval
  <2> QED BY <2>1, <2>2
<1>4. f \in Surjection(1 .. n, S)
  BY <1>2 DEF Lists, Surjection
<1>5. f \in Injection(1 .. n, S)
  <2>1. ASSUME NEW i \in 1 .. n, NEW j \in 1 .. n, f[i] = f[j]
        PROVE  i = j
    <3>1. f[i] \in Nat /\ f[j] \in Nat
      BY <1>1
    <3>2. ~(i < j) /\ ~(j < i)
      BY <2>1, <3>1 DEF Lists
    <3> QED BY <3>2
  <2> QED BY <1>2, <2>1 DEF Injection, IsInjective
<1>6. IsFiniteSet(S) /\ C = n
  <2>1. IsFiniteSet(S) /\ (Cardinality(S) = Cardinality(1 .. n) <=> f \in Injection(1 .. n, S))
    BY <1>3, <1>4, FS_Surjection
  <2> QED BY <1>3, <1>5, <2>1
<1> HIDE DEF n, C
<1>7. /\ f \in [1 .. C -> S]
      /\ \A i, j \in DOMAIN f : i < j => f[i] < f[j]
  BY <1>1, <1>2, <1>6 DEF Lists, n
<1>8. ASSUME NEW g \in [1 .. C -> S], \A i, j \in DOMAIN g : i < j => g[i] < g[j]
      PROVE  g = f
  <2>1. n \in Nat
    BY <1>1 DEF n
  <2>2. g \in Injection(1 .. n, S)
    <3>1. ASSUME NEW i \in 1 .. n, NEW j \in 1 .. n, g[i] = g[j]
          PROVE  i = j
      <4>1. g[i] \in Nat /\ g[j] \in Nat /\ i \in DOMAIN g /\ j \in DOMAIN g
        BY <1>6, <1>8
      <4>2. ~(i < j) /\ ~(j < i)
        BY <1>8, <3>1, <4>1
      <4> QED BY <4>2
    <3> QED BY <1>6, <1>8, <3>1 DEF Injection, IsInjective
  <2>3. g \in Surjection(1 .. n, S)
    BY <1>3, <1>6, <2>2, FS_Injection DEF C
  <2>4. g \in Seq(Nat) /\ Len(g) = n
    <3>1. g \in [1 .. n -> Nat]
      BY <1>6, <1>8
    <3> QED BY <2>1, <3>1
  <2>5. Lists(g, S)
    BY <1>6, <1>8, <2>3, <2>4 DEF Lists, Surjection
  <2> QED BY <2>5, SoleList
<1> QED BY <1>7, <1>8 DEF Ascending, C

LEMMA WaitingFacts ==
  ASSUME NEW q \in Seq(Edges)
  PROVE  /\ Waiting(q) \in SUBSET Nat
         /\ \A i : i \in Waiting(q) <=> i \in 1 .. Len(q) /\ ~Droppable(q[i])
  BY DEF Waiting

\* What waits in an ascending list of places.
Told(e) == [key |-> e.key, down |-> e.down]

LEMMA KeptFacts ==
  ASSUME NEW q \in Seq(Edges), NEW f, Lists(f, Waiting(q))
  PROVE  KeptOf(q) = [i \in 1 .. Len(f) |-> Told(q[f[i]])]
<1>1. Ascending(Waiting(q)) = f
  BY WaitingFacts, OrderFacts
<1>2. DOMAIN f = 1 .. Len(f)
  BY DEF Lists
<1> QED BY <1>1, <1>2 DEF KeptOf, Told

LEMMA ListAppend ==
  ASSUME NEW q \in Seq(Edges), NEW e \in Edges, NEW f, Lists(f, Waiting(q))
  PROVE  Lists(IF Droppable(e) THEN f ELSE Append(f, Len(q) + 1), Waiting(Append(q, e)))
<1> DEFINE r == Append(q, e)
           n == Len(q) + 1
<1>1. /\ r \in Seq(Edges) /\ Len(q) \in Nat /\ Len(r) = n /\ r[n] = e
      /\ \A i \in 1 .. Len(q) : r[i] = q[i]
  BY AppendFacts
<1>2. n \in Nat /\ n > Len(q)
  BY <1>1
<1> HIDE DEF r
<1>3. \A i : i \in Waiting(r) <=> i \in Waiting(q) \/ (i = n /\ ~Droppable(e))
  <2>1. \A i : i \in Waiting(r) <=> i \in 1 .. n /\ ~Droppable(r[i])
    BY <1>1, WaitingFacts
  <2>2. \A i : i \in 1 .. n <=> i \in 1 .. Len(q) \/ i = n
    BY <1>1
  <2>3. \A i : i \in Waiting(q) <=> i \in 1 .. Len(q) /\ ~Droppable(q[i])
    BY WaitingFacts
  <2>4. n \notin 1 .. Len(q)
    BY <1>1
  <2> HIDE DEF n
  <2> QED BY <1>1, <2>1, <2>2, <2>3, <2>4
<1>4. CASE Droppable(e)
  <2>1. Waiting(r) = Waiting(q)
    BY <1>3, <1>4
  <2> QED BY <1>4, <2>1 DEF r
<1>5. CASE ~Droppable(e)
  <2> DEFINE g == Append(f, n)
  <2>1. f \in Seq(Nat)
    BY DEF Lists
  <2>2. /\ g \in Seq(Nat) /\ Len(f) \in Nat /\ Len(g) = Len(f) + 1 /\ g[Len(f) + 1] = n
        /\ \A i \in 1 .. Len(f) : g[i] = f[i]
    BY <1>2, <2>1, AppendFacts
  <2> HIDE DEF g
  <2>3. \A i \in 1 .. Len(g) : i \in 1 .. Len(f) \/ i = Len(f) + 1
    BY <2>2
  <2>4. \A i \in 1 .. Len(g) : g[i] \in Waiting(r)
    BY <1>3, <1>5, <2>2, <2>3 DEF Lists
  <2>5. ASSUME NEW p \in Waiting(r)
        PROVE  \E i \in 1 .. Len(g) : g[i] = p
    <3>1. CASE p \in Waiting(q)
      <4>1. PICK i \in 1 .. Len(f) : f[i] = p
        BY <3>1 DEF Lists
      <4>2. i \in 1 .. Len(g)
        BY <2>2
      <4> QED BY <2>2, <4>1, <4>2
    <3>2. CASE p = n
      <4>1. Len(f) + 1 \in 1 .. Len(g)
        BY <2>2
      <4> QED BY <2>2, <3>2, <4>1
    <3> QED BY <1>3, <2>5, <3>1, <3>2
  <2>6. ASSUME NEW i \in 1 .. Len(g), NEW j \in 1 .. Len(g), i < j
        PROVE  g[i] < g[j]
    <3>1. i \in 1 .. Len(f) /\ f[i] \in 1 .. Len(q)
      <4>1. i \in 1 .. Len(f)
        BY <2>2, <2>6
      <4>2. f[i] \in Waiting(q)
        BY <4>1 DEF Lists
      <4> QED BY <4>1, <4>2, WaitingFacts
    <3>2. CASE j \in 1 .. Len(f)
      BY <2>2, <2>6, <3>1, <3>2 DEF Lists
    <3>3. CASE j = Len(f) + 1
      BY <1>1, <2>2, <3>1, <3>3
    <3> QED BY <2>3, <3>2, <3>3
  <2>7. Lists(g, Waiting(r))
    BY <2>2, <2>4, <2>5, <2>6 DEF Lists
  <2> QED BY <1>5, <2>7 DEF r, g
<1> QED BY <1>4, <1>5

\* Every queue has its list: the shortest one that had none would be a longer queue than
\* one that has.
LEMMA ListExists == \A q \in Seq(Edges) : \E f : Lists(f, Waiting(q))
<1> DEFINE T == {n \in Nat : \E q \in Seq(Edges) : Len(q) = n /\ \A f : ~Lists(f, Waiting(q))}
<1>1. CASE T = {}
  <2> TAKE q \in Seq(Edges)
  <2>1. Len(q) \in Nat /\ Len(q) \notin T
    BY <1>1
  <2> QED BY <2>1
<1>2. CASE T # {}
  <2>1. T \in SUBSET Nat
    OBVIOUS
  <2>2. PICK n \in T : \A m \in T : n <= m
    BY <1>2, <2>1, LeastFacts
  <2>3. PICK q \in Seq(Edges) : n \in Nat /\ Len(q) = n /\ \A f : ~Lists(f, Waiting(q))
    BY <2>2
  <2>4. CASE n = 0
    <3>1. Waiting(q) = {}
      BY <2>3, <2>4, WaitingFacts
    <3>2. Lists(<<>>, Waiting(q))
      BY <3>1 DEF Lists
    <3> QED BY <2>3, <3>2
  <2>5. CASE n # 0
    <3> DEFINE p == SubSeq(q, 1, n - 1)
    <3>1. /\ p \in Seq(Edges) /\ Len(p) = n - 1 /\ n - 1 \in Nat /\ q[n] \in Edges
          /\ \A i \in 1 .. n - 1 : p[i] = q[i]
      BY <2>3, <2>5
    <3> HIDE DEF p
    <3>2. PICK f : Lists(f, Waiting(p))
      <4>1. n - 1 \notin T
        BY <2>2, <2>3, <3>1
      <4> QED BY <3>1, <4>1
    <3>3. q = Append(p, q[n])
      BY <2>3, <2>5, <3>1
    <3>4. \E g : Lists(g, Waiting(Append(p, q[n])))
      BY <3>1, <3>2, ListAppend
    <3> QED BY <2>3, <3>3, <3>4
  <2> QED BY <2>4, <2>5
<1> QED BY <1>1, <1>2

LEMMA ListingFacts ==
  ASSUME NEW S, NEW n \in Nat, NEW g \in [1 .. n -> S]
  PROVE  g \in Seq(S) /\ Len(g) = n
  OBVIOUS

LEMMA SeqFacts ==
  ASSUME NEW S, NEW s \in Seq(S)
  PROVE  s \in [1 .. Len(s) -> S]
  OBVIOUS

LEMMA AppendListing ==
  ASSUME NEW S, NEW n \in Nat, NEW g \in [1 .. n -> S], NEW e \in S
  PROVE  Append(g, e) = [i \in 1 .. n + 1 |-> IF i = n + 1 THEN e ELSE g[i]]
<1>1. g \in Seq(S) /\ Len(g) = n
  BY ListingFacts
<1>2. /\ Append(g, e) \in Seq(S) /\ Len(Append(g, e)) = n + 1 /\ Append(g, e)[n + 1] = e
      /\ \A i \in 1 .. n : Append(g, e)[i] = g[i]
  BY <1>1, AppendFacts
<1> DEFINE a == Append(g, e)
<1> HIDE DEF a
<1>3. a \in [1 .. n + 1 -> S]
  <2>1. a \in Seq(S) /\ Len(a) = n + 1
    BY <1>2 DEF a
  <2> QED BY <2>1, SeqFacts
<1>5. \A i \in 1 .. n + 1 : a[i] = IF i = n + 1 THEN e ELSE g[i]
  <2>1. \A i \in 1 .. n + 1 : i = n + 1 \/ i \in 1 .. n
    OBVIOUS
  <2> QED BY <1>2, <2>1 DEF a
<1>4. a = [i \in 1 .. n + 1 |-> IF i = n + 1 THEN e ELSE g[i]]
  BY <1>3, <1>5
<1> QED BY <1>4 DEF a

LEMMA TailListing ==
  ASSUME NEW S, NEW n \in Nat, NEW g \in [1 .. n -> S], n >= 1
  PROVE  g # <<>> /\ Head(g) = g[1] /\ Tail(g) = [i \in 1 .. n - 1 |-> g[i + 1]]
<1>1. g \in Seq(S) /\ Len(g) = n /\ g # <<>> /\ Head(g) = g[1]
  BY ListingFacts
<1>2. /\ Tail(g) \in Seq(S) /\ Len(Tail(g)) = n - 1
      /\ \A i \in 1 .. n - 1 : Tail(g)[i] = g[i + 1]
  BY <1>1, TailFacts
<1> DEFINE a == Tail(g)
<1> HIDE DEF a
<1>3. a \in [1 .. n - 1 -> S] /\ \A i \in 1 .. n - 1 : a[i] = g[i + 1]
  <2>1. a \in Seq(S) /\ Len(a) = n - 1
    BY <1>2 DEF a
  <2> QED BY <1>2, <2>1, SeqFacts DEF a
<1>4. a = [i \in 1 .. n - 1 |-> g[i + 1]]
  BY <1>3
<1> QED BY <1>1, <1>4 DEF a

LEMMA KeptAppend ==
  ASSUME NEW q \in Seq(Edges), NEW e \in Edges
  PROVE  KeptOf(Append(q, e)) = IF Droppable(e) THEN KeptOf(q) ELSE Append(KeptOf(q), Told(e))
<1> DEFINE r == Append(q, e)
<1>1. PICK f : Lists(f, Waiting(q))
  BY ListExists
<1>2. /\ r \in Seq(Edges) /\ Len(q) \in Nat /\ r[Len(q) + 1] = e
      /\ \A i \in 1 .. Len(q) : r[i] = q[i]
  BY AppendFacts
<1>3. Lists(IF Droppable(e) THEN f ELSE Append(f, Len(q) + 1), Waiting(r))
  BY <1>1, ListAppend
<1> HIDE DEF r
<1>4. KeptOf(q) = [i \in 1 .. Len(f) |-> Told(q[f[i]])] /\ f \in Seq(Nat) /\ Len(f) \in Nat
  BY <1>1, KeptFacts DEF Lists
<1>5. \A i \in 1 .. Len(f) : r[f[i]] = q[f[i]]
  BY <1>1, <1>2, WaitingFacts DEF Lists
<1>6. CASE Droppable(e)
  <2>1. KeptOf(r) = [i \in 1 .. Len(f) |-> Told(r[f[i]])]
    BY <1>2, <1>3, <1>6, KeptFacts
  <2>2. KeptOf(r) = KeptOf(q)
    BY <1>4, <1>5, <2>1
  <2> QED BY <1>6, <2>2 DEF r
<1>7. CASE ~Droppable(e)
  <2> DEFINE g == Append(f, Len(q) + 1)
  <2>1. /\ g \in Seq(Nat) /\ Len(g) = Len(f) + 1 /\ g[Len(f) + 1] = Len(q) + 1
        /\ \A i \in 1 .. Len(f) : g[i] = f[i]
    BY <1>2, <1>4, AppendFacts
  <2>2. Lists(g, Waiting(r))
    BY <1>3, <1>7
  <2> HIDE DEF g
  <2>3. KeptOf(r) = [i \in 1 .. Len(f) + 1 |-> Told(r[g[i]])]
    BY <1>2, <2>1, <2>2, KeptFacts
  <2>4. \A i \in 1 .. Len(f) + 1 : Told(r[g[i]]) = IF i = Len(f) + 1 THEN Told(e) ELSE KeptOf(q)[i]
    <3> TAKE i \in 1 .. Len(f) + 1
    <3>1. CASE i = Len(f) + 1
      BY <1>2, <2>1, <3>1
    <3>2. CASE i # Len(f) + 1
      <4>1. i \in 1 .. Len(f)
        BY <1>4, <3>2
      <4>2. KeptOf(q)[i] = Told(q[f[i]])
        BY <1>4, <4>1
      <4> QED BY <1>5, <2>1, <3>2, <4>1, <4>2
    <3> QED BY <3>1, <3>2
  <2> DEFINE k == KeptOf(q)
             S == {k[i] : i \in 1 .. Len(f)} \cup {Told(e)}
             n == Len(f)
  <2>5. n \in Nat /\ k \in [1 .. n -> S] /\ Told(e) \in S
    BY <1>4
  <2>8. KeptOf(r) = [i \in 1 .. n + 1 |-> IF i = n + 1 THEN Told(e) ELSE k[i]]
    BY <2>3, <2>4
  <2> HIDE DEF k, S, n
  <2>6. Append(k, Told(e)) = [i \in 1 .. n + 1 |-> IF i = n + 1 THEN Told(e) ELSE k[i]]
    BY <2>5, AppendListing
  <2>7. KeptOf(r) = Append(KeptOf(q), Told(e))
    BY <2>6, <2>8 DEF k
  <2> QED BY <1>7, <2>7 DEF r
<1> QED BY <1>6, <1>7

\* What is left when the n-th edge leaves.
LEMMA WaitingWithout ==
  ASSUME NEW q \in Seq(Edges), NEW r \in Seq(Edges), NEW n \in 1 .. Len(q), Without(r, q, n)
  PROVE  \A j \in Nat : /\ j < n => (j \in Waiting(r) <=> j \in Waiting(q))
                                    /\ (j \in Waiting(r) => r[j] = q[j])
                        /\ j >= n => (j \in Waiting(r) <=> j + 1 \in Waiting(q))
                                     /\ (j \in Waiting(r) => r[j] = q[j + 1])
<1>1. Len(r) = Len(q) - 1 /\ Len(q) \in Nat
  BY DEF Without
<1> TAKE j \in Nat
<1>2. ASSUME j < n
      PROVE  (j \in Waiting(r) <=> j \in Waiting(q)) /\ (j \in Waiting(r) => r[j] = q[j])
  <2>1. j \in 1 .. Len(r) <=> j \in 1 .. Len(q)
    BY <1>1, <1>2
  <2>2. j \in 1 .. Len(r) => r[j] = q[j]
    BY <1>1, <1>2 DEF Without
  <2> QED BY <2>1, <2>2, WaitingFacts
<1>3. ASSUME j >= n
      PROVE  (j \in Waiting(r) <=> j + 1 \in Waiting(q)) /\ (j \in Waiting(r) => r[j] = q[j + 1])
  <2>1. j \in 1 .. Len(r) <=> j + 1 \in 1 .. Len(q)
    BY <1>1, <1>3
  <2>2. j \in 1 .. Len(r) => r[j] = q[j + 1]
    BY <1>1, <1>3 DEF Without
  <2> QED BY <2>1, <2>2, WaitingFacts
<1> QED BY <1>2, <1>3

LEMMA KeptWithoutDroppable ==
  ASSUME NEW q \in Seq(Edges), NEW r \in Seq(Edges), NEW n \in 1 .. Len(q), Without(r, q, n),
         Droppable(q[n])
  PROVE  KeptOf(r) = KeptOf(q)
<1>1. PICK f : Lists(f, Waiting(q))
  BY ListExists
<1>2. f \in Seq(Nat) /\ Len(f) \in Nat /\ \A i \in 1 .. Len(f) : f[i] \in Waiting(q)
  BY <1>1 DEF Lists
<1>3. \A i \in 1 .. Len(f) : f[i] \in Nat /\ f[i] >= 1 /\ f[i] # n
  BY <1>2, WaitingFacts
<1> DEFINE g == [i \in 1 .. Len(f) |-> IF f[i] < n THEN f[i] ELSE f[i] - 1]
<1>4. g \in Seq(Nat) /\ Len(g) = Len(f)
  <2>1. g \in [1 .. Len(f) -> Nat]
    BY <1>3
  <2> HIDE DEF g
  <2> QED BY <1>2, <2>1, ListingFacts
<1>5. \A i \in 1 .. Len(f) : g[i] = IF f[i] < n THEN f[i] ELSE f[i] - 1
  OBVIOUS
<1> HIDE DEF g
<1>6. \A i \in 1 .. Len(f) : g[i] \in Nat /\ g[i] \in Waiting(r) /\ r[g[i]] = q[f[i]]
  <2> TAKE i \in 1 .. Len(f)
  <2>1. CASE f[i] < n
    <3>1. f[i] \in Nat /\ f[i] \in Waiting(q) /\ g[i] = f[i]
      BY <1>2, <1>3, <1>5, <2>1
    <3>2. f[i] \in Waiting(r) /\ r[f[i]] = q[f[i]]
      BY <2>1, <3>1, WaitingWithout
    <3> QED BY <3>1, <3>2
  <2>2. CASE f[i] > n
    <3>1. g[i] = f[i] - 1 /\ g[i] \in Nat /\ g[i] >= n /\ g[i] + 1 = f[i]
      BY <1>3, <1>5, <2>2
    <3>2. g[i] + 1 \in Waiting(q)
      BY <1>2, <3>1
    <3>3. g[i] \in Waiting(r) /\ r[g[i]] = q[g[i] + 1]
      BY <3>1, <3>2, WaitingWithout
    <3> QED BY <3>1, <3>3
  <2> QED BY <1>3, <2>1, <2>2
<1>7. ASSUME NEW p \in Waiting(r)
      PROVE  \E i \in 1 .. Len(g) : g[i] = p
  <2>1. p \in Nat
    BY WaitingFacts
  <2>2. CASE p < n
    <3>1. p \in Waiting(q)
      BY <2>1, <2>2, WaitingWithout
    <3>2. PICK i \in 1 .. Len(f) : f[i] = p
      BY <1>1, <3>1 DEF Lists
    <3> QED BY <1>4, <1>5, <2>2, <3>2
  <2>3. CASE p >= n
    <3>1. p + 1 \in Waiting(q)
      BY <2>1, <2>3, WaitingWithout
    <3>2. PICK i \in 1 .. Len(f) : f[i] = p + 1
      BY <1>1, <3>1 DEF Lists
    <3>3. g[i] = p
      BY <1>5, <2>1, <2>3, <3>2
    <3> QED BY <1>4, <3>2, <3>3
  <2> QED BY <2>1, <2>2, <2>3
<1>8. ASSUME NEW i \in 1 .. Len(g), NEW j \in 1 .. Len(g), i < j
      PROVE  g[i] < g[j]
  <2>1. i \in 1 .. Len(f) /\ j \in 1 .. Len(f) /\ f[i] < f[j]
    BY <1>1, <1>4, <1>8 DEF Lists
  <2>2. /\ f[i] \in Nat /\ f[j] \in Nat /\ f[i] # n /\ f[j] # n
        /\ g[i] = IF f[i] < n THEN f[i] ELSE f[i] - 1
        /\ g[j] = IF f[j] < n THEN f[j] ELSE f[j] - 1
    BY <1>3, <1>5, <2>1
  <2> QED BY <2>1, <2>2
<1>9. Lists(g, Waiting(r))
  BY <1>4, <1>6, <1>7, <1>8 DEF Lists
<1>10. KeptOf(r) = [i \in 1 .. Len(f) |-> Told(r[g[i]])] /\ KeptOf(q) = [i \in 1 .. Len(f) |-> Told(q[f[i]])]
  BY <1>1, <1>4, <1>9, KeptFacts
<1> QED BY <1>6, <1>10

LEMMA KeptTail ==
  ASSUME NEW q \in Seq(Edges), NEW r \in Seq(Edges), 1 \in 1 .. Len(q), Without(r, q, 1),
         ~Droppable(q[1])
  PROVE  KeptOf(q) # <<>> /\ Head(KeptOf(q)) = Told(q[1]) /\ KeptOf(r) = Tail(KeptOf(q))
<1>1. PICK f : Lists(f, Waiting(q))
  BY ListExists
<1>2. f \in Seq(Nat) /\ Len(f) \in Nat /\ \A i \in 1 .. Len(f) : f[i] \in Waiting(q)
  BY <1>1 DEF Lists
<1>3. \A i \in 1 .. Len(f) : f[i] \in Nat /\ f[i] >= 1
  BY <1>2, WaitingFacts
<1>4. Len(f) >= 1 /\ f[1] = 1
  <2>1. 1 \in Waiting(q)
    BY WaitingFacts
  <2>2. PICK i \in 1 .. Len(f) : f[i] = 1
    BY <1>1, <2>1 DEF Lists
  <2>3. 1 \in 1 .. Len(f) /\ Len(f) >= 1
    BY <1>2
  <2>4. i > 1 => f[1] < f[i]
    BY <1>1, <2>3 DEF Lists
  <2>5. f[1] \in Nat /\ f[1] >= 1
    BY <1>3, <2>3
  <2>6. i = 1
    BY <2>2, <2>4, <2>5
  <2> QED BY <2>2, <2>3, <2>6
<1> DEFINE n == Len(f) - 1
           g == [i \in 1 .. n |-> f[i + 1] - 1]
<1>5. n \in Nat /\ \A i \in 1 .. n : i + 1 \in 1 .. Len(f)
  BY <1>2, <1>4
<1>6. \A i \in 1 .. n : f[i + 1] > 1
  <2> TAKE i \in 1 .. n
  <2>1. i + 1 \in 1 .. Len(f) /\ 1 \in 1 .. Len(f) /\ 1 < i + 1
    BY <1>2, <1>4, <1>5
  <2>2. f[1] < f[i + 1]
    BY <1>1, <2>1 DEF Lists
  <2> QED BY <1>4, <2>2
<1> HIDE DEF n
<1>7. \A i \in 1 .. n : g[i] = f[i + 1] - 1 /\ g[i] \in Nat /\ g[i] >= 1 /\ g[i] + 1 = f[i + 1]
  BY <1>3, <1>5, <1>6
<1>8. g \in Seq(Nat) /\ Len(g) = n
  <2>1. g \in [1 .. n -> Nat]
    BY <1>7
  <2> HIDE DEF g
  <2> QED BY <1>5, <2>1
<1> HIDE DEF g
<1>9. \A i \in 1 .. n : g[i] \in Waiting(r) /\ r[g[i]] = q[f[i + 1]]
  <2> TAKE i \in 1 .. n
  <2>1. g[i] + 1 \in Waiting(q)
    BY <1>2, <1>5, <1>7
  <2>2. g[i] \in Waiting(r) /\ r[g[i]] = q[g[i] + 1]
    BY <1>7, <2>1, WaitingWithout
  <2> QED BY <1>7, <2>2
<1>10. ASSUME NEW p \in Waiting(r)
       PROVE  \E i \in 1 .. Len(g) : g[i] = p
  <2>1. p \in Nat /\ p >= 1
    BY WaitingFacts
  <2>2. p + 1 \in Waiting(q)
    BY <2>1, WaitingWithout
  <2>3. PICK i \in 1 .. Len(f) : f[i] = p + 1
    BY <1>1, <2>2 DEF Lists
  <2>4. i # 1
    BY <1>4, <2>1, <2>3
  <2>5. i - 1 \in 1 .. n /\ (i - 1) + 1 = i
    BY <1>2, <2>4 DEF n
  <2>6. g[i - 1] = f[(i - 1) + 1] - 1
    BY <1>7, <2>5
  <2>7. g[i - 1] = p
    BY <2>1, <2>3, <2>5, <2>6
  <2> QED BY <1>8, <2>5, <2>7
<1>11. ASSUME NEW i \in 1 .. Len(g), NEW j \in 1 .. Len(g), i < j
       PROVE  g[i] < g[j]
  <2>1. i + 1 \in 1 .. Len(f) /\ j + 1 \in 1 .. Len(f) /\ i + 1 < j + 1
    BY <1>5, <1>8, <1>11
  <2>2. f[i + 1] < f[j + 1] /\ f[i + 1] \in Nat /\ f[j + 1] \in Nat
    BY <1>1, <1>3, <2>1 DEF Lists
  <2>3. g[i] = f[i + 1] - 1 /\ g[j] = f[j + 1] - 1
    BY <1>7, <1>8
  <2> QED BY <2>2, <2>3
<1>12. Lists(g, Waiting(r))
  BY <1>8, <1>9, <1>10, <1>11 DEF Lists
<1> DEFINE k == KeptOf(q)
<1>13. /\ KeptOf(r) = [i \in 1 .. n |-> Told(r[g[i]])]
       /\ k = [i \in 1 .. Len(f) |-> Told(q[f[i]])]
  BY <1>1, <1>8, <1>12, KeptFacts
<1>14. \A i \in 1 .. n : Told(r[g[i]]) = k[i + 1]
  <2> TAKE i \in 1 .. n
  <2>1. k[i + 1] = Told(q[f[i + 1]])
    BY <1>5, <1>13
  <2> QED BY <1>9, <2>1
<1>15. k \in [1 .. Len(f) -> {k[i] : i \in 1 .. Len(f)}]
  BY <1>13
<1>16. KeptOf(r) = [i \in 1 .. Len(f) - 1 |-> k[i + 1]]
  BY <1>13, <1>14 DEF n
<1>19. k[1] = Told(q[1])
  BY <1>2, <1>4, <1>13
<1> HIDE DEF k
<1>17. k # <<>> /\ Head(k) = k[1] /\ Tail(k) = [i \in 1 .. Len(f) - 1 |-> k[i + 1]]
  BY <1>2, <1>4, <1>15, TailListing
<1>18. KeptOf(r) = Tail(k)
  BY <1>16, <1>17
<1> QED BY <1>17, <1>18, <1>19 DEF k

LEMMA KeptTyped ==
  ASSUME NEW q \in Seq(Edges)
  PROVE  KeptOf(q) \in Seq([key : Keys, down : BOOLEAN])
<1>1. PICK f : Lists(f, Waiting(q))
  BY ListExists
<1>2. KeptOf(q) = [i \in 1 .. Len(f) |-> Told(q[f[i]])] /\ Len(f) \in Nat
  BY <1>1, KeptFacts DEF Lists
<1>3. \A i \in 1 .. Len(f) : Told(q[f[i]]) \in [key : Keys, down : BOOLEAN]
  <2> TAKE i \in 1 .. Len(f)
  <2>1. f[i] \in 1 .. Len(q)
    BY <1>1, WaitingFacts DEF Lists
  <2>2. q[f[i]] \in Edges
    BY <2>1
  <2> QED BY <2>2 DEF Edges, Told
<1>4. KeptOf(q) \in [1 .. Len(f) -> [key : Keys, down : BOOLEAN]]
  BY <1>2, <1>3
<1> QED BY <1>2, <1>4, ListingFacts

-----------------------------------------------------------------------------
(* The queue keeps its promise.                                              *)

LEMMA KeptEmpty == KeptOf(<<>>) = <<>>
<1> DEFINE q == <<>>
<1>1. q \in Seq(Edges) /\ Len(q) = 0
  OBVIOUS
<1> HIDE DEF q
<1>2. Waiting(q) = {}
  <2>1. \A i : i \in Waiting(q) => i \in 1 .. Len(q)
    BY <1>1, WaitingFacts
  <2>2. \A i \in 1 .. Len(q) : FALSE
    BY <1>1
  <2> QED BY <2>1, <2>2
<1>3. Lists(<<>>, Waiting(q))
  BY <1>2 DEF Lists
<1>4. KeptOf(q) = [i \in 1 .. Len(<<>>) |-> Told(q[<<>>[i]])]
  BY <1>1, <1>3, KeptFacts
<1>5. KeptOf(q) = <<>>
  BY <1>4
<1> QED BY <1>5 DEF q

LEMMA PromiseInit == Init => Promise!Init
<1> SUFFICES ASSUME Init
             PROVE  Promise!Init
  OBVIOUS
<1>1. queue = <<>> /\ scanned = <<>> /\ Len(queue) = 0
  BY DEF Init
<1>2. KeptOf(queue) = <<>> /\ KeptOf(scanned) = <<>>
  BY <1>1, KeptEmpty
<1>3. RoomOf(queue) = "some"
  BY <1>1, InputEdgesAssumption DEF RoomOf, Full
<1> QED BY <1>2, <1>3 DEF Promise!Init

LEMMA RoomFacts ==
  ASSUME NEW q \in Seq(Edges)
  PROVE  /\ RoomOf(q) \in Promise!Rooms
         /\ ~Full(q) => RoomOf(q) = "some"
         /\ Full(q) => RoomOf(q) # "some"
         /\ Full(q) /\ (\A i \in 1 .. Len(q) : ~Droppable(q[i])) => RoomOf(q) = "none"
         /\ \A i \in 1 .. Len(q) : Droppable(q[i]) => RoomOf(q) # "none"
<1>1. DOMAIN q = 1 .. Len(q)
  OBVIOUS
<1>2. CASE ~Full(q)
  BY <1>2 DEF RoomOf, Promise!Rooms
<1>3. CASE Full(q) /\ \E i \in DOMAIN q : Droppable(q[i])
  BY <1>1, <1>3 DEF RoomOf, Promise!Rooms
<1>4. CASE Full(q) /\ ~(\E i \in DOMAIN q : Droppable(q[i]))
  BY <1>1, <1>4 DEF RoomOf, Promise!Rooms
<1> QED BY <1>2, <1>3, <1>4

\* The queue never holds more than it has places.
Fits == Len(queue) <= QueueCapacity

LEMMA FitsNext == KeysTyped /\ Fits /\ [Next]_vars => Fits'
<1> SUFFICES ASSUME KeysTyped, Fits, [Next]_vars
             PROVE  Fits'
  OBVIOUS
<1>1. queue \in Seq(Edges) /\ QueueCapacity \in Nat /\ Len(queue) \in Nat
  BY InputEdgesAssumption DEF KeysTyped
<1>2. CASE PushEdge
  <2> DEFINE e == Head(scanned)
             p == RemoveAt(queue, Victim(queue))
  <2>1. scanned \in Seq(Edges) /\ scanned # <<>> /\ queue' = QueuePush(queue, e)
    BY <1>2 DEF PushEdge, KeysTyped
  <2>2. e \in Edges
    BY <2>1, TailFacts
  <2> HIDE DEF e
  <2>3. CASE ~Full(queue)
    <3>1. queue' = Append(queue, e) /\ Len(queue') = Len(queue) + 1
      BY <1>1, <2>1, <2>2, <2>3, PushFacts, AppendFacts
    <3> QED BY <1>1, <2>3, <3>1 DEF Fits, Full
  <2>4. CASE Full(queue) /\ (e.again \/ e.down)
    <3>1. queue' = queue
      BY <1>1, <2>1, <2>2, <2>4, PushFacts
    <3> QED BY <3>1 DEF Fits
  <2>5. CASE Full(queue) /\ ~(e.again \/ e.down)
    <3>1. queue' = Append(p, e) /\ p \in Seq(Edges) /\ Victim(queue) \in 1 .. Len(queue)
      BY <1>1, <2>1, <2>2, <2>5, PushFacts, VictimFacts
    <3>2. Without(p, queue, Victim(queue))
      BY <1>1, <3>1, RemoveFacts
    <3> HIDE DEF p
    <3>3. Len(p) = Len(queue) - 1 /\ Len(queue') = Len(p) + 1
      BY <2>2, <3>1, <3>2, AppendFacts DEF Without
    <3> QED BY <1>1, <3>3 DEF Fits
  <2> QED BY <2>3, <2>4, <2>5
<1>3. CASE HandleEdge
  <2>1. queue' = Tail(queue) /\ Len(Tail(queue)) = Len(queue) - 1
    BY <1>1, <1>3, TailFacts DEF HandleEdge
  <2> QED BY <1>1, <2>1 DEF Fits
<1>4. PushEdge \/ HandleEdge \/ queue' = queue
  BY DEF Next, MainStep, User, HostSide, LoopHead, VoiceButton, Scan, LoopRest, StickDue, KeyDown,
     KeyUp, PressButton, ReleaseButton, SessionStarts, SessionIdles, ConnectionLost, vars
<1> QED BY <1>2, <1>3, <1>4 DEF Fits

\* What a push and a pop make of the edges that may not be dropped.
LEMMA PushPromise ==
  ASSUME KeysTyped, KeysTyped', PushEdge
  PROVE  \/ \E k \in Keys : Promise!Press(k) \/ Promise!Release(k)
         \/ Promise!Droppable
         \/ UNCHANGED Promise!vars
<1> DEFINE e == Head(scanned)
           v == Victim(queue)
<1>1. /\ queue \in Seq(Edges) /\ scanned \in Seq(Edges) /\ scanned # <<>>
      /\ queue' = QueuePush(queue, e) /\ scanned' = Tail(scanned) /\ queue' \in Seq(Edges)
  BY DEF PushEdge, KeysTyped
<1>2. e \in Edges /\ e.key \in Keys /\ e.down \in BOOLEAN /\ e = scanned[1]
  BY <1>1, TailFacts DEF Edges
<1>3. /\ Tail(scanned) \in Seq(Edges) /\ 1 \in 1 .. Len(scanned)
      /\ Without(Tail(scanned), scanned, 1)
  BY <1>1, TailFacts DEF Without
<1> HIDE DEF e
<1>4. RoomOf(queue)' \in Promise!Rooms /\ RoomOf(queue) \in Promise!Rooms
  BY <1>1, RoomFacts
<1>5. CASE Droppable(e)
  <2>1. KeptOf(scanned)' = KeptOf(scanned)
    BY <1>1, <1>2, <1>3, <1>5, KeptWithoutDroppable
  <2>2. e.down
    BY <1>5 DEF Droppable
  <2>3. CASE ~Full(queue)
    <3>1. queue' = Append(queue, e) /\ RoomOf(queue) = "some"
      BY <1>1, <1>2, <2>3, PushFacts, RoomFacts
    <3>2. KeptOf(queue)' = KeptOf(queue)
      BY <1>1, <1>2, <1>5, <3>1, KeptAppend
    <3>3. Len(queue') = Len(queue) + 1 /\ queue'[Len(queue) + 1] = e /\ Len(queue) \in Nat
      BY <1>1, <1>2, <3>1, AppendFacts
    <3>4. RoomOf(queue') # "none"
      <4>1. Len(queue) + 1 \in 1 .. Len(queue')
        BY <3>3
      <4> QED BY <1>1, <1>5, <3>3, <4>1, RoomFacts
    <3> QED BY <2>1, <3>1, <3>2, <3>4 DEF Promise!Droppable
  <2>4. CASE Full(queue)
    <3>1. queue' = queue
      BY <1>1, <1>2, <2>2, <2>4, PushFacts
    <3>2. KeptOf(queue)' = KeptOf(queue) /\ RoomOf(queue)' = RoomOf(queue)
      BY <3>1
    <3> QED BY <2>1, <3>2 DEF Promise!vars
  <2> QED BY <2>3, <2>4
<1>6. CASE ~Droppable(e)
  <2>1. /\ KeptOf(scanned) # <<>> /\ Head(KeptOf(scanned)) = Told(e)
        /\ KeptOf(scanned)' = Tail(KeptOf(scanned))
    BY <1>1, <1>2, <1>3, <1>6, KeptTail
  <2>2. Promise!Offered(Told(e))
    BY <1>4, <2>1 DEF Promise!Offered
  <2>3. CASE e.down
    <3>1. Told(e) = [key |-> e.key, down |-> TRUE]
      BY <1>2, <2>3 DEF Told
    <3>2. Promise!Offered(Promise!Down(e.key))
      BY <2>2, <3>1 DEF Promise!Down
    <3>3. CASE ~Full(queue)
      <4>1. queue' = Append(queue, e) /\ RoomOf(queue) = "some"
        BY <1>1, <1>2, <3>3, PushFacts, RoomFacts
      <4>2. KeptOf(queue)' = Append(KeptOf(queue), Told(e))
        BY <1>1, <1>2, <1>6, <4>1, KeptAppend
      <4>3. Promise!Press(e.key)
        BY <3>1, <3>2, <4>1, <4>2 DEF Promise!Press, Promise!Down
      <4> QED BY <1>2, <4>3
    <3>4. CASE Full(queue)
      <4>1. queue' = queue /\ RoomOf(queue) # "some"
        BY <1>1, <1>2, <2>3, <3>4, PushFacts, RoomFacts
      <4>2. KeptOf(queue)' = KeptOf(queue)
        BY <4>1
      <4>3. Promise!Press(e.key)
        BY <3>2, <4>1, <4>2 DEF Promise!Press
      <4> QED BY <1>2, <4>3
    <3> QED BY <3>3, <3>4
  <2>4. CASE ~e.down
    <3>1. Told(e) = [key |-> e.key, down |-> FALSE] /\ ~e.again
      BY <1>2, <2>4 DEF Told, Edges
    <3>2. Promise!Offered(Promise!Up(e.key))
      BY <2>2, <3>1 DEF Promise!Up
    <3>3. CASE ~Full(queue)
      <4>1. queue' = Append(queue, e) /\ RoomOf(queue) = "some"
        BY <1>1, <1>2, <3>3, PushFacts, RoomFacts
      <4>2. KeptOf(queue)' = Append(KeptOf(queue), Told(e))
        BY <1>1, <1>2, <1>6, <4>1, KeptAppend
      <4>3. Promise!Release(e.key)
        BY <3>1, <3>2, <4>1, <4>2 DEF Promise!Release, Promise!Up
      <4> QED BY <1>2, <4>3
    <3>4. CASE Full(queue)
      <4> DEFINE p == RemoveAt(queue, v)
      <4>1. queue' = Append(p, e) /\ p \in Seq(Edges)
        BY <1>1, <1>2, <2>4, <3>1, <3>4, PushFacts
      <4>2. /\ v \in 1 .. Len(queue)
            /\ \/ Droppable(queue[v])
               \/ v = 1 /\ \A i \in 1 .. Len(queue) : ~Droppable(queue[i])
        BY <1>1, <3>4, VictimFacts
      <4>3. Without(p, queue, v)
        BY <1>1, <4>2, RemoveFacts
      <4> HIDE DEF p, v
      <4>4. KeptOf(queue)' = Append(KeptOf(p), Told(e))
        BY <1>2, <1>6, <4>1, KeptAppend
      <4>5. CASE Droppable(queue[v])
        <5>1. KeptOf(p) = KeptOf(queue)
          BY <1>1, <4>1, <4>2, <4>3, <4>5, KeptWithoutDroppable
        <5>2. RoomOf(queue) # "none"
          BY <1>1, <4>2, <4>5, RoomFacts
        <5>3. Promise!Release(e.key)
          BY <3>1, <3>2, <4>4, <5>1, <5>2 DEF Promise!Release, Promise!Up
        <5> QED BY <1>2, <5>3
      <4>6. CASE v = 1 /\ \A i \in 1 .. Len(queue) : ~Droppable(queue[i])
        <5>1. 1 \in 1 .. Len(queue) /\ ~Droppable(queue[1]) /\ Without(p, queue, 1)
          BY <4>2, <4>3, <4>6
        <5>2. KeptOf(p) = Tail(KeptOf(queue))
          BY <1>1, <4>1, <5>1, KeptTail
        <5>3. RoomOf(queue) = "none"
          BY <1>1, <3>4, <4>6, RoomFacts
        <5>4. Promise!Release(e.key)
          BY <3>1, <3>2, <4>4, <5>2, <5>3 DEF Promise!Release, Promise!Up
        <5> QED BY <1>2, <5>4
      <4> QED BY <4>2, <4>5, <4>6
    <3> QED BY <3>3, <3>4
  <2> QED BY <1>2, <2>3, <2>4
<1> QED BY <1>5, <1>6

LEMMA PopPromise ==
  ASSUME KeysTyped, Fits, HandleEdge
  PROVE  Promise!Take \/ Promise!Droppable
<1>1. queue \in Seq(Edges) /\ queue # <<>> /\ queue' = Tail(queue) /\ scanned' = scanned
  BY DEF HandleEdge, KeysTyped
<1>2. /\ Tail(queue) \in Seq(Edges) /\ Len(queue) \in Nat \ {0} /\ Len(Tail(queue)) = Len(queue) - 1
      /\ \A i \in 1 .. Len(queue) - 1 : Tail(queue)[i] = queue[i + 1]
  BY <1>1, TailFacts
<1>3. Without(Tail(queue), queue, 1) /\ 1 \in 1 .. Len(queue)
  BY <1>2 DEF Without
<1>4. KeptOf(scanned)' = KeptOf(scanned)
  BY <1>1
<1>5. RoomOf(queue)' = "some"
  <2>1. \A n \in Nat \ {0} : n <= QueueCapacity => n - 1 # QueueCapacity
    BY InputEdgesAssumption
  <2>2. ~Full(Tail(queue))
    BY <1>2, <2>1 DEF Fits, Full
  <2> QED BY <1>1, <1>2, <2>2, RoomFacts
<1>6. CASE Droppable(queue[1])
  <2>1. KeptOf(queue)' = KeptOf(queue)
    BY <1>1, <1>2, <1>3, <1>6, KeptWithoutDroppable
  <2>2. RoomOf(queue) # "none"
    BY <1>1, <1>3, <1>6, RoomFacts
  <2> QED BY <1>4, <1>5, <2>1, <2>2 DEF Promise!Droppable
<1>7. CASE ~Droppable(queue[1])
  <2>1. KeptOf(queue) # <<>> /\ KeptOf(queue)' = Tail(KeptOf(queue))
    BY <1>1, <1>2, <1>3, <1>7, KeptTail
  <2> QED BY <1>4, <1>5, <2>1 DEF Promise!Take
<1> QED BY <1>6, <1>7

\* A scan is made when everything the last one found has been pushed.
LEMMA ScanPromise ==
  ASSUME KeysTyped, KeysTyped', NEW r \in BOOLEAN, Scan(r)
  PROVE  Promise!Found
<1>1. scanned = <<>> /\ scanned' \in Seq(Edges) /\ queue' = queue
  BY DEF KeysTyped, Scan
<1>2. KeptOf(scanned) = <<>>
  BY <1>1, KeptEmpty
<1>3. KeptOf(scanned)' \in Seq([key : Keys, down : BOOLEAN])
  BY <1>1, KeptTyped
<1>4. KeptOf(queue)' = KeptOf(queue) /\ RoomOf(queue)' = RoomOf(queue)
  BY <1>1
<1> QED BY <1>2, <1>3, <1>4 DEF Promise!Found

LEMMA PromiseNext == HeldInv /\ HeldInv' /\ Fits /\ [Next]_vars => [Promise!Next]_(Promise!vars)
<1> SUFFICES ASSUME HeldInv, HeldInv', Fits, [Next]_vars
             PROVE  [Promise!Next]_(Promise!vars)
  OBVIOUS
<1>1. KeysTyped /\ KeysTyped'
  BY DEF HeldInv
<1>2. CASE UNCHANGED <<queue, scanned>>
  <2>1. UNCHANGED <<KeptOf(queue), KeptOf(scanned), RoomOf(queue)>>
    BY <1>2
  <2> QED BY <2>1 DEF Promise!vars
<1>3. CASE PushEdge
  BY <1>1, <1>3, PushPromise DEF Promise!Next
<1>4. CASE HandleEdge
  BY <1>1, <1>4, PopPromise DEF Promise!Next
<1>5. CASE \E r \in BOOLEAN : Scan(r)
  BY <1>1, <1>5, ScanPromise DEF Promise!Next
<1>6. \/ PushEdge \/ HandleEdge \/ (\E r \in BOOLEAN : Scan(r))
      \/ UNCHANGED <<queue, scanned>>
  BY DEF Next, MainStep, User, HostSide, LoopHead, VoiceButton, LoopRest, StickDue, KeyDown,
     KeyUp, PressButton, ReleaseButton, SessionStarts, SessionIdles, ConnectionLost, vars
<1> QED BY <1>2, <1>3, <1>4, <1>5, <1>6

\* The queue of key edges implements its promise: edges leave in the order they came, a
\* release that is offered is never refused, and one that waits is sacrificed only to
\* another release, the oldest first, when nothing droppable is left
\* (input_event_queue.h:9-40).
THEOREM PromiseKept == Spec => QueueKeepsPromise
<1>1. Init => HeldInv /\ Fits
  <2>1. Init => Fits
    BY InputEdgesAssumption DEF Init, Fits
  <2> QED BY <2>1, HeldInit
<1>2. HeldInv /\ Fits /\ [Next]_vars => HeldInv' /\ Fits'
  BY HeldNext, FitsNext DEF HeldInv
<1>3. Init => Promise!Init
  BY PromiseInit
<1>4. HeldInv /\ HeldInv' /\ Fits /\ [Next]_vars => [Promise!Next]_(Promise!vars)
  BY PromiseNext
<1> QED BY <1>1, <1>2, <1>3, <1>4, PTL DEF Spec, QueueKeepsPromise, Promise!Spec
=============================================================================
