--------------------------- MODULE BondStoreProofs --------------------------
(***************************************************************************)
(* Theorems about BondStore, for every set of tables and peers, every      *)
(* capacity, and every bound on calls, failures and losses of power.       *)
(***************************************************************************)
EXTENDS BondStore, SequenceTheorems, TLAPS

-----------------------------------------------------------------------------
(* Types.                                                                  *)

Rec == [peer : Peers, gen : Nat]
Keys == [item : {"blob", "count"}, table : Table]
Persisting == {"count", "blob", "commit", "adopt"}

FlashTyped ==
  flash \in [schema : BOOLEAN, count : [Table -> Nat], blob : [Table -> Seq(Rec)]]
RamTyped ==
  /\ ram \in [Table -> Seq(Rec)]
  /\ \A t \in Table : Len(ram[t]) <= Capacity
HostTyped ==
  /\ host \in [at : Persisting \cup Starting \cup {"idle"}, table : Table, next : Seq(Rec),
               left : Seq(Keys)]
  /\ Len(host.next) <= Capacity
MainTyped == main \in [at : {"idle", "erase", "clear"}, left : Seq(Keys)]
HistoryTyped ==
  /\ made \in Nat /\ overlap \in BOOLEAN
  /\ trusted \in [Table -> BOOLEAN] /\ gone \in [Table -> SUBSET Rec]
  /\ confirmed \in [Table -> Seq(Rec)] /\ unread \in SUBSET Table /\ unsure \in BOOLEAN

Typed == FlashTyped /\ RamTyped /\ HostTyped /\ MainTyped /\ HistoryTyped

-----------------------------------------------------------------------------
(* The records of a table: those the stack works with, those in flash,     *)
(* whatever the count says, and those on their way there.                  *)

Writing(t) == IF host.at \in Persisting /\ host.table = t THEN Records(host.next) ELSE {}
InUse(t) == Records(ram[t]) \cup Records(flash.blob[t]) \cup Writing(t)

\* A new record is none of the old ones.
Known == \A t \in Table : \A r \in gone[t] \cup InUse(t) : r.gen <= made

\* A record that is gone is nowhere, not even in a blob that no count fits.
Buried == \A t \in Table : gone[t] \cap InUse(t) = {}

-----------------------------------------------------------------------------
(* The steps of each task in flash.                                        *)

Apart == Busy(host) => main.at = "idle"

\* A reset or a migration has erased the keys it does not list any more.
Erased(left) ==
  \A t \in Table : /\ BlobKey(t) \in Records(left) \/ flash.blob[t] = <<>>
                   /\ CountKey(t) \in Records(left) \/ flash.count[t] = 0
Resetting ==
  /\ main.at = "erase" => Erased(main.left)
  /\ main.at = "clear" => Erased(<<>>) /\ flash.schema
  /\ host.at = "migrate" => Erased(host.left)

\* persist() has put the count, then the blob of its table there, and until the
\* commit nothing is confirmed.
InFlash ==
  /\ host.at \in {"blob", "commit", "adopt"} => flash.count[host.table] = Len(host.next)
  /\ host.at \in {"commit", "adopt"} => flash.blob[host.table] = host.next
  /\ host.at \in {"blob", "commit"} => ~trusted[host.table]

Empty == host.at \in Starting => \A t \in Table : ram[t] = <<>>

\* A table whose last write was confirmed is in flash as it was confirmed, and a restart
\* will not migrate it away.
Kept ==
  \A t \in Table : trusted[t] => Restored(t) = confirmed[t] /\ flash.schema
Sure ==
  /\ host.at \notin {"off", "migrate"} => flash.schema \/ unsure
  /\ host.at = "migrate" => \A t \in Table : ~trusted[t]

\* The stack works with what was confirmed, if the start could read it.
Agreed ==
  host.at \notin Starting =>
    \A t \in Table : trusted[t] /\ t \notin unread => Expected(t) = confirmed[t]

Confirmed == Kept /\ Sure /\ Agreed

BondInv ==
  /\ Typed /\ Known /\ Empty
  /\ ~overlap => Apart /\ Buried /\ Resetting /\ InFlash /\ Confirmed

-----------------------------------------------------------------------------
(* Records and keys.                                                       *)

LEMMA RecordsOf ==
  ASSUME NEW S, NEW q \in Seq(S)
  PROVE  /\ Records(q) \subseteq S
         /\ Records(<<>>) = {}
         /\ \A e \in S : Records(Append(q, e)) = Records(q) \cup {e}
         /\ q # <<>> => Records(q) = Records(Tail(q)) \cup {Head(q)}
  <1>1. DOMAIN q = 1..Len(q) /\ Len(q) \in Nat /\ \A i \in 1..Len(q) : q[i] \in S
    OBVIOUS
  <1>2. Records(q) \subseteq S
    BY <1>1 DEF Records
  <1>3. Records(<<>>) = {}
    BY DEF Records
  <1>4. ASSUME NEW e \in S, NEW r, r = Append(q, e)
        PROVE  Records(r) = Records(q) \cup {e}
    <2>1. DOMAIN r = 1..(Len(q) + 1) /\ r[Len(q) + 1] = e /\ \A i \in 1..Len(q) : r[i] = q[i]
      BY <1>4
    <2>2. Records(r) \subseteq Records(q) \cup {e}
      BY <1>1, <2>1 DEF Records
    <2>3. e \in Records(r)
      BY <1>1, <2>1 DEF Records
    <2>4. \A i \in 1..Len(q) : q[i] \in Records(r)
      BY <1>1, <2>1 DEF Records
    <2>5. Records(q) \subseteq Records(r)
      BY <1>1, <2>4 DEF Records
    <2> QED BY <2>2, <2>3, <2>5
  <1>5. ASSUME q # <<>>, NEW r, r = Tail(q)
        PROVE  Records(q) = Records(r) \cup {Head(q)}
    <2>1. /\ Head(q) = q[1] /\ Len(q) >= 1 /\ DOMAIN r = 1..(Len(q) - 1)
          /\ \A i \in 1..(Len(q) - 1) : r[i] = q[i + 1]
      BY <1>5, <1>1
    <2>2. \A i \in 2..Len(q) : i - 1 \in 1..(Len(q) - 1) /\ r[i - 1] = q[i]
      BY <1>1, <2>1
    <2>3. \A i \in 1..Len(q) : q[i] \in Records(r) \cup {Head(q)}
      <3>1. TAKE i \in 1..Len(q)
      <3>2. CASE i = 1
        BY <3>2, <2>1
      <3>3. CASE i # 1
        BY <3>3, <2>1, <2>2, <1>1 DEF Records
      <3> QED BY <3>2, <3>3
    <2>4. \A i \in DOMAIN r : r[i] \in Records(q)
      BY <1>1, <2>1 DEF Records
    <2>5. Head(q) \in Records(q)
      BY <1>1, <2>1 DEF Records
    <2>6. Records(q) \subseteq Records(r) \cup {Head(q)}
      BY <1>1, <2>3 DEF Records
    <2>7. Records(r) \subseteq Records(q)
      BY <2>4 DEF Records
    <2> QED BY <2>5, <2>6, <2>7
  <1> QED BY <1>2, <1>3, <1>4, <1>5

LEMMA TablesFacts ==
  /\ Tables[1] \in Table
  /\ \A t \in Table : \E i \in 1..Len(Tables) : Tables[i] = t
  /\ \A i \in 1..Len(Tables) : Tables[i] \in Table
  /\ Len(Tables) \in Nat \ {0}
  BY BondConstants DEF Table, Range

\* erase_bond_keys() has both keys of every table.
LEMMA BondKeysFacts ==
  /\ BondKeys \in Seq(Keys)
  /\ \A t \in Table : BlobKey(t) \in Records(BondKeys) /\ CountKey(t) \in Records(BondKeys)
  <1> DEFINE n == Len(Tables)
  <1>1. n \in Nat
    BY TablesFacts
  <1>2. ASSUME NEW i \in 1 .. 2 * n
        PROVE  (i + 1) \div 2 \in 1..n
    BY <1>1
  <1>3. \A i \in 1 .. 2 * n : BondKeys[i] \in Keys
    BY <1>2, TablesFacts DEF BondKeys, Keys, BlobKey, CountKey
  <1>4. DOMAIN BondKeys = 1 .. 2 * n
    BY DEF BondKeys
  <1>5. BondKeys \in Seq(Keys)
    BY <1>1, <1>3, <1>4 DEF BondKeys
  <1>6. ASSUME NEW j \in 1..n
        PROVE  BondKeys[2 * j - 1] = BlobKey(Tables[j]) /\ BondKeys[2 * j] = CountKey(Tables[j])
    <2>1. 2 * j - 1 \in 1 .. 2 * n /\ 2 * j \in 1 .. 2 * n
      BY <1>1
    <2>2. (2 * j - 1 + 1) \div 2 = j /\ (2 * j - 1) % 2 = 1
      BY <1>1
    <2>3. (2 * j + 1) \div 2 = j /\ (2 * j) % 2 # 1
      BY <1>1
    <2> QED BY <2>1, <2>2, <2>3 DEF BondKeys
  <1>7. \A j \in 1..n : 2 * j - 1 \in DOMAIN BondKeys /\ 2 * j \in DOMAIN BondKeys
    BY <1>1, <1>4
  <1>8. ASSUME NEW t \in Table
        PROVE  BlobKey(t) \in Records(BondKeys) /\ CountKey(t) \in Records(BondKeys)
    <2>1. PICK j \in 1..n : Tables[j] = t
      BY TablesFacts
    <2> QED BY <2>1, <1>6, <1>7 DEF Records
  <1> QED BY <1>5, <1>8

\* Peers have records, what an older firmware left are records.
LEMMA LegacyFacts == Records(Legacy) \subseteq Rec /\ Legacy \in Seq(Rec) /\ Len(Legacy) = 1
  /\ \A r \in Records(Legacy) : r.gen = 0
  <1>1. (CHOOSE p \in Peers : TRUE) \in Peers
    BY BondConstants
  <1> QED BY <1>1 DEF Legacy, Records, Rec

\* A call of the NVS driver.
LEMMA PutFacts ==
  ASSUME FlashTyped, NEW t \in Table, NEW item \in {"blob", "count"}, NEW v,
         item = "count" => v \in Nat, item = "blob" => v \in Seq(Rec), Put(item, t, v)
  PROVE  /\ FlashTyped' /\ flash'.schema = flash.schema
         /\ \A u \in Table :
              /\ flash'.count[u] = (IF item = "count" /\ u = t THEN v ELSE flash.count[u])
              /\ flash'.blob[u] = (IF item = "blob" /\ u = t THEN v ELSE flash.blob[u])
  <1>1. CASE item = "count"
    BY <1>1 DEF Put, FlashTyped
  <1>2. CASE item = "blob"
    BY <1>2 DEF Put, FlashTyped
  <1> QED BY <1>1, <1>2

LEMMA EraseFacts ==
  ASSUME FlashTyped, NEW key \in Keys, Erase(key)
  PROVE  /\ FlashTyped' /\ flash'.schema = flash.schema
         /\ \A u \in Table :
              /\ flash'.count[u] = (IF key = CountKey(u) THEN 0 ELSE flash.count[u])
              /\ flash'.blob[u] = (IF key = BlobKey(u) THEN <<>> ELSE flash.blob[u])
  <1>1. key.item \in {"blob", "count"} /\ key.table \in Table
    BY DEF Keys
  <1>2. \A u \in Table : /\ key = CountKey(u) <=> key.item = "count" /\ key.table = u
                         /\ key = BlobKey(u) <=> key.item = "blob" /\ key.table = u
    BY DEF Keys, CountKey, BlobKey
  <1>3. CASE key.item = "count"
    BY <1>1, <1>2, <1>3, PutFacts DEF Erase
  <1>4. CASE key.item = "blob"
    <2> DEFINE none == <<>>
    <2>1. none \in Seq(Rec) /\ Put("blob", key.table, none)
      BY <1>4 DEF Erase
    <2> HIDE DEF none
    <2>2. /\ FlashTyped' /\ flash'.schema = flash.schema
          /\ \A u \in Table :
               /\ flash'.count[u] = flash.count[u]
               /\ flash'.blob[u] = (IF u = key.table THEN none ELSE flash.blob[u])
      BY <2>1, <1>1, PutFacts
    <2> QED BY <2>2, <1>2, <1>4 DEF none
  <1> QED BY <1>1, <1>3, <1>4

\* One key less to erase.
LEMMA ErasedNext ==
  ASSUME FlashTyped, NEW left \in Seq(Keys), left # <<>>, Erase(Head(left)), Erased(left)
  PROVE  \A u \in Table : /\ BlobKey(u) \in Records(Tail(left)) \/ flash'.blob[u] = <<>>
                          /\ CountKey(u) \in Records(Tail(left)) \/ flash'.count[u] = 0
  <1>1. Head(left) \in Keys /\ Tail(left) \in Seq(Keys)
    OBVIOUS
  <1>2. Records(left) = Records(Tail(left)) \cup {Head(left)}
    BY RecordsOf
  <1>3. \A u \in Table :
          /\ flash'.count[u] = (IF Head(left) = CountKey(u) THEN 0 ELSE flash.count[u])
          /\ flash'.blob[u] = (IF Head(left) = BlobKey(u) THEN <<>> ELSE flash.blob[u])
    BY <1>1, EraseFacts
  <1> QED BY <1>2, <1>3 DEF Erased

LEMMA RestoredFacts ==
  ASSUME FlashTyped, NEW t \in Table
  PROVE  /\ Restored(t) \in Seq(Rec) /\ Len(Restored(t)) <= Capacity
         /\ Restored(t) = flash.blob[t] \/ Restored(t) = <<>>
         /\ flash.count[t] = 0 => Restored(t) = <<>>
         /\ flash.count[t] = Len(flash.blob[t]) /\ Len(flash.blob[t]) <= Capacity =>
              Restored(t) = flash.blob[t]
         /\ (flash'.count[t] = flash.count[t] /\ flash'.blob[t] = flash.blob[t]) =>
              Restored(t)' = Restored(t)
  BY BondConstants DEF FlashTyped, Restored

\* store_write() and store_delete() make the next table from this one.
LEMMA WrittenFacts ==
  ASSUME RamTyped, NEW t \in Table, NEW p \in Peers, NEW g \in Nat, HasRoom(t, p),
         NEW r, r = [peer |-> p, gen |-> g]
  PROVE  /\ Written(t, r) \in Seq(Rec) /\ Len(Written(t, r)) <= Capacity
         /\ Records(Written(t, r)) \subseteq Records(ram[t]) \cup {r}
  <1>1. ram[t] \in Seq(Rec) /\ Len(ram[t]) \in Nat /\ Len(ram[t]) <= Capacity
        /\ Capacity \in Nat
    BY BondConstants DEF RamTyped
  <1>2. r \in Rec /\ r.peer = p
    BY DEF Rec
  <1>3. CASE Find(t, p) = {}
    <2> DEFINE next == Append(ram[t], r)
    <2>1. Written(t, r) = next /\ Len(ram[t]) < Capacity
      BY <1>2, <1>3 DEF Written, HasRoom
    <2>2. next \in Seq(Rec) /\ Len(next) = Len(ram[t]) + 1
      BY <1>1, <1>2, AppendProperties
    <2>3. Records(next) = Records(ram[t]) \cup {r}
      BY <1>1, <1>2, RecordsOf
    <2> HIDE DEF next
    <2> QED BY <2>1, <2>2, <2>3, <1>1
  <1>4. CASE Find(t, p) # {}
    <2> DEFINE next == [i \in DOMAIN ram[t] |-> IF i \in Find(t, p) THEN r ELSE ram[t][i]]
    <2>1. Written(t, r) = next
      BY <1>2, <1>4 DEF Written
    <2>2. next \in Seq(Rec) /\ Len(next) = Len(ram[t])
      BY <1>1, <1>2
    <2>3. Records(next) \subseteq Records(ram[t]) \cup {r}
      BY <1>1 DEF Records
    <2> QED BY <2>1, <2>2, <2>3, <1>1
  <1> QED BY <1>3, <1>4

LEMMA RemovedFacts ==
  ASSUME NEW S, NEW q \in Seq(S), NEW i \in DOMAIN q
  PROVE  /\ RemoveAt(q, i) \in Seq(S) /\ Len(RemoveAt(q, i)) <= Len(q)
         /\ Records(RemoveAt(q, i)) \subseteq Records(q)
  <1> DEFINE a == SubSeq(q, 1, i - 1)
             b == SubSeq(q, i + 1, Len(q))
             r == a \o b
  <1>1. i \in 1..Len(q) /\ Len(q) \in Nat
    OBVIOUS
  <1>2. /\ a \in Seq(S) /\ Len(a) = i - 1 /\ \A j \in 1..(i - 1) : a[j] = q[j]
        /\ b \in Seq(S) /\ Len(b) = Len(q) - i /\ \A j \in 1..(Len(q) - i) : b[j] = q[i + j]
    BY <1>1
  <1> HIDE DEF a, b
  <1>3. /\ r \in Seq(S) /\ Len(r) = Len(q) - 1
        /\ \A j \in 1..(Len(q) - 1) : r[j] = IF j <= i - 1 THEN a[j] ELSE b[j - (i - 1)]
    <2>1. /\ r \in Seq(S) /\ Len(r) = Len(a) + Len(b)
          /\ \A j \in 1 .. Len(a) + Len(b) :
               r[j] = IF j <= Len(a) THEN a[j] ELSE b[j - Len(a)]
      BY <1>2, ConcatProperties
    <2>2. Len(a) + Len(b) = Len(q) - 1
      BY <1>1, <1>2
    <2> QED BY <2>1, <2>2, <1>2
  <1>4. \A j \in 1..(Len(q) - 1) : r[j] = IF j <= i - 1 THEN q[j] ELSE q[j + 1]
    <2>1. TAKE j \in 1..(Len(q) - 1)
    <2>2. CASE j <= i - 1
      BY <2>2, <1>1, <1>2, <1>3
    <2>3. CASE ~(j <= i - 1)
      <3>1. j - (i - 1) \in 1..(Len(q) - i) /\ i + (j - (i - 1)) = j + 1
        BY <2>3, <1>1
      <3>2. r[j] = b[j - (i - 1)] /\ b[j - (i - 1)] = q[i + (j - (i - 1))]
        BY <2>3, <3>1, <1>2, <1>3
      <3> QED BY <3>1, <3>2, <2>3
    <2> QED BY <2>2, <2>3
  <1> HIDE DEF r
  <1>5. Records(r) \subseteq Records(q)
    <2>1. DOMAIN r = 1..(Len(q) - 1) /\ DOMAIN q = 1..Len(q)
      BY <1>1, <1>3
    <2>2. \A j \in 1..(Len(q) - 1) : r[j] \in Records(q)
      BY <2>1, <1>1, <1>4 DEF Records
    <2> QED BY <2>1, <2>2 DEF Records
  <1>6. RemoveAt(q, i) = r
    BY DEF RemoveAt, r, a, b
  <1> QED BY <1>1, <1>3, <1>5, <1>6

-----------------------------------------------------------------------------
(* The host task.                                                          *)

\* What the host task and the main task are at, and their types.
LEMMA HostFacts ==
  ASSUME Typed
  PROVE  /\ host.at \in Persisting \cup Starting \cup {"idle"} /\ host.table \in Table
         /\ host.next \in Seq(Rec) /\ host.left \in Seq(Keys) /\ Len(host.next) \in Nat
         /\ Len(host.next) <= Capacity
         /\ main.at \in {"idle", "erase", "clear"} /\ main.left \in Seq(Keys)
  BY DEF Typed, HostTyped, MainTyped

LEMMA RestingFacts ==
  /\ Resting \in [at : {"idle"}, table : Table, next : Seq(Rec), left : Seq(Keys)]
  /\ Resting.at = "idle" /\ Resting.next = <<>> /\ Len(Resting.next) = 0
  /\ Away \in [at : {"idle"}, left : Seq(Keys)] /\ Away.at = "idle"
  BY TablesFacts DEF Resting, Away

\* The host task begins to store a table.
LEMMA CallStep ==
  ASSUME BondInv, Call, NEW t \in Table, NEW next \in Seq(Rec), Len(next) <= Capacity,
         host' = [Resting EXCEPT !.at = "count", !.table = t, !.next = next],
         UNCHANGED <<flash, ram, main, promise, gone>>,
         made' \in Nat /\ made' >= made,
         \A r \in Records(next) : r \in Records(ram[t]) \/ r.gen > made,
         \A r \in Records(next) : r.gen <= made'
  PROVE  BondInv'
  <1>t. Typed /\ host.at = "idle"
    BY DEF BondInv, Call, Busy
  <1>1. /\ host'.at = "count" /\ host'.table = t /\ host'.next = next
        /\ host' \in [at : Persisting, table : Table, next : Seq(Rec), left : Seq(Keys)]
    BY RestingFacts DEF Persisting, Resting
  <1>2. overlap' = (overlap \/ Busy(main)) /\ overlap \in BOOLEAN
    BY <1>t DEF Call, Typed, HistoryTyped
  <1>3. overlap' \in BOOLEAN /\ (~overlap' => ~overlap /\ main.at = "idle")
    BY <1>2, Zenon DEF Busy
  <1>4. Typed'
    BY <1>t, <1>1, <1>3
    DEF Typed, promise, FlashTyped, RamTyped, HostTyped, MainTyped, HistoryTyped
  <1>5. \A u \in Table : InUse(u)' \subseteq InUse(u) \cup (IF u = t THEN Records(next) ELSE {})
    BY <1>1 DEF InUse, Writing
  <1>6. Known'
    <2>1. SUFFICES ASSUME NEW u \in Table, NEW r \in gone[u] \cup InUse(u)'
                   PROVE  r.gen <= made'
      BY DEF Known
    <2>2. CASE r \in gone[u] \cup InUse(u)
      <3>1. r.gen <= made
        BY <2>2 DEF BondInv, Known
      <3>2. r \in Rec
        BY <2>2, <1>t, HostFacts, RecordsOf
        DEF Typed, FlashTyped, RamTyped, HistoryTyped, InUse, Writing
      <3> QED BY <3>1, <3>2, <1>t DEF Rec, Typed, HistoryTyped
    <2>3. CASE r \in Records(next)
      BY <2>3
    <2> QED BY <2>1, <2>2, <2>3, <1>5
  <1>7. ~overlap' => Buried'
    <2>1. SUFFICES ASSUME ~overlap, NEW u \in Table, NEW r \in gone[u], r \in InUse(u)'
                   PROVE  FALSE
      BY <1>3 DEF Buried
    <2>2. r.gen <= made /\ r \notin InUse(u)
      BY <2>1 DEF BondInv, Known, Buried
    <2>3. r \in Records(next) /\ u = t /\ r \notin Records(ram[t])
      BY <2>1, <2>2, <1>5 DEF InUse
    <2>4. r \in Rec /\ made \in Nat
      BY <2>1, <1>t DEF Typed, HistoryTyped
    <2> QED BY <2>2, <2>3, <2>4 DEF Rec
  <1>8. Empty'
    BY <1>1 DEF Empty, Starting
  <1>9. ~overlap' => Apart' /\ Resetting' /\ InFlash'
    BY <1>1, <1>3 DEF Apart, Resetting, InFlash, Busy
  <1>10. ~overlap' => Confirmed'
    <2>1. ~overlap' => Kept' /\ Sure'
      BY <1>t, <1>1, <1>3 DEF BondInv, Confirmed, Kept, Sure, Restored, promise
    <2>2. ~overlap' => Agreed'
      BY <1>t, <1>1, <1>3 DEF BondInv, Confirmed, Agreed, Starting, Expected, promise
    <2> QED BY <2>1, <2>2 DEF Confirmed
  <1> QED BY <1>4, <1>6, <1>7, <1>8, <1>9, <1>10 DEF BondInv

LEMMA StoreWriteStep ==
  ASSUME BondInv, NEW t \in Table, NEW p \in Peers, StoreWrite(t, p)
  PROVE  BondInv'
  <1> DEFINE r == [peer |-> p, gen |-> made + 1]
             next == Written(t, r)
  <1>1. Typed /\ made \in Nat /\ made' = made + 1
    BY DEF BondInv, Typed, HistoryTyped, StoreWrite
  <1>2. /\ next \in Seq(Rec) /\ Len(next) <= Capacity
        /\ Records(next) \subseteq Records(ram[t]) \cup {r}
    BY <1>1, WrittenFacts DEF Typed, StoreWrite
  <1>3. \A x \in Records(ram[t]) : x.gen <= made /\ x \in Rec
    BY <1>1, RecordsOf DEF BondInv, Known, InUse, Typed, RamTyped
  <1>4. r.gen = made + 1
    OBVIOUS
  <1>5. Call /\ host' = [Resting EXCEPT !.at = "count", !.table = t, !.next = next]
        /\ UNCHANGED <<flash, ram, main, promise, gone>>
    BY DEF StoreWrite
  <1> HIDE DEF r, next
  <1>6. \A x \in Records(next) : x \in Records(ram[t]) \/ x.gen > made
    BY <1>1, <1>2, <1>4
  <1>7. \A x \in Records(next) : x.gen <= made'
    <2>1. TAKE x \in Records(next)
    <2>2. CASE x = r
      BY <2>2, <1>1, <1>4
    <2>3. CASE x # r
      BY <2>3, <1>1, <1>2, <1>3 DEF Rec
    <2> QED BY <2>2, <2>3
  <1>8. made' \in Nat /\ made' >= made
    BY <1>1
  <1> QED BY <1>2, <1>5, <1>6, <1>7, <1>8, CallStep

LEMMA StoreDeleteStep ==
  ASSUME BondInv, NEW t \in Table, NEW p \in Peers, StoreDelete(t, p)
  PROVE  BondInv'
  <1>1. Typed /\ made \in Nat /\ made' = made
    BY DEF BondInv, Typed, HistoryTyped, StoreDelete
  <1>2. PICK i \in Find(t, p) :
          host' = [Resting EXCEPT !.at = "count", !.table = t, !.next = RemoveAt(ram[t], i)]
    BY DEF StoreDelete
  <1>3. ram[t] \in Seq(Rec) /\ i \in DOMAIN ram[t] /\ Len(ram[t]) \in Nat
        /\ Len(ram[t]) <= Capacity /\ Capacity \in Nat
    BY <1>1, BondConstants DEF Find, Typed, RamTyped
  <1> DEFINE next == RemoveAt(ram[t], i)
  <1>4. /\ next \in Seq(Rec) /\ Len(next) <= Len(ram[t])
        /\ Records(next) \subseteq Records(ram[t])
    BY <1>3, RemovedFacts
  <1>5. Call /\ UNCHANGED <<flash, ram, main, promise, gone>>
        /\ host' = [Resting EXCEPT !.at = "count", !.table = t, !.next = next]
    BY <1>2 DEF StoreDelete
  <1> HIDE DEF next
  <1>6. \A x \in Records(ram[t]) : x.gen <= made
    BY DEF BondInv, Known, InUse
  <1>7. Len(next) \in Nat /\ Len(next) <= Capacity
    BY <1>3, <1>4
  <1>8. made' \in Nat /\ made' >= made /\ \A x \in Records(next) : x.gen <= made'
    BY <1>1, <1>4, <1>6
  <1> QED BY <1>4, <1>5, <1>7, <1>8, CallStep

LEMMA PersistCountStep ==
  ASSUME BondInv, PersistCount
  PROVE  BondInv'
  <1> DEFINE t == host.table
  <1>t. Typed /\ host.at = "count"
    BY DEF BondInv, PersistCount
  <1>h. /\ t \in Table /\ host.next \in Seq(Rec) /\ Len(host.next) \in Nat
    BY <1>t, HostFacts
  <1>1. /\ FlashTyped' /\ flash'.schema = flash.schema /\ \A u \in Table :
             /\ flash'.count[u] = (IF u = t THEN Len(host.next) ELSE flash.count[u])
             /\ flash'.blob[u] = flash.blob[u]
    BY <1>t, <1>h, PutFacts DEF PersistCount, Typed
  <1>2. /\ host'.at = "blob" /\ host'.table = t /\ host'.next = host.next
        /\ HostTyped'
    BY <1>t DEF PersistCount, Typed, HostTyped, Persisting
  <1>3. /\ UNCHANGED <<ram, main, made, confirmed, unread, unsure, gone, overlap>>
        /\ trusted' = [trusted EXCEPT ![t] = FALSE]
    BY DEF PersistCount
  <1>4. trusted' \in [Table -> BOOLEAN] /\ trusted'[t] = FALSE
        /\ \A u \in Table : u # t => trusted'[u] = trusted[u]
    BY <1>t, <1>h, <1>3 DEF Typed, HistoryTyped
  <1>5. Typed'
    BY <1>t, <1>1, <1>2, <1>3, <1>4 DEF Typed, RamTyped, MainTyped, HistoryTyped
  <1>6. \A u \in Table : InUse(u)' = InUse(u)
    BY <1>t, <1>1, <1>2, <1>3 DEF InUse, Writing, Persisting
  <1>7. Known' /\ Empty' /\ (~overlap => Buried')
    BY <1>2, <1>3, <1>6 DEF BondInv, Known, Empty, Buried, Starting
  <1>8. ~overlap => main.at = "idle"
    BY <1>t DEF BondInv, Apart, Busy
  <1>9. ~overlap => Apart' /\ Resetting' /\ InFlash'
    BY <1>1, <1>2, <1>3, <1>4, <1>8, <1>h DEF Apart, Resetting, InFlash
  <1>10. ASSUME ~overlap, NEW u \in Table, trusted'[u]
         PROVE  /\ u # t /\ trusted[u] /\ Restored(u)' = Restored(u)
                /\ Expected(u) = ram[u] /\ Expected(u)' = ram[u]
    <2>1. u # t /\ trusted[u]
      BY <1>10, <1>4
    <2>2. Restored(u)' = Restored(u)
      BY <2>1, <1>t, <1>1, RestoredFacts DEF Typed
    <2> QED BY <2>1, <2>2, <1>t, <1>2, <1>3 DEF Expected
  <1>11. ~overlap => Confirmed'
    <2>1. ~overlap => Kept' /\ Sure'
      BY <1>10, <1>t, <1>1, <1>2, <1>3 DEF BondInv, Confirmed, Kept, Sure
    <2>2. ~overlap => Agreed'
      BY <1>10, <1>t, <1>3 DEF BondInv, Confirmed, Agreed, Starting
    <2> QED BY <2>1, <2>2 DEF Confirmed
  <1> QED BY <1>3, <1>5, <1>7, <1>9, <1>11 DEF BondInv

LEMMA PersistBlobStep ==
  ASSUME BondInv, PersistBlob
  PROVE  BondInv'
  <1> DEFINE t == host.table
  <1>t. Typed /\ host.at = "blob"
    BY DEF BondInv, PersistBlob
  <1>h. t \in Table /\ host.next \in Seq(Rec)
    BY <1>t, HostFacts
  <1>1. /\ FlashTyped' /\ flash'.schema = flash.schema /\ \A u \in Table :
             /\ flash'.count[u] = flash.count[u]
             /\ flash'.blob[u] = (IF u = t THEN host.next ELSE flash.blob[u])
    BY <1>t, <1>h, PutFacts DEF PersistBlob, StoreBlob, Typed
  <1>2. /\ host'.at = "commit" /\ host'.table = t /\ host'.next = host.next
        /\ HostTyped'
    BY <1>t DEF PersistBlob, Typed, HostTyped, Persisting
  <1>3. UNCHANGED <<ram, main, made, trusted, confirmed, unread, unsure, gone, overlap>>
    BY DEF PersistBlob, promise
  <1>5. Typed'
    BY <1>t, <1>1, <1>2, <1>3 DEF Typed, RamTyped, MainTyped, HistoryTyped
  <1>6. \A u \in Table : InUse(u)' \subseteq InUse(u)
    BY <1>t, <1>1, <1>2, <1>3 DEF InUse, Writing, Persisting
  <1>7. Known' /\ Empty' /\ (~overlap => Buried')
    BY <1>2, <1>3, <1>6 DEF BondInv, Known, Empty, Buried, Starting
  <1>8. ~overlap => main.at = "idle"
    BY <1>t DEF BondInv, Apart, Busy
  <1>9. ~overlap => Apart' /\ Resetting' /\ InFlash' /\ ~trusted[t]
    BY <1>t, <1>1, <1>2, <1>3, <1>8, <1>h DEF BondInv, Apart, Resetting, InFlash
  <1>10. ASSUME ~overlap, NEW u \in Table, trusted[u]
         PROVE  /\ u # t /\ Restored(u)' = Restored(u)
                /\ Expected(u) = ram[u] /\ Expected(u)' = ram[u]
    <2>1. u # t
      BY <1>10, <1>9
    <2>2. Restored(u)' = Restored(u)
      BY <2>1, <1>t, <1>1, RestoredFacts DEF Typed
    <2> QED BY <2>1, <2>2, <1>t, <1>2, <1>3 DEF Expected
  <1>11. ~overlap => Confirmed'
    <2>1. ~overlap => Kept' /\ Sure'
      BY <1>10, <1>t, <1>1, <1>2, <1>3 DEF BondInv, Confirmed, Kept, Sure
    <2>2. ~overlap => Agreed'
      BY <1>10, <1>t, <1>3 DEF BondInv, Confirmed, Agreed, Starting
    <2> QED BY <2>1, <2>2 DEF Confirmed
  <1> QED BY <1>3, <1>5, <1>7, <1>9, <1>11 DEF BondInv

LEMMA PersistCommitStep ==
  ASSUME BondInv, PersistCommit
  PROVE  BondInv'
  <1> DEFINE t == host.table
  <1>t. Typed /\ host.at = "commit"
    BY DEF BondInv, PersistCommit
  <1>h. t \in Table /\ host.next \in Seq(Rec) /\ Len(host.next) <= Capacity
    BY <1>t, HostFacts
  <1>2. /\ host'.at = "adopt" /\ host'.table = t /\ host'.next = host.next
        /\ HostTyped'
    BY <1>t DEF PersistCommit, Typed, HostTyped, Persisting
  <1>3. /\ UNCHANGED <<flash, ram, main, made, unread, unsure, gone, overlap>>
        /\ trusted' = [trusted EXCEPT ![t] = ~unsure]
        /\ confirmed' = [confirmed EXCEPT ![t] = host.next]
    BY DEF PersistCommit
  <1>4. /\ trusted' \in [Table -> BOOLEAN] /\ trusted'[t] = ~unsure
        /\ confirmed' \in [Table -> Seq(Rec)] /\ confirmed'[t] = host.next
        /\ \A u \in Table : u # t => trusted'[u] = trusted[u] /\ confirmed'[u] = confirmed[u]
    BY <1>t, <1>h, <1>3 DEF Typed, HistoryTyped
  <1>5. Typed'
    BY <1>t, <1>2, <1>3, <1>4 DEF Typed, FlashTyped, RamTyped, MainTyped, HistoryTyped
  <1>6. \A u \in Table : InUse(u)' = InUse(u)
    BY <1>t, <1>2, <1>3 DEF InUse, Writing, Persisting
  <1>7. Known' /\ Empty' /\ (~overlap => Buried')
    BY <1>2, <1>3, <1>6 DEF BondInv, Known, Empty, Buried, Starting
  <1>8. ~overlap => main.at = "idle"
    BY <1>t DEF BondInv, Apart, Busy
  <1>9. ~overlap => Apart' /\ Resetting' /\ InFlash'
    BY <1>t, <1>2, <1>3, <1>8 DEF BondInv, Apart, Resetting, InFlash
  <1>10. ASSUME ~overlap, NEW u \in Table, u # t
         PROVE  Expected(u) = ram[u] /\ Expected(u)' = ram[u]
    BY <1>10, <1>t, <1>2, <1>3 DEF Expected
  <1>11. \A u \in Table : u = t => Expected(u)' = host.next
    BY <1>2 DEF Expected
  <1>12. ~overlap => Restored(t) = host.next /\ (flash.schema \/ unsure)
    BY <1>t, <1>h, RestoredFacts DEF BondInv, Confirmed, Sure, InFlash, Typed
  <1>13. ~overlap => Confirmed'
    <2>1. ~overlap => Kept'
      BY <1>t, <1>h, <1>3, <1>4, <1>12 DEF BondInv, Confirmed, Kept, Restored
    <2>2. ~overlap => Sure'
      BY <1>t, <1>2, <1>3 DEF BondInv, Confirmed, Sure
    <2>3. ASSUME ~overlap, NEW u \in Table, trusted'[u], u \notin unread
          PROVE  Expected(u)' = confirmed'[u]
      <3>1. CASE u = t
        BY <3>1, <1>4, <1>11
      <3>2. CASE u # t
        <4>1. trusted[u] /\ confirmed'[u] = confirmed[u] /\ Expected(u)' = Expected(u)
          BY <2>3, <3>2, <1>4, <1>10
        <4> QED BY <2>3, <4>1, <1>t DEF BondInv, Confirmed, Agreed, Starting
      <3> QED BY <3>1, <3>2
    <2>4. ~overlap => Agreed'
      BY <2>3, <1>3 DEF Agreed
    <2> QED BY <2>1, <2>2, <2>4 DEF Confirmed
  <1> QED BY <1>3, <1>5, <1>7, <1>9, <1>13 DEF BondInv

LEMMA AdoptStep ==
  ASSUME BondInv, Adopt
  PROVE  BondInv'
  <1>t. Typed /\ host.at = "adopt"
    BY DEF BondInv, Adopt
  <1>k. PICK t \in Table : t = host.table
    BY <1>t, HostFacts
  <1>h. host.next \in Seq(Rec) /\ Len(host.next) <= Capacity
    BY <1>t, HostFacts
  <1>1. /\ UNCHANGED <<flash, main, made, trusted, confirmed, unsure, overlap>>
        /\ unread' = unread \ {t} /\ host' = Resting
        /\ ram' = [ram EXCEPT ![t] = host.next]
        /\ gone' = [gone EXCEPT ![t] = @ \cup (Records(ram[t]) \ Records(host.next))]
    BY <1>k DEF Adopt, Adopted
  <1>2. /\ RamTyped' /\ ram'[t] = host.next
        /\ \A u \in Table : u # t => ram'[u] = ram[u]
    BY <1>t, <1>h, <1>1 DEF Typed, RamTyped
  <1>3. Records(ram[t]) \subseteq Rec
    BY <1>t, <1>h, RecordsOf DEF Typed, RamTyped
  <1>4. /\ gone' \in [Table -> SUBSET Rec]
        /\ gone'[t] = gone[t] \cup (Records(ram[t]) \ Records(host.next))
        /\ \A u \in Table : u # t => gone'[u] = gone[u]
    BY <1>t, <1>h, <1>1, <1>3 DEF Typed, HistoryTyped
  <1>5. host'.at = "idle" /\ HostTyped'
    BY <1>1, RestingFacts, BondConstants DEF HostTyped
  <1>6. Typed'
    BY <1>t, <1>1, <1>2, <1>4, <1>5 DEF Typed, FlashTyped, MainTyped, HistoryTyped
  <1>w. /\ \A u \in Table : Writing(u)' = {} /\ (u # t => Writing(u) = {})
        /\ Writing(t) = Records(host.next)
    BY <1>t, <1>k, <1>5 DEF Writing, Persisting
  <1>7. /\ \A u \in Table : u # t => InUse(u)' = InUse(u)
        /\ InUse(t) = Records(ram[t]) \cup Records(flash.blob[t]) \cup Records(host.next)
        /\ InUse(t)' = Records(host.next) \cup Records(flash.blob[t])
    BY <1>h, <1>1, <1>2, <1>w DEF InUse
  <1>8. Known'
    <2>1. \A u \in Table : gone'[u] \cup InUse(u)' \subseteq gone[u] \cup InUse(u)
      BY <1>4, <1>7
    <2> QED BY <2>1, <1>1 DEF BondInv, Known
  <1>9. ~overlap => Buried'
    <2>1. SUFFICES ASSUME ~overlap, NEW u \in Table, NEW r \in gone'[u], r \in InUse(u)'
                   PROVE  FALSE
      BY DEF Buried
    <2>2. gone[u] \cap InUse(u) = {}
      BY <2>1 DEF BondInv, Buried
    <2>3. u = t
      BY <2>1, <2>2, <1>4, <1>7
    <2>4. Records(flash.blob[t]) = Records(host.next)
      BY <2>1, <1>t, <1>k DEF BondInv, InFlash
    <2> QED BY <2>1, <2>2, <2>3, <2>4, <1>4, <1>7
  <1>10. ~overlap => main.at = "idle"
    BY <1>t DEF BondInv, Apart, Busy
  <1>11. Empty' /\ (~overlap => Apart' /\ Resetting' /\ InFlash')
    BY <1>1, <1>5, <1>10 DEF Empty, Starting, Apart, Busy, Resetting, InFlash
  <1>12. \A u \in Table : Expected(u)' = Expected(u)
    BY <1>t, <1>k, <1>2, <1>5 DEF Expected
  <1>13. (~overlap /\ trusted[t]) => Expected(t) = confirmed[t]
    <2>1. ~overlap => Restored(t) = host.next
      BY <1>t, <1>k, <1>h, RestoredFacts DEF BondInv, InFlash, Typed
    <2> QED BY <2>1, <1>t, <1>k DEF BondInv, Confirmed, Kept, Expected
  <1>14. ~overlap => Confirmed'
    <2>1. ~overlap => Kept' /\ Sure'
      BY <1>t, <1>1, <1>5 DEF BondInv, Confirmed, Kept, Sure, Restored
    <2>2. ~overlap => Agreed'
      BY <1>t, <1>1, <1>12, <1>13 DEF BondInv, Confirmed, Agreed, Starting
    <2> QED BY <2>1, <2>2 DEF Confirmed
  <1> QED BY <1>1, <1>6, <1>8, <1>9, <1>11, <1>14 DEF BondInv

LEMMA PersistFailsStep ==
  ASSUME BondInv, PersistFails
  PROVE  BondInv'
  <1> DEFINE t == host.table
  <1>t. Typed /\ host.at \in {"count", "blob", "commit"}
    BY DEF BondInv, PersistFails
  <1>h. t \in Table
    BY <1>t, HostFacts
  <1>1. /\ UNCHANGED <<flash, ram, main, made, confirmed, unread, unsure, gone, overlap>>
        /\ host' = Resting
        /\ trusted' = [trusted EXCEPT ![t] = FALSE]
    BY DEF PersistFails
  <1>2. /\ trusted' \in [Table -> BOOLEAN] /\ trusted'[t] = FALSE
        /\ \A u \in Table : u # t => trusted'[u] = trusted[u]
    BY <1>t, <1>h, <1>1 DEF Typed, HistoryTyped
  <1>3. host'.at = "idle" /\ HostTyped'
    BY <1>1, RestingFacts, BondConstants DEF HostTyped
  <1>4. Typed'
    BY <1>t, <1>1, <1>2, <1>3 DEF Typed, FlashTyped, RamTyped, MainTyped, HistoryTyped
  <1>5. \A u \in Table : InUse(u)' \subseteq InUse(u)
    BY <1>1, <1>3 DEF InUse, Writing, Persisting
  <1>6. Known' /\ Empty' /\ (~overlap => Buried')
    BY <1>1, <1>3, <1>5 DEF BondInv, Known, Empty, Buried, Starting
  <1>7. ~overlap => main.at = "idle"
    BY <1>t DEF BondInv, Apart, Busy
  <1>8. ~overlap => Apart' /\ Resetting' /\ InFlash'
    BY <1>1, <1>3, <1>7 DEF Apart, Busy, Resetting, InFlash
  <1>9. \A u \in Table : Expected(u) = ram[u] /\ Expected(u)' = ram[u]
    BY <1>t, <1>1, <1>3 DEF Expected
  <1>10. ~overlap => Confirmed'
    <2>1. ~overlap => Kept' /\ Sure'
      BY <1>t, <1>1, <1>2, <1>3 DEF BondInv, Confirmed, Kept, Sure, Restored
    <2>2. ~overlap => Agreed'
      BY <1>t, <1>1, <1>2, <1>9 DEF BondInv, Confirmed, Agreed, Starting
    <2> QED BY <2>1, <2>2 DEF Confirmed
  <1> QED BY <1>1, <1>4, <1>6, <1>8, <1>10 DEF BondInv

-----------------------------------------------------------------------------
(* The start of the store, on the host task.                               *)

\* A step of the start that leaves what the tables have.
LEMMA StartKeeps ==
  ASSUME BondInv, host.at \in Starting, host'.at \in Starting, HostTyped',
         UNCHANGED <<flash, ram, main, made, confirmed, unread, gone, overlap>>,
         trusted' = trusted \/ trusted' = [u \in Table |-> FALSE], unsure' \in BOOLEAN,
         ~overlap /\ host'.at = "restore" => flash.schema \/ unsure',
         ~overlap /\ host'.at = "migrate" => \A u \in Table : ~trusted'[u],
         host'.at \in {"migrate", "restore"},
         ~overlap /\ host'.at = "migrate" => Erased(host.left)'
  PROVE  BondInv'
  <1>0. trusted' \in [Table -> BOOLEAN] /\ \A u \in Table : trusted'[u] => trusted[u]
    BY DEF BondInv, Typed, HistoryTyped
  <1>1. Typed'
    BY <1>0 DEF BondInv, Typed, FlashTyped, RamTyped, MainTyped, HistoryTyped
  <1>2. \A u \in Table : InUse(u)' = InUse(u)
    BY DEF InUse, Writing, Persisting, Starting
  <1>3. Known' /\ Empty' /\ (~overlap => Buried')
    BY <1>2 DEF BondInv, Known, Empty, Buried
  <1>4. ~overlap => main.at = "idle"
    BY DEF BondInv, Apart, Busy, Starting
  <1>5. ~overlap => Apart' /\ Resetting' /\ InFlash'
    BY <1>4 DEF Apart, Resetting, InFlash, Starting
  <1>6. ~overlap => Confirmed'
    <2>1. ~overlap => Kept'
      BY <1>0 DEF BondInv, Confirmed, Kept, Restored
    <2>2. ~overlap => Sure' /\ Agreed'
      BY DEF Sure, Agreed, Starting
    <2> QED BY <2>1, <2>2 DEF Confirmed
  <1> QED BY <1>1, <1>3, <1>5, <1>6 DEF BondInv

LEMMA RestoringFacts ==
  ASSUME host' = Restoring
  PROVE  host'.at = "restore" /\ HostTyped'
  <1>1. host' = [at |-> "restore", table |-> Tables[1], next |-> <<>>, left |-> <<>>]
    BY DEF Restoring, Resting
  <1> QED BY <1>1, TablesFacts, BondConstants DEF HostTyped, Starting

LEMMA MigratingFacts ==
  ASSUME host' = Migrating
  PROVE  host'.at = "migrate" /\ HostTyped' /\ Erased(host.left)'
  <1>1. host' = [at |-> "migrate", table |-> Tables[1], next |-> <<>>, left |-> BondKeys]
    BY DEF Migrating, Resting
  <1>2. host'.at = "migrate" /\ host'.left = BondKeys /\ HostTyped'
    BY <1>1, TablesFacts, BondKeysFacts, BondConstants DEF HostTyped, Starting
  <1> QED BY <1>2, BondKeysFacts DEF Erased

LEMMA BootStep ==
  ASSUME BondInv, Boot
  PROVE  BondInv'
  <1>t. /\ Typed /\ host.at = "off"
        /\ UNCHANGED <<flash, ram, main, made, trusted, confirmed, unread, gone, overlap>>
    BY DEF BondInv, Boot
  <1>1. CASE flash.schema
    <2>1. host' = Restoring /\ unsure' = FALSE
      BY <1>1 DEF Boot
    <2> QED BY <2>1, <1>1, <1>t, StartKeeps, RestoringFacts DEF Starting
  <1>2. CASE ~flash.schema
    <2>1. host' = Migrating /\ unsure' = unsure /\ unsure \in BOOLEAN
      BY <1>2, <1>t DEF Boot, Typed, HistoryTyped
    <2>2. host'.at = "migrate" /\ HostTyped' /\ Erased(host.left)'
      BY <2>1, MigratingFacts
    <2>3. ~overlap => \A u \in Table : ~trusted'[u]
      BY <1>2, <1>t DEF BondInv, Confirmed, Kept
    <2> QED BY <2>1, <2>2, <2>3, <1>t, StartKeeps DEF Starting
  <1> QED BY <1>1, <1>2

LEMMA NotOpenedStep ==
  ASSUME BondInv, NotOpened
  PROVE  BondInv'
  <1>1. /\ Typed /\ host.at = "off" /\ host' = Restoring /\ unsure' = ~flash.schema
        /\ UNCHANGED <<flash, ram, main, made, trusted, confirmed, unread, gone, overlap>>
    BY DEF BondInv, NotOpened
  <1>2. unsure' \in BOOLEAN /\ (flash.schema \/ unsure')
    BY <1>1 DEF Typed, FlashTyped
  <1> QED BY <1>1, <1>2, StartKeeps, RestoringFacts DEF Starting

LEMMA SchemaUnreadStep ==
  ASSUME BondInv, SchemaUnread
  PROVE  BondInv'
  <1>1. /\ Typed /\ host.at = "off" /\ host' = Migrating
        /\ trusted' = [u \in Table |-> FALSE]
        /\ UNCHANGED <<flash, ram, main, made, confirmed, unread, unsure, gone, overlap>>
    BY DEF BondInv, SchemaUnread
  <1>2. host'.at = "migrate" /\ HostTyped' /\ Erased(host.left)' /\ unsure' \in BOOLEAN
    BY <1>1, MigratingFacts DEF Typed, HistoryTyped
  <1> QED BY <1>1, <1>2, StartKeeps DEF Starting
LEMMA MigrateFailsStep ==
  ASSUME BondInv, MigrateFails
  PROVE  BondInv'
  <1>1. /\ Typed /\ host.at = "migrate" /\ host' = [host EXCEPT !.at = "restore"]
        /\ UNCHANGED <<flash, ram, main, made, trusted, confirmed, unread, gone, overlap>>
        /\ unsure' = ~flash.schema
    BY DEF BondInv, MigrateFails
  <1>2. host'.at = "restore" /\ HostTyped'
    BY <1>1 DEF Typed, HostTyped, Starting
  <1>3. unsure' \in BOOLEAN /\ (flash.schema \/ unsure')
    BY <1>1 DEF Typed, FlashTyped
  <1> QED BY <1>1, <1>2, <1>3, StartKeeps DEF Starting

LEMMA MigrateStep ==
  ASSUME BondInv, Migrate
  PROVE  BondInv'
  <1>t. /\ Typed /\ host.at = "migrate"
        /\ UNCHANGED <<ram, main, made, trusted, confirmed, unread, overlap>>
    BY DEF BondInv, Migrate
  <1>h. host.left \in Seq(Keys)
    BY <1>t, HostFacts
  <1>o. /\ ~overlap => main.at = "idle" /\ Erased(host.left)
        /\ \A u \in Table : ram[u] = <<>>
    BY <1>t DEF BondInv, Apart, Busy, Resetting, Empty, Starting
  <1>v. ~overlap => \A u \in Table : ~trusted[u]
    BY <1>t DEF BondInv, Confirmed, Sure
  <1>1. CASE host.left = <<>>
    <2>1. /\ flash' = [flash EXCEPT !.schema = TRUE]
          /\ host' = [host EXCEPT !.at = "restore"]
          /\ gone' = [u \in Table |-> gone[u] \cup Records(Legacy)] /\ unsure' = FALSE
      BY <1>1 DEF Migrate
    <2>2. /\ FlashTyped' /\ flash'.schema
          /\ flash'.count = flash.count /\ flash'.blob = flash.blob
      BY <2>1, <1>t DEF Typed, FlashTyped
    <2>3. host'.at = "restore" /\ HostTyped'
      BY <2>1, <1>t DEF Typed, HostTyped, Starting
    <2>4. gone' \in [Table -> SUBSET Rec] /\ \A u \in Table : gone'[u] = gone[u] \cup Records(Legacy)
      BY <2>1, <1>t, LegacyFacts DEF Typed, HistoryTyped
    <2>5. Typed'
      BY <1>t, <2>1, <2>2, <2>3, <2>4 DEF Typed, RamTyped, MainTyped, HistoryTyped
    <2>6. \A u \in Table : InUse(u)' = InUse(u)
      BY <1>t, <2>2, <2>3 DEF InUse, Writing, Persisting
    <2>7. Known'
      <3>1. SUFFICES ASSUME NEW u \in Table, NEW r \in gone'[u] \cup InUse(u)'
                     PROVE  r.gen <= made
        BY <1>t DEF Known
      <3>2. CASE r \in Records(Legacy)
        BY <3>2, <1>t, LegacyFacts DEF Typed, HistoryTyped
      <3>3. CASE r \notin Records(Legacy)
        BY <3>1, <3>3, <2>4, <2>6 DEF BondInv, Known
      <3> QED BY <3>2, <3>3
    <2>8. ~overlap => \A u \in Table : InUse(u)' = {}
      <3>1. ~overlap => \A u \in Table : flash.blob[u] = <<>>
        BY <1>o, <1>1 DEF Erased, Records
      <3> QED BY <3>1, <2>2, <2>3, <1>t, <1>o DEF InUse, Writing, Persisting, Records
    <2>9. Empty' /\ (~overlap => Buried' /\ Apart' /\ Resetting' /\ InFlash' /\ Confirmed')
      BY <2>2, <2>3, <2>8, <1>t, <1>o, <1>v
      DEF Empty, Buried, Apart, Resetting, InFlash, Confirmed, Kept, Sure, Agreed, Starting
    <2> QED BY <1>t, <2>5, <2>7, <2>9 DEF BondInv
  <1>2. CASE host.left # <<>>
    <2>1. /\ Erase(Head(host.left)) /\ gone' = gone /\ unsure' = unsure
          /\ host' = [host EXCEPT !.left = Tail(@)]
      BY <1>2 DEF Migrate
    <2>k. Head(host.left) \in Keys /\ Tail(host.left) \in Seq(Keys)
      BY <1>h, <1>2
    <2>2. /\ FlashTyped'
          /\ \A u \in Table : flash'.blob[u] = flash.blob[u] \/ flash'.blob[u] = <<>>
      BY <2>1, <2>k, <1>t, EraseFacts DEF Typed
    <2>3. host'.at = "migrate" /\ host'.left = Tail(host.left) /\ HostTyped'
      BY <2>1, <2>k, <1>t DEF Typed, HostTyped
    <2>4. Typed'
      BY <1>t, <2>1, <2>2, <2>3 DEF Typed, RamTyped, MainTyped, HistoryTyped
    <2>5. \A u \in Table : InUse(u)' \subseteq InUse(u)
      BY <1>t, <2>2, <2>3 DEF InUse, Writing, Persisting, Records
    <2>6. Known' /\ Empty' /\ (~overlap => Buried')
      BY <1>t, <2>1, <2>3, <2>5 DEF BondInv, Known, Empty, Buried, Starting
    <2>7. ~overlap => Erased(host.left)'
      BY <1>t, <1>h, <1>o, <1>2, <2>1, <2>3, ErasedNext DEF Typed, Erased
    <2>8. ~overlap => Apart' /\ Resetting' /\ InFlash' /\ Confirmed'
      BY <1>t, <1>o, <1>v, <2>3, <2>7
      DEF Apart, Resetting, InFlash, Confirmed, Kept, Sure, Agreed, Starting
    <2> QED BY <1>t, <2>4, <2>6, <2>8 DEF BondInv
  <1> QED BY <1>1, <1>2

LEMMA RestoreStep ==
  ASSUME BondInv, Restore
  PROVE  BondInv'
  <1>f. PICK failed \in SUBSET Table :
          /\ ram' = [u \in Table |-> IF u \in failed THEN <<>> ELSE Restored(u)]
          /\ unread' = failed
          /\ trusted' = [u \in Table |-> trusted[u] \/ (u \notin failed /\ ~unsure)]
    BY DEF Restore
  <1>t. /\ Typed /\ host.at = "restore" /\ UNCHANGED <<flash, main, made, unsure, gone, overlap>>
        /\ confirmed' = [u \in Table |-> IF trusted[u] THEN confirmed[u] ELSE Restored(u)]
        /\ host' = Resting
    BY DEF BondInv, Restore
  <1>r. \A u \in Table : Restored(u) \in Seq(Rec) /\ Len(Restored(u)) <= Capacity
    BY <1>t, RestoredFacts DEF Typed
  <1>1. /\ RamTyped'
        /\ \A u \in Table : ram'[u] = IF u \in failed THEN <<>> ELSE Restored(u)
    <2>1. <<>> \in Seq(Rec) /\ Len(<<>>) <= Capacity
      BY BondConstants
    <2> QED BY <2>1, <1>f, <1>r DEF RamTyped
  <1>c. /\ confirmed' \in [Table -> Seq(Rec)] /\ unread' \in SUBSET Table
        /\ trusted' \in [Table -> BOOLEAN] /\ unsure' \in BOOLEAN
    BY <1>t, <1>f, <1>r, Zenon DEF Typed, HistoryTyped
  <1>2. host'.at = "idle" /\ HostTyped'
    BY <1>t, RestingFacts, BondConstants DEF HostTyped
  <1>3. Typed'
    BY <1>t, <1>1, <1>2, <1>c DEF Typed, FlashTyped, MainTyped, HistoryTyped
  <1>4. \A u \in Table : InUse(u)' \subseteq InUse(u)
    <2>1. \A u \in Table : Records(Restored(u)) \subseteq Records(flash.blob[u])
      BY <1>t, RestoredFacts DEF Typed, Records
    <2>2. \A u \in Table : Records(ram'[u]) \subseteq Records(flash.blob[u])
      BY <2>1, <1>1 DEF Records
    <2> QED BY <2>2, <1>t, <1>2 DEF InUse, Writing, Persisting
  <1>5. Known' /\ Empty' /\ (~overlap => Buried')
    BY <1>t, <1>2, <1>4 DEF BondInv, Known, Empty, Buried, Starting
  <1>6. ~overlap => main.at = "idle"
    BY <1>t DEF BondInv, Apart, Busy
  <1>7. ~overlap => Apart' /\ Resetting' /\ InFlash'
    BY <1>t, <1>2, <1>6 DEF Apart, Busy, Resetting, InFlash
  <1>8. ~overlap => Confirmed'
    <2>1. ~overlap => flash.schema \/ unsure
      BY <1>t DEF BondInv, Confirmed, Sure
    <2>2. ASSUME ~overlap, NEW u \in Table, trusted'[u]
          PROVE  Restored(u) = confirmed'[u] /\ flash.schema
      <3>1. CASE trusted[u]
        BY <2>2, <3>1, <1>t DEF BondInv, Confirmed, Kept
      <3>2. CASE ~trusted[u]
        BY <2>1, <2>2, <3>2, <1>t, <1>f
      <3> QED BY <3>1, <3>2
    <2>3. ~overlap => Kept'
      BY <2>2, <1>t DEF Kept, Restored
    <2>4. ~overlap => Sure'
      BY <2>1, <1>t, <1>2 DEF Sure
    <2>5. ~overlap => Agreed'
      BY <2>2, <1>1, <1>2, <1>f DEF Agreed, Expected
    <2> QED BY <2>3, <2>4, <2>5 DEF Confirmed
  <1> QED BY <1>t, <1>3, <1>5, <1>7, <1>8 DEF BondInv

-----------------------------------------------------------------------------
(* The reset, on the main task, and the power.                             *)

LEMMA ForgetAllStep ==
  ASSUME BondInv, ForgetAll
  PROVE  BondInv'
  <1>t. /\ Typed /\ main.at = "idle" /\ UNCHANGED <<flash, ram, host, made, trusted, confirmed, unread, unsure, gone>>
        /\ main' = [at |-> "erase", left |-> BondKeys]
        /\ overlap' = (overlap \/ Busy(host)) /\ overlap \in BOOLEAN
    BY DEF BondInv, ForgetAll, Typed, HistoryTyped, promise
  <1>1. overlap' \in BOOLEAN /\ (~overlap' => ~overlap /\ host.at = "idle")
    BY <1>t, Zenon DEF Busy
  <1>2. main'.at = "erase" /\ main'.left = BondKeys /\ MainTyped'
    BY <1>t, BondKeysFacts DEF MainTyped
  <1>3. Typed'
    BY <1>t, <1>1, <1>2 DEF Typed, FlashTyped, RamTyped, HostTyped, HistoryTyped
  <1>4. Known' /\ Empty' /\ (~overlap' => Buried')
    BY <1>t, <1>1 DEF BondInv, Known, Empty, Buried, InUse, Writing
  <1>5. Erased(main.left)'
    BY <1>2, BondKeysFacts DEF Erased
  <1>6. ~overlap' => Apart' /\ Resetting' /\ InFlash'
    BY <1>t, <1>1, <1>2, <1>5 DEF Apart, Busy, Resetting, InFlash
  <1>7. ~overlap' => Confirmed'
    BY <1>t, <1>1 DEF BondInv, Confirmed, Kept, Sure, Agreed, Expected, Restored
  <1> QED BY <1>3, <1>4, <1>6, <1>7 DEF BondInv

LEMMA ForgetKeyStep ==
  ASSUME BondInv, ForgetKey
  PROVE  BondInv'
  <1>t. /\ Typed /\ main.at = "erase" /\ main.left # <<>> /\ Erase(Head(main.left))
        /\ UNCHANGED <<ram, host, made, confirmed, unread, unsure, gone, overlap>>
        /\ main' = [main EXCEPT !.left = Tail(@)]
        /\ trusted' = [trusted EXCEPT ![Head(main.left).table] = FALSE]
    BY DEF BondInv, ForgetKey
  <1>h. main.left \in Seq(Keys)
    BY <1>t, HostFacts
  <1>k. PICK key \in Keys : key = Head(main.left)
    BY <1>t, <1>h
  <1>l. Tail(main.left) \in Seq(Keys)
    BY <1>t, <1>h
  <1>1. /\ FlashTyped' /\ flash'.schema = flash.schema
        /\ \A u \in Table :
             /\ flash'.count[u] = (IF key = CountKey(u) THEN 0 ELSE flash.count[u])
             /\ flash'.blob[u] = (IF key = BlobKey(u) THEN <<>> ELSE flash.blob[u])
    BY <1>t, <1>k, EraseFacts DEF Typed
  <1>2. /\ trusted' \in [Table -> BOOLEAN] /\ key.table \in Table
        /\ \A u \in Table : trusted'[u] => trusted[u] /\ u # key.table
    BY <1>t, <1>k DEF Typed, HistoryTyped, Keys
  <1>3. main'.at = "erase" /\ main'.left = Tail(main.left) /\ MainTyped'
    BY <1>t, <1>l DEF Typed, MainTyped
  <1>4. Typed'
    BY <1>t, <1>1, <1>2, <1>3 DEF Typed, RamTyped, HostTyped, HistoryTyped
  <1>5. \A u \in Table : InUse(u)' \subseteq InUse(u)
    <2>1. \A u \in Table : Records(flash'.blob[u]) \subseteq Records(flash.blob[u])
      BY <1>1 DEF Records
    <2> QED BY <2>1, <1>t DEF InUse, Writing
  <1>6. Known' /\ Empty' /\ (~overlap => Buried')
    BY <1>t, <1>5 DEF BondInv, Known, Empty, Buried
  <1>7. ~overlap => host.at = "idle" /\ Erased(main.left)
    BY <1>t DEF BondInv, Apart, Busy, Resetting
  <1>8. ~overlap => Erased(main.left)'
    BY <1>t, <1>h, <1>3, <1>7, ErasedNext DEF Typed, Erased
  <1>9. ~overlap => Apart' /\ Resetting' /\ InFlash'
    BY <1>t, <1>3, <1>7, <1>8 DEF Apart, Busy, Resetting, InFlash
  <1>10. \A u \in Table : trusted'[u] => Restored(u)' = Restored(u)
    <2>1. SUFFICES ASSUME NEW u \in Table, trusted'[u]
                   PROVE  Restored(u)' = Restored(u)
      OBVIOUS
    <2>2. key # CountKey(u) /\ key # BlobKey(u)
      BY <2>1, <1>2 DEF CountKey, BlobKey
    <2> QED BY <2>2, <1>1, <1>t, RestoredFacts DEF Typed
  <1>11. ~overlap => Confirmed'
    <2>1. ~overlap => Kept' /\ Sure'
      BY <1>10, <1>1, <1>2, <1>t DEF BondInv, Confirmed, Kept, Sure
    <2>2. ~overlap => Agreed'
      BY <1>2, <1>t DEF BondInv, Confirmed, Agreed, Expected
    <2> QED BY <2>1, <2>2 DEF Confirmed
  <1> QED BY <1>t, <1>4, <1>6, <1>9, <1>11 DEF BondInv

LEMMA ForgetCommitStep ==
  ASSUME BondInv, ForgetCommit
  PROVE  BondInv'
  <1>t. /\ Typed /\ main.at = "erase" /\ main.left = <<>>
        /\ UNCHANGED <<ram, host, made, trusted, confirmed, unread, gone, overlap>> /\ unsure' = FALSE
        /\ flash' = [flash EXCEPT !.schema = TRUE] /\ main' = [main EXCEPT !.at = "clear"]
    BY DEF BondInv, ForgetCommit
  <1>1. FlashTyped' /\ flash'.schema /\ flash'.count = flash.count /\ flash'.blob = flash.blob
    BY <1>t DEF Typed, FlashTyped
  <1>2. main'.at = "clear" /\ MainTyped'
    BY <1>t DEF Typed, MainTyped
  <1>3. Typed'
    BY <1>t, <1>1, <1>2 DEF Typed, RamTyped, HostTyped, HistoryTyped
  <1>4. Known' /\ Empty' /\ (~overlap => Buried')
    BY <1>t, <1>1 DEF BondInv, Known, Empty, Buried, InUse, Writing
  <1>5. ~overlap => host.at = "idle" /\ Erased(<<>>)
    BY <1>t DEF BondInv, Apart, Busy, Resetting
  <1>6. ~overlap => Erased(<<>>)'
    BY <1>1, <1>5 DEF Erased
  <1>7. ~overlap => Apart' /\ Resetting' /\ InFlash'
    BY <1>t, <1>1, <1>2, <1>5, <1>6 DEF Apart, Busy, Resetting, InFlash
  <1>8. ~overlap => Confirmed'
    BY <1>t, <1>1 DEF BondInv, Confirmed, Kept, Sure, Agreed, Expected, Restored
  <1> QED BY <1>t, <1>3, <1>4, <1>7, <1>8 DEF BondInv

LEMMA ForgetClearStep ==
  ASSUME BondInv, ForgetClear
  PROVE  BondInv'
  <1>t. /\ Typed /\ main.at = "clear" /\ UNCHANGED <<flash, host, made, unsure, overlap>>
        /\ gone' = [u \in Table |-> gone[u] \cup Records(ram[u])]
        /\ ram' = [u \in Table |-> <<>>] /\ trusted' = [u \in Table |-> TRUE]
        /\ confirmed' = [u \in Table |-> <<>>] /\ unread' = {} /\ main' = Away
    BY DEF BondInv, ForgetClear
  <1>1. \A u \in Table : /\ Records(ram[u]) \subseteq Rec /\ ram'[u] = <<>>
                         /\ gone'[u] = gone[u] \cup Records(ram[u])
    BY <1>t, RecordsOf DEF Typed, RamTyped
  <1>2. RamTyped' /\ gone' \in [Table -> SUBSET Rec]
    BY <1>t, <1>1, BondConstants DEF Typed, RamTyped, HistoryTyped
  <1>3. main'.at = "idle" /\ MainTyped'
    BY <1>t, RestingFacts DEF MainTyped
  <1>4. Typed'
    BY <1>t, <1>2, <1>3 DEF Typed, FlashTyped, HostTyped, HistoryTyped
  <1>5. \A u \in Table : InUse(u)' \subseteq InUse(u)
    BY <1>t, <1>1 DEF InUse, Writing, Records
  <1>6. Known'
    <2>1. \A u \in Table : gone'[u] \cup InUse(u)' \subseteq gone[u] \cup InUse(u)
      BY <1>1, <1>5 DEF InUse
    <2> QED BY <2>1, <1>t DEF BondInv, Known
  <1>7. ~overlap => /\ host.at = "idle"
                    /\ \A u \in Table : flash.blob[u] = <<>> /\ flash.count[u] = 0
    BY <1>t DEF BondInv, Apart, Busy, Resetting, Erased, Records
  <1>s. ~overlap => flash'.schema
    BY <1>t DEF BondInv, Resetting
  <1>8. ~overlap => Buried'
    <2>1. ~overlap => \A u \in Table : InUse(u)' = {}
      BY <1>1, <1>7, <1>t DEF InUse, Writing, Persisting, Records
    <2> QED BY <2>1 DEF Buried
  <1>9. Empty' /\ (~overlap => Apart' /\ Resetting' /\ InFlash')
    BY <1>t, <1>1, <1>3, <1>7 DEF Empty, Apart, Resetting, InFlash
  <1>10. ~overlap => Confirmed'
    <2>1. ~overlap => \A u \in Table : Restored(u)' = <<>>
      BY <1>t, <1>7 DEF Restored
    <2>2. ~overlap => Kept'
      BY <2>1, <1>t, <1>s DEF Kept
    <2>3. ~overlap => Sure'
      BY <1>t, <1>7 DEF BondInv, Confirmed, Sure
    <2>4. ~overlap => Agreed'
      BY <1>t, <1>1, <1>7 DEF Agreed, Expected
    <2> QED BY <2>2, <2>3, <2>4 DEF Confirmed
  <1> QED BY <1>t, <1>4, <1>6, <1>8, <1>9, <1>10 DEF BondInv

LEMMA ForgetFailsStep ==
  ASSUME BondInv, ForgetFails
  PROVE  BondInv'
  <1>t. /\ Typed /\ main.at = "erase" /\ main' = Away
        /\ UNCHANGED <<flash, ram, host, made, trusted, confirmed, unread, unsure, gone, overlap>>
    BY DEF BondInv, ForgetFails, promise
  <1>1. main'.at = "idle" /\ MainTyped'
    BY <1>t, RestingFacts DEF MainTyped
  <1>2. Typed'
    BY <1>t, <1>1 DEF Typed, FlashTyped, RamTyped, HostTyped, HistoryTyped
  <1>3. Known' /\ Empty' /\ (~overlap => Buried')
    BY <1>t DEF BondInv, Known, Empty, Buried, InUse, Writing
  <1>4. ~overlap => host.at = "idle"
    BY <1>t DEF BondInv, Apart, Busy
  <1>5. ~overlap => Apart' /\ Resetting' /\ InFlash' /\ Confirmed'
    BY <1>t, <1>1, <1>4
    DEF BondInv, Apart, Busy, Resetting, InFlash, Confirmed, Kept, Sure, Agreed, Expected, Restored
  <1> QED BY <1>t, <1>2, <1>3, <1>5 DEF BondInv

LEMMA PowerLossStep ==
  ASSUME BondInv, PowerLoss
  PROVE  BondInv'
  <1>t. /\ Typed /\ UNCHANGED <<flash, made, trusted, confirmed, unread, unsure, gone, overlap>>
        /\ ram' = [u \in Table |-> <<>>] /\ main' = Away
        /\ host' = [Resting EXCEPT !.at = "off"]
    BY DEF BondInv, PowerLoss, promise
  <1>1. main'.at = "idle" /\ MainTyped'
    BY <1>t, RestingFacts DEF MainTyped
  <1>2. host'.at = "off" /\ HostTyped'
    <2>1. host' = [at |-> "off", table |-> Tables[1], next |-> <<>>, left |-> <<>>]
      BY <1>t DEF Resting
    <2> QED BY <2>1, TablesFacts, BondConstants DEF HostTyped, Starting
  <1>3. RamTyped' /\ \A u \in Table : ram'[u] = <<>>
    BY <1>t, BondConstants DEF RamTyped
  <1>4. Typed'
    BY <1>t, <1>1, <1>2, <1>3 DEF Typed, FlashTyped, HistoryTyped
  <1>5. \A u \in Table : InUse(u)' \subseteq InUse(u)
    BY <1>t, <1>2, <1>3 DEF InUse, Writing, Persisting, Records
  <1>6. Known' /\ Empty' /\ (~overlap => Buried')
    BY <1>t, <1>3, <1>5 DEF BondInv, Known, Empty, Buried
  <1>7. Apart' /\ Resetting' /\ InFlash'
    BY <1>1, <1>2 DEF Apart, Resetting, InFlash
  <1>8. ~overlap => Confirmed'
    BY <1>t, <1>2 DEF BondInv, Confirmed, Kept, Sure, Agreed, Restored, Starting
  <1> QED BY <1>t, <1>4, <1>6, <1>7, <1>8 DEF BondInv

-----------------------------------------------------------------------------

LEMMA BondInit ==
  ASSUME Init
  PROVE  BondInv
  <1>1. PICK old \in BOOLEAN :
          flash = [schema |-> FALSE,
                   count |-> [t \in Table |-> IF old THEN 1 ELSE 0],
                   blob |-> [t \in Table |-> IF old THEN Legacy ELSE <<>>]]
    BY DEF Init
  <1>2. /\ ram = [t \in Table |-> <<>>] /\ main = Away /\ made = 0
        /\ host = [Resting EXCEPT !.at = "off"]
        /\ trusted = [t \in Table |-> FALSE] /\ confirmed = [t \in Table |-> <<>>]
        /\ unread = {} /\ unsure = FALSE /\ gone = [t \in Table |-> {}]
        /\ overlap = FALSE
    BY DEF Init
  <1>3. /\ FlashTyped
        /\ \A t \in Table : flash.blob[t] = Legacy \/ flash.blob[t] = <<>>
    BY <1>1, LegacyFacts DEF FlashTyped
  <1>4. RamTyped /\ MainTyped /\ HistoryTyped /\ main.at = "idle"
        /\ \A t \in Table : ram[t] = <<>> /\ gone[t] = {}
    <2>1. RamTyped /\ \A t \in Table : ram[t] = <<>>
      BY <1>2, BondConstants DEF RamTyped
    <2>2. MainTyped /\ main.at = "idle"
      BY <1>2, RestingFacts DEF MainTyped
    <2>3. trusted \in [Table -> BOOLEAN] /\ confirmed \in [Table -> Seq(Rec)]
      BY <1>2
    <2>4. HistoryTyped /\ \A t \in Table : gone[t] = {}
      BY <1>2, <2>3 DEF HistoryTyped
    <2> QED BY <2>1, <2>2, <2>4
  <1>5. host.at = "off" /\ HostTyped
    <2>1. host = [at |-> "off", table |-> Tables[1], next |-> <<>>, left |-> <<>>]
      BY <1>2 DEF Resting
    <2> QED BY <2>1, TablesFacts, BondConstants DEF HostTyped, Starting
  <1>6. Known
    <2>1. \A t \in Table : InUse(t) \subseteq Records(Legacy)
      BY <1>3, <1>4, <1>5 DEF InUse, Writing, Persisting, Records
    <2> QED BY <2>1, <1>2, <1>4, LegacyFacts DEF Known
  <1>7. Empty /\ Buried /\ Apart /\ Resetting /\ InFlash
    BY <1>4, <1>5 DEF Empty, Buried, Apart, Resetting, InFlash, Starting
  <1>8. Confirmed
    BY <1>2, <1>5 DEF Confirmed, Kept, Sure, Agreed, Starting
  <1> QED BY <1>3, <1>4, <1>5, <1>6, <1>7, <1>8 DEF BondInv, Typed

LEMMA BondStep ==
  ASSUME BondInv, [Next]_bondVars
  PROVE  BondInv'
  <1>1. CASE UNCHANGED bondVars
    BY <1>1
    DEF bondVars, promise, BondInv, Typed, FlashTyped, RamTyped, HostTyped, MainTyped, HistoryTyped,
        Known, Empty, Apart, Busy, Buried, InUse, Writing, Resetting, Erased, InFlash,
        Confirmed, Kept, Sure, Agreed, Expected, Restored
  <1>2. CASE HostTask
    BY <1>1, <1>2, StoreWriteStep, StoreDeleteStep, PersistCountStep, PersistBlobStep,
       PersistCommitStep, AdoptStep, PersistFailsStep, BootStep, NotOpenedStep,
       SchemaUnreadStep, MigrateStep, MigrateFailsStep, RestoreStep
    DEF HostTask, StoreRead
  <1>3. CASE MainTask
    BY <1>3, ForgetAllStep, ForgetKeyStep, ForgetCommitStep, ForgetClearStep, ForgetFailsStep
    DEF MainTask
  <1> QED BY <1>1, <1>2, <1>3, PowerLossStep DEF Next

THEOREM BondInvCorrect == Spec => []BondInv
  <1>1. Init => BondInv
    BY BondInit
  <1>2. BondInv /\ [Next]_bondVars => BondInv'
    BY BondStep
  <1> QED BY <1>1, <1>2, PTL DEF Spec

-----------------------------------------------------------------------------
(* The properties of the run.                                              *)

\* persist() writes a table before the caller has it: what it confirmed is what NVS has
\* and, if the start could read it, what the stack uses, until the next write reaches
\* it, over any number of restarts whose migration does not fail
\* (ble_store_apps_nvs.cpp:17-70, 235-260).
THEOREM ConfirmedSurvivesCorrect == Spec => []ConfirmedSurvives
  <1>1. BondInv => ConfirmedSurvives
    BY DEF BondInv, Confirmed, Kept, Agreed, ConfirmedSurvives
  <1> QED BY <1>1, BondInvCorrect, PTL

\* A bond that was deleted, replaced or reset never comes back, neither in RAM nor
\* with a restart: persist() and erase_bond_keys() leave no blob that has it.
THEOREM GoneStaysGoneCorrect == Spec => []GoneStaysGone
  <1>1. ASSUME BondInv
        PROVE  GoneStaysGone
    <2>1. \A t \in Table : Records(Restored(t)) \subseteq Records(flash.blob[t])
      BY <1>1, RestoredFacts DEF BondInv, Typed, Records
    <2> QED BY <2>1, <1>1 DEF BondInv, Buried, InUse, GoneStaysGone
  <1> QED BY <1>1, BondInvCorrect, PTL

=============================================================================
