------------------------------ MODULE BondStore -----------------------------
(***************************************************************************)
(* The BLE bonds in NVS: what the NimBLE host stores through its callbacks *)
(* (our keys, the peer's keys, its subscriptions), the reset of all bonds  *)
(* from the debug menu, and what a restart finds.                          *)
(*                                                                         *)
(* A table is two NVS items, a count and a blob.  Each call of the NVS     *)
(* driver is one step: it is in flash when it returns, it may fail, and    *)
(* the power may go between any two of them.  The callbacks run on the     *)
(* host task, the reset on the main task; nothing locks the tables.        *)
(***************************************************************************)
EXTENDS Integers, Sequences, SequencesExt, FiniteSets

CONSTANTS
  Tables,    \* the order erase_bond_keys() has them in: <<"our", "peer", "cccd">>
  Peers,     \* what a record is found by: a peer, with the handle for a CCCD
  Capacity,  \* kMaxBonds, kMaxCccds
  MaxGen,    \* bound on the records the host makes
  MaxCalls,  \* bound on the calls of the host and of the user
  MaxFaults, \* bound on the NVS calls that fail
  MaxCuts    \* bound on the losses of power

Table == Range(Tables)

ASSUME BondConstants ==
  /\ Tables \in Seq(STRING) /\ Tables # <<>>
  /\ Peers # {}
  /\ Capacity \in Nat \ {0}
  /\ {MaxGen, MaxCalls, MaxFaults, MaxCuts} \subseteq Nat

VARIABLES
  flash,     \* schema, and for each table its count and its blob
  ram,       \* our_secs, peer_secs, cccds with their counts
  host,      \* the host task: what it is at, the table, the candidate
  main,      \* the main task in forget_all(): the keys left to erase
  made,      \* records made: the generation of the newest one
  budget,    \* calls, faults and cuts so far
  trusted,   \* history: the last write of the table to NVS was completed
  confirmed, \* history: the table as NVS then had it
  unread,    \* history: the tables the last start could not read
  unsure,    \* history: the last start could not make sure of the schema
  gone,      \* history: records whose removal was confirmed, per table
  overlap    \* history: both tasks have been in the store at the same time

promise == <<trusted, confirmed, unread, unsure>>
bondVars == <<flash, ram, host, main, made, budget, promise, gone, overlap>>

Records(s) == {s[i] : i \in DOMAIN s}

\* What an older firmware left in each table.
Legacy == <<[peer |-> CHOOSE p \in Peers : TRUE, gen |-> 0]>>

Resting == [at |-> "idle", table |-> Tables[1], next |-> <<>>, left |-> <<>>]
Away == [at |-> "idle", left |-> <<>>]

\* The keys erase_bond_keys() erases, in its order: blob, count, blob, ...
BlobKey(t) == [item |-> "blob", table |-> t]
CountKey(t) == [item |-> "count", table |-> t]
CountsOnly == [i \in DOMAIN Tables |-> CountKey(Tables[i])]
BondKeys ==
  [i \in 1 .. 2 * Len(Tables) |->
     LET t == Tables[(i + 1) \div 2] IN IF i % 2 = 1 THEN BlobKey(t) ELSE CountKey(t)]

-----------------------------------------------------------------------------
(* NVS.  No blob is <<>> and no count is 0: restore() tells neither apart. *)

Spend(what) == budget' = [budget EXCEPT ![what] = @ + 1]
MayFail == budget.faults < MaxFaults

Put(item, t, value) ==
  flash' = IF item = "count" THEN [flash EXCEPT !.count[t] = value]
           ELSE [flash EXCEPT !.blob[t] = value]
Erase(key) == Put(key.item, key.table, IF key.item = "count" THEN 0 ELSE <<>>)

\* restore(): the blob, if it is as long as the count says.
RestoredBelow(t) ==
  IF /\ flash.count[t] \in 1 .. (Capacity - 1) /\ Len(flash.blob[t]) = flash.count[t]
  THEN flash.blob[t] ELSE <<>>
Restored(t) ==
  IF /\ flash.count[t] \in 1 .. Capacity /\ Len(flash.blob[t]) = flash.count[t]
  THEN flash.blob[t] ELSE <<>>

-----------------------------------------------------------------------------
(* The host task.                                                          *)

Busy(task) == task.at # "idle"
Call ==
  /\ ~Busy(host) /\ budget.calls < MaxCalls
  /\ Spend("calls")
  /\ overlap' = (overlap \/ Busy(main))

\* find_sec(), find_cccd() with index 0: the first record of the peer.
Find(t, p) == {i \in DOMAIN ram[t] : ram[t][i].peer = p}

\* store_write(): the record replaces the one of its peer or is added; a full
\* table refuses it (BLE_HS_ESTORE_CAP, after which the host deletes and retries).
Written(t, r) ==
  IF Find(t, r.peer) = {} THEN Append(ram[t], r)
  ELSE [i \in DOMAIN ram[t] |-> IF i \in Find(t, r.peer) THEN r ELSE ram[t][i]]

HasRoom(t, p) == Find(t, p) # {} \/ Len(ram[t]) < Capacity

StoreWrite(t, p) ==
  LET next == Written(t, [peer |-> p, gen |-> made + 1])
  IN /\ Call
     /\ made < MaxGen /\ made' = made + 1
     /\ HasRoom(t, p)
     /\ host' = [Resting EXCEPT !.at = "count", !.table = t, !.next = next]
     /\ UNCHANGED <<flash, ram, main, promise, gone>>

\* store_read(): looks a record up and changes nothing.
StoreRead == ~Busy(host) /\ UNCHANGED bondVars

\* store_delete()
StoreDelete(t, p) ==
  /\ Call
  /\ \E i \in Find(t, p) :
       host' = [Resting EXCEPT !.at = "count", !.table = t, !.next = RemoveAt(ram[t], i)]
  /\ UNCHANGED <<flash, ram, main, made, promise, gone>>

\* persist(): the count,
PersistCount ==
  /\ host.at = "count"
  /\ Put("count", host.table, Len(host.next))
  /\ host' = [host EXCEPT !.at = "blob"]
  /\ trusted' = [trusted EXCEPT ![host.table] = FALSE]
  /\ UNCHANGED <<ram, main, made, budget, confirmed, unread, unsure, gone, overlap>>

\* the blob, erased with the last record,
StoreBlob == Put("blob", host.table, host.next)

PersistBlob ==
  /\ host.at = "blob"
  /\ StoreBlob
  /\ host' = [host EXCEPT !.at = "commit"]
  /\ UNCHANGED <<ram, main, made, budget, promise, gone, overlap>>

\* and nvs_commit(); then the candidate replaces the table.
Adopted == [ram EXCEPT ![host.table] = host.next]

PersistCommit ==
  LET t == host.table
  IN /\ host.at = "commit"
     /\ host' = [host EXCEPT !.at = "adopt"]
     /\ trusted' = [trusted EXCEPT ![t] = ~unsure]
     /\ confirmed' = [confirmed EXCEPT ![t] = host.next]
     /\ UNCHANGED <<flash, ram, main, made, budget, unread, unsure, gone, overlap>>

Adopt ==
  LET t == host.table
  IN /\ host.at = "adopt"
     /\ ram' = Adopted
     /\ gone' = [gone EXCEPT ![t] = @ \cup (Records(ram[t]) \ Records(host.next))]
     /\ unread' = unread \ {t}
     /\ host' = Resting
     /\ UNCHANGED <<flash, main, made, budget, trusted, confirmed, unsure, overlap>>

\* An NVS call fails: BLE_HS_ESTORE_FAIL, and the table stays as it is.
PersistFails ==
  /\ host.at \in {"count", "blob", "commit"} /\ MayFail
  /\ Spend("faults")
  /\ trusted' = [trusted EXCEPT ![host.table] = FALSE]
  /\ host' = Resting
  /\ UNCHANGED <<flash, ram, main, made, confirmed, unread, unsure, gone, overlap>>

-----------------------------------------------------------------------------
(* companion_ble_store_init(), on the host task when the stack has started. *)

Starting == {"off", "migrate", "restore"}
Migrating == [Resting EXCEPT !.at = "migrate", !.left = BondKeys]
Restoring == [Resting EXCEPT !.at = "restore"]

Boot ==
  /\ host.at = "off"
  /\ IF flash.schema THEN host' = Restoring /\ unsure' = FALSE
     ELSE host' = Migrating /\ UNCHANGED unsure
  /\ UNCHANGED <<flash, ram, main, made, budget, trusted, confirmed, unread, gone, overlap>>

\* The namespace cannot be opened: no schema is looked at, and restore() goes on.
NotOpened ==
  /\ host.at = "off" /\ MayFail
  /\ Spend("faults")
  /\ host' = Restoring /\ unsure' = ~flash.schema
  /\ UNCHANGED <<flash, ram, main, made, trusted, confirmed, unread, gone, overlap>>

\* A schema that cannot be read is another schema.
SchemaUnread ==
  /\ host.at = "off" /\ MayFail
  /\ Spend("faults")
  /\ host' = Migrating /\ trusted' = [t \in Table |-> FALSE]
  /\ UNCHANGED <<flash, ram, main, made, confirmed, unread, unsure, gone, overlap>>

\* Another schema: erase_bond_keys(), the schema and the commit.
Migrate ==
  /\ host.at = "migrate"
  /\ IF host.left = <<>>
     THEN /\ flash' = [flash EXCEPT !.schema = TRUE]
          /\ host' = [host EXCEPT !.at = "restore"]
          /\ gone' = [t \in Table |-> gone[t] \cup Records(Legacy)]
          /\ unsure' = FALSE
     ELSE /\ Erase(Head(host.left))
          /\ host' = [host EXCEPT !.left = Tail(@)]
          /\ UNCHANGED <<gone, unsure>>
  /\ UNCHANGED <<ram, main, made, budget, trusted, confirmed, unread, overlap>>

\* A migration that fails is reported, and the tables are restored all the same.
MigrateFails ==
  /\ host.at = "migrate" /\ MayFail
  /\ Spend("faults")
  /\ host' = [host EXCEPT !.at = "restore"] /\ unsure' = ~flash.schema
  /\ UNCHANGED <<flash, ram, main, made, trusted, confirmed, unread, gone, overlap>>

\* A table whose count or blob cannot be read is empty. One that nothing vouched for
\* is confirmed by being read.
Restore ==
  /\ host.at = "restore"
  /\ \E failed \in SUBSET Table :
       /\ budget.faults + Cardinality(failed) <= MaxFaults
       /\ budget' = [budget EXCEPT !.faults = @ + Cardinality(failed)]
       /\ ram' = [t \in Table |-> IF t \in failed THEN <<>> ELSE Restored(t)]
       /\ unread' = failed
       /\ trusted' = [t \in Table |-> trusted[t] \/ (t \notin failed /\ ~unsure)]
  /\ confirmed' = [t \in Table |-> IF trusted[t] THEN confirmed[t] ELSE Restored(t)]
  /\ host' = Resting
  /\ UNCHANGED <<flash, main, made, unsure, gone, overlap>>

-----------------------------------------------------------------------------
(* companion_ble_store_forget_all(), on the main task.                     *)

ForgetAll ==
  /\ main.at = "idle" /\ host.at # "off" /\ budget.calls < MaxCalls
  /\ Spend("calls")
  /\ main' = [at |-> "erase", left |-> BondKeys]
  /\ overlap' = (overlap \/ Busy(host))
  /\ UNCHANGED <<flash, ram, host, made, promise, gone>>

ForgetKey ==
  /\ main.at = "erase" /\ main.left # <<>>
  /\ Erase(Head(main.left))
  /\ trusted' = [trusted EXCEPT ![Head(main.left).table] = FALSE]
  /\ main' = [main EXCEPT !.left = Tail(@)]
  /\ UNCHANGED <<ram, host, made, budget, confirmed, unread, unsure, gone, overlap>>

\* The schema and the commit.
ForgetCommit ==
  /\ main.at = "erase" /\ main.left = <<>>
  /\ flash' = [flash EXCEPT !.schema = TRUE]
  /\ main' = [main EXCEPT !.at = "clear"]
  /\ unsure' = FALSE
  /\ UNCHANGED <<ram, host, made, budget, trusted, confirmed, unread, gone, overlap>>

ForgetClear ==
  /\ main.at = "clear"
  /\ gone' = [t \in Table |-> gone[t] \cup Records(ram[t])]
  /\ ram' = [t \in Table |-> <<>>]
  /\ trusted' = [t \in Table |-> TRUE]
  /\ confirmed' = [t \in Table |-> <<>>]
  /\ unread' = {}
  /\ main' = Away
  /\ UNCHANGED <<flash, host, made, budget, unsure, overlap>>

ForgetFails ==
  /\ main.at = "erase" /\ MayFail
  /\ Spend("faults")
  /\ main' = Away
  /\ UNCHANGED <<flash, ram, host, made, promise, gone, overlap>>

-----------------------------------------------------------------------------

\* Whatever both tasks were at; the host keeps its own records of what it did.
PowerLoss ==
  /\ host.at # "off" /\ budget.cuts < MaxCuts
  /\ Spend("cuts")
  /\ ram' = [t \in Table |-> <<>>]
  /\ host' = [Resting EXCEPT !.at = "off"]
  /\ main' = Away
  /\ UNCHANGED <<flash, made, promise, gone, overlap>>

\* A new device, or one with the bonds of an older firmware.
Init ==
  /\ \E old \in BOOLEAN :
       flash = [schema |-> FALSE,
                count |-> [t \in Table |-> IF old THEN 1 ELSE 0],
                blob |-> [t \in Table |-> IF old THEN Legacy ELSE <<>>]]
  /\ ram = [t \in Table |-> <<>>]
  /\ host = [Resting EXCEPT !.at = "off"] /\ main = Away
  /\ made = 0 /\ budget = [calls |-> 0, faults |-> 0, cuts |-> 0]
  /\ trusted = [t \in Table |-> FALSE] /\ confirmed = [t \in Table |-> <<>>]
  /\ unread = {} /\ unsure = FALSE
  /\ gone = [t \in Table |-> {}]
  /\ overlap = FALSE

HostTask ==
  \/ \E t \in Table, p \in Peers : StoreWrite(t, p) \/ StoreDelete(t, p)
  \/ StoreRead
  \/ PersistCount \/ PersistBlob \/ PersistCommit \/ Adopt \/ PersistFails
  \/ Boot \/ NotOpened \/ SchemaUnread \/ Migrate \/ MigrateFails \/ Restore

MainTask == ForgetAll \/ ForgetKey \/ ForgetCommit \/ ForgetClear \/ ForgetFails

Next == HostTask \/ MainTask \/ PowerLoss

Spec == Init /\ [][Next]_bondVars

-----------------------------------------------------------------------------
(* Properties.                                                             *)

\* The records of a table that the stack works with, or will when the store returns.
Expected(t) == IF host.at = "adopt" /\ host.table = t THEN host.next ELSE ram[t]

\* persist() writes before it lets the caller have the table: from the confirmed
\* write of a table to the next write that reaches it, over any number of restarts,
\* NVS has what was confirmed, a full table included, and so has the stack. The
\* exceptions are NVS calls that fail in a start: a start that cannot read the
\* schema, or one after a start that could not make sure of it, erases all bonds,
\* confirmed ones too (ble_store_apps_nvs.cpp:239-248); and a table that cannot be
\* read is empty until the next restart, or until a write replaces it (:46-61).
ConfirmedSurvives ==
  ~overlap => \A t \in Table : trusted[t] =>
    /\ Restored(t) = confirmed[t]
    /\ host.at \notin Starting /\ t \notin unread => Expected(t) = confirmed[t]

\* A record whose deletion, replacement or reset was confirmed ("BLE BONDS
\* CLEARED", main.cpp:628) never comes back: no sequence of later writes, failures
\* and restarts pairs a later count with an older blob (the erasing of the blob
\* with the last record, erase_bond_keys()).
GoneStaysGone ==
  ~overlap => \A t \in Table :
    gone[t] \cap (Records(ram[t]) \cup Records(Restored(t))) = {}

=============================================================================
