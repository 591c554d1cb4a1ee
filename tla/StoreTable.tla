------------------------------ MODULE StoreTable ------------------------------
(***************************************************************************)
(* A table of StoreTable.hpp with a unique key and an index key, as the    *)
(* services use it: look the record up by its unique key, update it when   *)
(* it is there and insert it under a new id when it is not, then commit.   *)
(* Looking up, AddRecord and Commit are separate steps of a request thread *)
(* and no lock spans them; Commit applies its items atomically.            *)
(*                                                                         *)
(* The index entry of a record is its key followed by its id.  Records     *)
(* keep their keys: every service updates a record it found by them.       *)
(***************************************************************************)
EXTENDS TransLog

CONSTANTS
    Workers,    \* request threads
    Keys,       \* values of the unique key, for example medium and address
    Vals,       \* the rest of a record
    MayCrash,   \* whether the process may crash
    MayPromote, \* whether the instance may be a slave that becomes master
    MaxId       \* bound on the ids handed out

ASSUME StoreTableAssumption ==
    MaxId \in Nat \ {0} /\ MayCrash \in BOOLEAN /\ MayPromote \in BOOLEAN

VARIABLES
    rows,        \* the primary rows: id -> [key, val]
    uniq,        \* the unique key's rows: key -> id
    index,       \* the index rows: {<<key, id>>}
    maincounter, \* SharedTable::maincounter
    pc,          \* per worker: idle, found, commit
    rec          \* per worker: the record [id, key, val] and upsert

vars == <<rows, uniq, index, maincounter, pc, rec>>
table == <<rows, uniq, index>>

NoRec == [id |-> 0]

Init ==
    /\ rows = EmptyLog
    /\ uniq = EmptyLog
    /\ index = {}
    /\ maincounter = 1
    /\ pc = [w \in Workers |-> "idle"]
    /\ rec = [w \in Workers |-> NoRec]

\* GetOne by the unique key: its row names an id and that record exists.
GetOne(k) == k \in DOMAIN uniq /\ uniq[k] \in DOMAIN rows

\* A service looks for the record of key k and decides on the id.
Find(w, k, v) ==
    /\ pc[w] = "idle"
    /\ \/ /\ GetOne(k)
          /\ rec' = [rec EXCEPT ![w] =
                       [id |-> uniq[k], key |-> k, val |-> v, upsert |-> TRUE]]
          /\ UNCHANGED maincounter
       \/ /\ ~GetOne(k)
          /\ maincounter < MaxId
          /\ maincounter' = maincounter + 1
          /\ rec' = [rec EXCEPT ![w] = [id |-> maincounter + 1, key |-> k,
                                        val |-> v, upsert |-> FALSE]]
    /\ pc' = [pc EXCEPT ![w] = "found"]
    /\ UNCHANGED table

\* Mutant of Refused: an existing record does not stop an insertion.
RefusedOnClash(r) == r.key \in DOMAIN uniq /\ uniq[r.key] # r.id

\* AddRecord returns false: the record exists and is not to be updated, or the
\* unique key belongs to another record.
Refused(r) ==
    \/ r.id \in DOMAIN rows /\ ~r.upsert
    \/ r.key \in DOMAIN uniq /\ uniq[r.key] # r.id

\* AddRecord: the items are in the transaction, or the service throws.
AddRecord(w) ==
    /\ pc[w] = "found"
    /\ \/ Refused(rec[w]) /\ pc' = [pc EXCEPT ![w] = "idle"]
                          /\ rec' = [rec EXCEPT ![w] = NoRec]
       \/ ~Refused(rec[w]) /\ pc' = [pc EXCEPT ![w] = "commit"]
                           /\ UNCHANGED rec
    /\ UNCHANGED <<table, maincounter>>

\* Mutant of Commit: the index row of a new record is left out.
CommitNoIndex(w) ==
    /\ pc[w] = "commit"
    /\ LET r == rec[w]
       IN  /\ rows' = Put(rows, r.id, [key |-> r.key, val |-> r.val])
           /\ uniq' = IF r.upsert THEN uniq ELSE Put(uniq, r.key, r.id)
           /\ UNCHANGED index
    /\ pc' = [pc EXCEPT ![w] = "idle"]
    /\ rec' = [rec EXCEPT ![w] = NoRec]
    /\ UNCHANGED maincounter

\* Commit: the primary row, and for a new record its unique and index rows.
Commit(w) ==
    /\ pc[w] = "commit"
    /\ LET r == rec[w]
       IN  /\ rows' = Put(rows, r.id, [key |-> r.key, val |-> r.val])
           /\ uniq' = IF r.upsert THEN uniq ELSE Put(uniq, r.key, r.id)
           /\ index' = IF r.upsert THEN index ELSE index \cup {<<r.key, r.id>>}
    /\ pc' = [pc EXCEPT ![w] = "idle"]
    /\ rec' = [rec EXCEPT ![w] = NoRec]
    /\ UNCHANGED maincounter

\* No request outlives the process, and a slave has none that writes.
Abandon ==
    /\ pc' = [w \in Workers |-> "idle"]
    /\ rec' = [w \in Workers |-> NoRec]

\* Crash and restart: the counter becomes the last id in use.
Restart ==
    /\ MayCrash
    /\ maincounter' = LastKey(rows)
    /\ Abandon
    /\ UNCHANGED table

\* The instance is a slave that received the rows by replication and is elected.
\* MasterUpdate sets is_master; maincounter is what it was when the slave
\* started.
Promote ==
    /\ MayPromote
    /\ \E c \in 1 .. LastKey(rows) : maincounter' = c
    /\ Abandon
    /\ UNCHANGED table

Next ==
    \/ \E w \in Workers :
         \/ \E k \in Keys, v \in Vals : Find(w, k, v)
         \/ AddRecord(w) \/ Commit(w)
    \/ Restart
    \/ Promote

Spec == Init /\ [][Next]_vars

-------------------------------------------------------------------------------
\* The ids of records: the counter starts at 1 or above and is incremented first.
Ids == 2 .. MaxId
Recs == [id : Ids, key : Keys, val : Vals, upsert : BOOLEAN]

\* The types of the variables; a request under way has a record.
TypeOK ==
    /\ DOMAIN rows \subseteq Ids
    /\ \A i \in DOMAIN rows : rows[i] \in [key : Keys, val : Vals]
    /\ DOMAIN uniq \subseteq Keys /\ \A k \in DOMAIN uniq : uniq[k] \in Ids
    /\ index \subseteq Keys \X Ids
    /\ maincounter \in 1 .. MaxId
    /\ pc \in [Workers -> {"idle", "found", "commit"}]
    /\ rec \in [Workers -> {NoRec} \cup Recs]
    /\ \A w \in Workers : pc[w] # "idle" => rec[w] \in Recs

\* No secondary row leads to a missing record or to a record with another key,
\* so GetMany never throws "Record is missing".  Where a counter that lags behind
\* hands out an id twice, AddRecord refuses.
SecondaryKeysSound ==
    /\ \A k \in DOMAIN uniq : uniq[k] \in DOMAIN rows /\ rows[uniq[k]].key = k
    /\ \A e \in index : e[2] \in DOMAIN rows /\ rows[e[2]].key = e[1]

\* Every record is found through the index, and some record of its key through
\* the unique key.
RowsAreIndexed ==
    \A i \in DOMAIN rows : <<rows[i].key, i>> \in index /\ rows[i].key \in DOMAIN uniq

\* What holds of requests under way: one that updates a record has the key of that
\* record; one whose insertion AddRecord has let through has an id no record has;
\* no two insertions have the same id, and the counter has reached them.
Inserts(w) == pc[w] # "idle" /\ ~rec[w].upsert

UpdatesKeepKey ==
    \A w \in Workers : pc[w] # "idle" /\ rec[w].upsert =>
        rec[w].id \in DOMAIN rows /\ rows[rec[w].id].key = rec[w].key

InsertsAreNew ==
    \A w \in Workers : Inserts(w) =>
        /\ rec[w].id <= maincounter
        /\ pc[w] = "commit" => rec[w].id \notin DOMAIN rows
        /\ \A v \in Workers : v # w /\ Inserts(v) => rec[v].id # rec[w].id

\* The inductive invariant.
IInv ==
    /\ TypeOK
    /\ UpdatesKeepKey
    /\ InsertsAreNew
    /\ SecondaryKeysSound
    /\ RowsAreIndexed

===============================================================================
