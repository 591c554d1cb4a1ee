------------------------------- MODULE TransLog -------------------------------
(***************************************************************************)
(* The transaction log of one identt instance: the K_LOGNODE rows of its   *)
(* RocksDB, read as a partial function from log ids to records.  This      *)
(* module holds what the code computes from such a log: writing a row, the *)
(* counter an instance starts from, the run of records a reader gets, and  *)
(* reading a single record.                                                *)
(***************************************************************************)
EXTENDS Naturals

\* The log of a new instance has no record.  (StoreLevel::Initialize writes
\* a fence row with id 0 and no value; see ReadOne.)
EmptyLog == [i \in {} |-> 0]

\* logdb->Put(EncodePrimaryKey(K_LOGNODE, id), value): a row is added or
\* replaced.
Put(log, id, rec) ==
    [i \in DOMAIN log \cup {id} |-> IF i = id THEN rec ELSE log[i]]

\* Mutants of LastKey: no default for an empty log; one short of the last key.
LastKeyNoDefault(log) ==
    IF DOMAIN log = {} THEN 0
    ELSE CHOOSE m \in DOMAIN log : \A i \in DOMAIN log : i <= m
LastKeyShort(log) ==
    IF DOMAIN log = {} THEN 1
    ELSE (CHOOSE m \in DOMAIN log : \A i \in DOMAIN log : i <= m) - 1

\* The largest id in use, which StoreLevel::Initialize finds by stepping back
\* from the K_MAXNODE fence; WorkServer::init takes 1 when there is none.
LastKey(log) ==
    IF DOMAIN log = {} THEN 1
    ELSE CHOOSE m \in DOMAIN log : \A i \in DOMAIN log : i <= m

\* ReadLog walks the rows after lastid as long as their ids are consecutive
\* and breaks once the count exceeds limit, so it returns limit + 1 records at
\* most.  The result is the id of the last record it returns.
ReadLast(log, lastid, limit) ==
    CHOOSE m \in lastid .. lastid + limit + 1 :
        /\ \A i \in lastid + 1 .. m : i \in DOMAIN log
        /\ m = lastid + limit + 1 \/ m + 1 \notin DOMAIN log

\* The records of that run, by id.
ReadLog(log, lastid, limit) ==
    [i \in lastid + 1 .. ReadLast(log, lastid, limit) |-> log[i]]

===============================================================================
