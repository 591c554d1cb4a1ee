------------------------------ MODULE StoreTrans ------------------------------
(***************************************************************************)
(* StoreTrans::Commit on a master.  Every request that writes ends in it,  *)
(* on a thread of its own; no lock covers the whole of it, so the steps of *)
(* concurrent commits interleave:                                          *)
(*                                                                         *)
(*   idle --TakeLogId--> log --PutLog--> data --WriteBatch--> push         *)
(*        --Push--> (unset --UnsetLastslave-->) cache --AddToCache--> idle *)
(*                                                                         *)
(* The process may crash between any two steps and starts again from what  *)
(* the database holds.                                                     *)
(***************************************************************************)
EXTENDS TransLog

CONSTANTS
    Workers,    \* request threads of the server
    Keys,       \* rows of the data tables
    Vals,       \* values of a row
    Assocs,     \* the keys that are rows of LocalAssoc, which the cache mirrors
    Opaque,     \* keys as long as a primary key that DecodePrimaryKey rejects
    Batches,    \* what a transaction writes: functions from keys to values
    Slaves,     \* endpoints that poll this master
    MayFail,    \* whether a database write may return an error
    MayCrash,   \* whether the process may crash
    UsesLocal,  \* lookup_uses_local: whether lookups are served from the cache
    MaxLogId,   \* bound on the log ids handed out
    Absent      \* no row, a deleted row, no slave

\* A batch writes something (for an empty one see CommitNothing), and LocalAssoc
\* rows are never deleted: no service calls DelRecord on them.
ASSUME StoreTransAssumption ==
    /\ Assocs \subseteq Keys /\ Opaque \subseteq Keys
    /\ Absent \notin Vals /\ Absent \notin Slaves
    /\ MaxLogId \in Nat
    /\ MayFail \in BOOLEAN /\ MayCrash \in BOOLEAN /\ UsesLocal \in BOOLEAN
    /\ \A b \in Batches :
         /\ DOMAIN b # {} /\ DOMAIN b \subseteq Keys
         /\ \A k \in DOMAIN b : b[k] \in Vals \cup {Absent}
         /\ \A k \in DOMAIN b \cap Assocs : b[k] # Absent

VARIABLES
    logcounter,    \* SharedTable::logcounter
    logdb,         \* the K_LOGNODE rows: log id -> batch
    maindb,        \* the data rows
    cache,         \* StoreCache::assoc_map
    lastslave,     \* SharedTable::lastslave, Absent for ""
    transactions,  \* per slave, the transactions pushed to it and not yet read
    pc, trans      \* per worker, where it is in Commit and its transaction

vars == <<logcounter, logdb, maindb, cache, lastslave, transactions, pc, trans>>
store == <<logcounter, logdb, maindb, cache>>
links == <<lastslave, transactions>>

\* The transaction of a worker that is not in Commit.
NoTrans == [id |-> 0, batch |-> EmptyLog]

PCs == {"idle", "log", "data", "push", "unset", "cache"}

-------------------------------------------------------------------------------
\* CommitData: one WriteBatch of puts and deletes, applied atomically.
ApplyBatch(db, batch) ==
    [k \in Keys |-> IF k \in DOMAIN batch THEN batch[k] ELSE db[k]]

\* AddToCache: the items in order, each LocalAssoc row into the map.  The
\* secondary keys of a record precede its primary row, so a key that
\* DecodePrimaryKey cannot decode throws before anything is cached.
CacheOf(c, batch) ==
    [k \in Assocs |->
        IF k \in DOMAIN batch /\ DOMAIN batch \cap Opaque = {}
        THEN batch[k] ELSE c[k]]

\* WorkServer::init fills the cache from the LocalAssoc table.
ScanAssocs(db) == [k \in Assocs |-> IF UsesLocal THEN db[k] ELSE Absent]

-------------------------------------------------------------------------------
Init ==
    /\ logcounter = 1
    /\ logdb = EmptyLog
    /\ maindb = [k \in Keys |-> Absent]
    /\ cache = [k \in Assocs |-> Absent]
    /\ lastslave = Absent
    /\ transactions = [s \in Slaves |-> EmptyLog]
    /\ pc = [w \in Workers |-> "idle"]
    /\ trans = [w \in Workers |-> NoTrans]

\* Mutant of TakeLogId: the counter moves on once too often.
TakeLogIdTwice(w, batch) ==
    /\ pc[w] = "idle"
    /\ logcounter + 1 < MaxLogId
    /\ logcounter' = logcounter + 2
    /\ trans' = [trans EXCEPT ![w] = [id |-> logcounter + 2, batch |-> batch]]
    /\ pc' = [pc EXCEPT ![w] = "log"]
    /\ UNCHANGED <<logdb, maindb, cache, links>>

\* A service has put a transaction together and calls Commit, which calls
\* CommitLog: trans->set_id(logcounter.GetNext()).
TakeLogId(w, batch) ==
    /\ pc[w] = "idle"
    /\ logcounter < MaxLogId
    /\ logcounter' = logcounter + 1
    /\ trans' = [trans EXCEPT ![w] = [id |-> logcounter + 1, batch |-> batch]]
    /\ pc' = [pc EXCEPT ![w] = "log"]
    /\ UNCHANGED <<logdb, maindb, cache, links>>

\* CommitLog: the record is put into the log.
PutLog(w) ==
    /\ pc[w] = "log"
    /\ logdb' = Put(logdb, trans[w].id, trans[w].batch)
    /\ pc' = [pc EXCEPT ![w] = "data"]
    /\ UNCHANGED <<logcounter, maindb, cache, links, trans>>

\* Mutant of WriteBatch: the data is written before the log.
WriteBatchFirst(w) ==
    /\ pc[w] \in {"log", "data"}
    /\ maindb' = ApplyBatch(maindb, trans[w].batch)
    /\ pc' = [pc EXCEPT ![w] = IF @ = "log" THEN @ ELSE "push"]
    /\ UNCHANGED <<logcounter, logdb, cache, links, trans>>

\* CommitData: the batch is written to the data tables.
WriteBatch(w) ==
    /\ pc[w] = "data"
    /\ maindb' = ApplyBatch(maindb, trans[w].batch)
    /\ pc' = [pc EXCEPT ![w] = "push"]
    /\ UNCHANGED <<logcounter, logdb, cache, links, trans>>

\* Either write returns an error: Commit throws.  The log id stays used and a
\* log record that was written stays written.
WriteFails(w) ==
    /\ MayFail
    /\ pc[w] \in {"log", "data"}
    /\ pc' = [pc EXCEPT ![w] = "idle"]
    /\ trans' = [trans EXCEPT ![w] = NoTrans]
    /\ UNCHANGED <<store, links>>

\* Mutant of BufferTrans: the id is read from the counter again.
BufferTransAtCounter(s, t) ==
    transactions' = [transactions EXCEPT ![s] = Put(@, logcounter, t.batch)]

\* The slave stores a pushed transaction under its id (R_BUFFTRANS).
BufferTrans(s, t) ==
    transactions' = [transactions EXCEPT ![s] = Put(@, t.id, t.batch)]

\* lastslave is empty, or the push to it succeeds.
Push(w) ==
    /\ pc[w] = "push"
    /\ \/ lastslave = Absent /\ UNCHANGED transactions
       \/ lastslave # Absent /\ BufferTrans(lastslave, trans[w])
    /\ pc' = [pc EXCEPT ![w] = "cache"]
    /\ UNCHANGED <<store, lastslave, trans>>

\* SendToRemote returns false: the slave did not take the transaction, or its
\* answer was lost.
PushFails(w) ==
    /\ pc[w] = "push"
    /\ lastslave # Absent
    /\ UNCHANGED transactions \/ BufferTrans(lastslave, trans[w])
    /\ pc' = [pc EXCEPT ![w] = "unset"]
    /\ UNCHANGED <<store, lastslave, trans>>

\* if (!status) stptr->lastslave.Set("")
UnsetLastslave(w) ==
    /\ pc[w] = "unset"
    /\ lastslave' = Absent
    /\ pc' = [pc EXCEPT ![w] = "cache"]
    /\ UNCHANGED <<store, transactions, trans>>

\* The last step of Commit; an exception leaves Commit after everything else
\* is done, so the worker is idle again in either case.
AddToCache(w) ==
    /\ pc[w] = "cache"
    /\ cache' = IF UsesLocal THEN CacheOf(cache, trans[w].batch) ELSE cache
    /\ pc' = [pc EXCEPT ![w] = "idle"]
    /\ trans' = [trans EXCEPT ![w] = NoTrans]
    /\ UNCHANGED <<logcounter, logdb, maindb, links>>

\* R_TRANSLOG from a slave whose lastid equals logcounter.
SlaveInSync(s) ==
    /\ lastslave = Absent
    /\ lastslave' = s
    /\ UNCHANGED <<store, transactions, pc, trans>>

\* The process dies and starts again: the threads are gone, the database is as
\* it was, counter and cache are computed from it.
Restart ==
    /\ MayCrash
    /\ logcounter' = LastKey(logdb)
    /\ cache' = ScanAssocs(maindb)
    /\ lastslave' = Absent
    /\ pc' = [w \in Workers |-> "idle"]
    /\ trans' = [w \in Workers |-> NoTrans]
    /\ UNCHANGED <<logdb, maindb, transactions>>

CommitStep(w) ==
    \/ PutLog(w) \/ WriteBatch(w)
    \/ Push(w) \/ PushFails(w) \/ UnsetLastslave(w)
    \/ AddToCache(w)

\* Commit of a transaction without items returns at once.
CommitNothing(w) == pc[w] = "idle" /\ UNCHANGED vars

Next ==
    \/ \E w \in Workers : CommitNothing(w)
    \/ \E w \in Workers, batch \in Batches : TakeLogId(w, batch)
    \/ \E w \in Workers : CommitStep(w)
    \/ \E w \in Workers : WriteFails(w)
    \/ \E s \in Slaves : SlaveInSync(s)
    \/ Restart

Spec == Init /\ [][Next]_vars

-------------------------------------------------------------------------------
Trans == [id : Nat, batch : Batches]
IsLog(log) == \A i \in DOMAIN log : i \in Nat /\ log[i] \in Batches

\* The types of the variables.
TypeOK ==
    /\ logcounter \in Nat \ {0}
    /\ IsLog(logdb)
    /\ maindb \in [Keys -> Vals \cup {Absent}]
    /\ cache \in [Assocs -> Vals \cup {Absent}]
    /\ lastslave \in Slaves \cup {Absent}
    /\ DOMAIN transactions = Slaves
    /\ \A s \in Slaves : IsLog(transactions[s])
    /\ pc \in [Workers -> PCs]
    /\ trans \in [Workers -> Trans \cup {NoTrans}]

Quiet == \A w \in Workers : pc[w] = "idle"

\* CommitLog gives every transaction a log id of its own: a record that is in
\* the log is never replaced or lost, whatever commits run at the same time and
\* whatever id the instance starts from after a crash.  A slave that has read
\* a record has therefore read the only record of that id.
LogImmutable ==
    [][\A i \in DOMAIN logdb : i \in DOMAIN logdb' /\ logdb'[i] = logdb[i]]_vars

\* A value is logged under some id.
Logged(k, v) ==
    \E i \in DOMAIN logdb : k \in DOMAIN logdb[i] /\ logdb[i][k] = v

RowsAreLogged == \A k \in Keys : maindb[k] # Absent => Logged(k, maindb[k])
CacheIsLogged == \A k \in Assocs : cache[k] # Absent => Logged(k, cache[k])

\* Commit writes the log before the data and the data before the cache: no crash
\* and no failing write leaves a row in the data tables that a slave reading the log
\* would never see, and the cache serves no association that is not in the log.
WriteAhead == RowsAreLogged /\ CacheIsLogged

\* What R_BUFFTRANS put on a slave is what this master's log has under that id,
\* also after the master has crashed and started again.
PushedIsLogged ==
    \A s \in Slaves : \A i \in DOMAIN transactions[s] :
        i \in DOMAIN logdb /\ logdb[i] = transactions[s][i]

\* A gap, at which ReadLog breaks off for every slave, closes by itself or is
\* left by a commit that failed: an id that was given out is in the log, or waits
\* for a commit that is about to write it, until that commit ends without a record.
InFlight(i) == \E w \in Workers : pc[w] = "log" /\ trans[w].id = i
IsGap(i) == i <= logcounter /\ i \notin DOMAIN logdb /\ ~InFlight(i)
GivesUp(i) == \E w \in Workers : pc[w] = "log" /\ trans[w].id = i /\ pc'[w] = "idle"
GapsAreAbandoned ==
    [][\A i \in 2 .. logcounter' : IsGap(i)' => IsGap(i) \/ GivesUp(i)]_vars

\* The inductive invariant behind the properties above.  No id of the log is
\* above the counter; a commit that is about to write its record has an id that
\* is neither in the log nor another commit's; after that its record is there.
LogBelowCounter == \A i \in DOMAIN logdb : 2 <= i /\ i <= logcounter

InFlightFresh ==
    \A w \in Workers : pc[w] = "log" =>
        /\ 2 <= trans[w].id /\ trans[w].id <= logcounter
        /\ trans[w].id \notin DOMAIN logdb
        /\ \A v \in Workers :
             pc[v] = "log" /\ v # w => trans[v].id # trans[w].id

CommitIsLogged ==
    \A w \in Workers : pc[w] \in {"data", "push", "unset", "cache"} =>
        trans[w].id \in DOMAIN logdb /\ logdb[trans[w].id] = trans[w].batch

CommitHasTrans == \A w \in Workers : pc[w] # "idle" => trans[w] \in Trans

IInv ==
    /\ TypeOK
    /\ LogBelowCounter
    /\ InFlightFresh
    /\ CommitIsLogged
    /\ CommitHasTrans
    /\ RowsAreLogged
    /\ CacheIsLogged
    /\ PushedIsLogged

\* When no commit is running, every row of the data tables is what replaying
\* the log in the order of its ids leaves there, which is what a slave does.
DataIsReplay ==
    Quiet => \A k \in Keys :
        LET writers == {i \in DOMAIN logdb : k \in DOMAIN logdb[i]}
        IN  \A i \in writers :
                (\A j \in writers : j <= i) => maindb[k] = logdb[i][k]

===============================================================================
