--------------------------- MODULE StoreTransProofs ---------------------------
(***************************************************************************)
(* Safety of concurrent commits, for any number of workers, keys and       *)
(* slaves: the inductive invariant IInv of StoreTrans, and what follows    *)
(* from it.                                                                *)
(***************************************************************************)
EXTENDS StoreTrans, TLAPS, NaturalsInduction, WellFoundedInduction

\* The counter an instance starts from is at least 1, covers every id of its
\* log and, when there is one, is the id of a record (StoreLevel::Initialize).
LEMMA LastKeyIsLast ==
    ASSUME NEW log, NEW c \in Nat,
           \A i \in DOMAIN log : i \in Nat /\ 2 <= i /\ i <= c
    PROVE  /\ LastKey(log) \in Nat \ {0}
           /\ \A i \in DOMAIN log : i <= LastKey(log)
           /\ LastKey(log) = 1 \/ LastKey(log) \in DOMAIN log
<1>1. CASE DOMAIN log = {}
    BY <1>1 DEF LastKey
<1>2. CASE DOMAIN log # {}
    <2> DEFINE R == OpToRel(<, Nat)
               T == {c - i : i \in DOMAIN log}
    <2>1. \A i \in DOMAIN log : c - i \in Nat
        OBVIOUS
    <2>2. PICK x \in T : \A y \in T : <<y, x>> \notin R
        <3>1. IsWellFoundedOn(R, Nat) /\ T \subseteq Nat /\ T # {}
            BY <1>2, <2>1, NatLessThanWellFounded
        <3> HIDE DEF R, T
        <3> QED BY <3>1, WFMin
    <2>3. PICK m \in DOMAIN log : x = c - m
        OBVIOUS
    <2>4. ASSUME NEW i \in DOMAIN log PROVE i <= m
        <3>1. ~(c - i < c - m) /\ c - i \in Nat /\ c - m \in Nat
            BY <2>1, <2>2, <2>3 DEF OpToRel
        <3> QED BY <3>1
    <2> QED BY <1>2, <2>4 DEF LastKey
<1> QED BY <1>1, <1>2

\* What the log has under an id, it keeps.
Extends(new, old) == \A i \in DOMAIN old : i \in DOMAIN new /\ new[i] = old[i]

\* Init establishes the invariant.
LEMMA InitIInv == Init => IInv
BY DEF Init, IInv, TypeOK, IsLog, EmptyLog, PCs, NoTrans, LogBelowCounter,
       InFlightFresh, CommitIsLogged, CommitHasTrans, RowsAreLogged,
       CacheIsLogged, PushedIsLogged, Trans

\* A step that leaves log, data, cache and pushed transactions alone keeps
\* what relates them.
LEMMA StoreUnchanged ==
    ASSUME RowsAreLogged, CacheIsLogged, PushedIsLogged,
           UNCHANGED <<logdb, maindb, cache, transactions>>
    PROVE  RowsAreLogged' /\ CacheIsLogged' /\ PushedIsLogged'
BY DEF RowsAreLogged, CacheIsLogged, PushedIsLogged, Logged

\* TakeLogId: the id is fresh because it is above the counter.
LEMMA TakeLogIdIInv ==
    ASSUME IInv, NEW w \in Workers, NEW batch \in Batches, TakeLogId(w, batch)
    PROVE  IInv'
<1> USE DEF TakeLogId, links
<1>1. TypeOK'
    BY DEF IInv, TypeOK, IsLog, PCs, Trans
<1>2. LogBelowCounter'
    BY DEF IInv, TypeOK, IsLog, LogBelowCounter
<1>3. InFlightFresh'
    <2> SUFFICES ASSUME NEW x \in Workers, pc'[x] = "log"
                 PROVE  /\ 2 <= trans'[x].id /\ trans'[x].id <= logcounter'
                        /\ trans'[x].id \notin DOMAIN logdb
                        /\ \A v \in Workers : pc'[v] = "log" /\ v # x =>
                             trans'[v].id # trans'[x].id
        BY DEF InFlightFresh
    <2>1. /\ logcounter \in Nat \ {0}
          /\ logcounter' = logcounter + 1
          /\ trans'[w] = [id |-> logcounter + 1, batch |-> batch]
          /\ \A v \in Workers : v # w => trans'[v] = trans[v] /\ pc'[v] = pc[v]
        BY DEF IInv, TypeOK
    <2>2. \A v \in Workers : v # w /\ pc'[v] = "log" =>
             trans[v].id \in Nat /\ trans[v].id <= logcounter /\ 2 <= trans[v].id
        BY <2>1 DEF IInv, InFlightFresh, CommitHasTrans, Trans
    <2>3. \A i \in DOMAIN logdb : i \in Nat /\ i <= logcounter
        BY DEF IInv, TypeOK, IsLog, LogBelowCounter
    <2>4. CASE x = w
        BY <2>1, <2>2, <2>3, <2>4
    <2>5. CASE x # w
        BY <2>1, <2>2, <2>5 DEF IInv, InFlightFresh
    <2> QED BY <2>4, <2>5
<1>4. CommitIsLogged'
    BY DEF IInv, TypeOK, CommitIsLogged
<1>5. CommitHasTrans'
    BY DEF IInv, TypeOK, CommitHasTrans, Trans
<1> QED
    BY <1>1, <1>2, <1>3, <1>4, <1>5, StoreUnchanged DEF IInv

\* PutLog: the id is in no record and in no other commit, so nothing that is
\* logged is replaced.
LEMMA PutLogExtends ==
    ASSUME IInv, NEW w \in Workers, PutLog(w)
    PROVE  /\ Extends(logdb', logdb)
           /\ DOMAIN logdb' = DOMAIN logdb \cup {trans[w].id}
           /\ logdb'[trans[w].id] = trans[w].batch
<1>1. trans[w].id \notin DOMAIN logdb
    BY DEF IInv, PutLog, InFlightFresh
<1>2. logdb' = Put(logdb, trans[w].id, trans[w].batch)
    BY DEF PutLog
<1>3. DOMAIN logdb' = DOMAIN logdb \cup {trans[w].id}
    BY <1>2, Zenon DEF Put
<1>4. \A i \in DOMAIN logdb \cup {trans[w].id} : logdb'[i] =
        IF i = trans[w].id THEN trans[w].batch ELSE logdb[i]
    BY <1>2 DEF Put
<1> QED BY <1>1, <1>3, <1>4 DEF Extends

\* Whatever was logged or pushed before is so after the log has grown.
LEMMA LoggedKept ==
    ASSUME Extends(logdb', logdb), RowsAreLogged, CacheIsLogged, PushedIsLogged,
           UNCHANGED <<maindb, cache, transactions>>
    PROVE  RowsAreLogged' /\ CacheIsLogged' /\ PushedIsLogged'
<1>1. ASSUME NEW k, NEW v, Logged(k, v) PROVE Logged(k, v)'
    BY <1>1 DEF Logged, Extends
<1>2. RowsAreLogged' /\ CacheIsLogged'
    BY <1>1 DEF RowsAreLogged, CacheIsLogged
<1>3. PushedIsLogged'
    BY DEF PushedIsLogged, Extends
<1> QED BY <1>2, <1>3

LEMMA PutLogIInv ==
    ASSUME IInv, NEW w \in Workers, PutLog(w)
    PROVE  IInv'
<1> USE DEF PutLog, links
<1>1. /\ Extends(logdb', logdb)
      /\ DOMAIN logdb' = DOMAIN logdb \cup {trans[w].id}
      /\ logdb'[trans[w].id] = trans[w].batch
    BY PutLogExtends
<1>2. trans[w] \in Trans /\ 2 <= trans[w].id /\ trans[w].id <= logcounter
    BY DEF IInv, CommitHasTrans, InFlightFresh
<1> HIDE DEF PutLog
<1>3. TypeOK'
    BY <1>1, <1>2 DEF PutLog, IInv, TypeOK, IsLog, PCs, Trans, Extends
<1>4. LogBelowCounter'
    BY <1>1, <1>2 DEF PutLog, IInv, LogBelowCounter
<1>5. InFlightFresh'
    BY <1>1 DEF PutLog, IInv, TypeOK, InFlightFresh
<1>6. CommitIsLogged'
    BY <1>1 DEF PutLog, IInv, TypeOK, CommitIsLogged, Extends
<1>7. CommitHasTrans'
    BY <1>2 DEF PutLog, IInv, TypeOK, CommitHasTrans
<1>8. RowsAreLogged' /\ CacheIsLogged' /\ PushedIsLogged'
    BY <1>1, LoggedKept DEF PutLog, IInv
<1> QED BY <1>3, <1>4, <1>5, <1>6, <1>7, <1>8 DEF IInv

\* WriteBatch: the batch is in the log, so what it writes is logged.
LEMMA WriteBatchIInv ==
    ASSUME IInv, NEW w \in Workers, WriteBatch(w)
    PROVE  IInv'
<1> USE DEF WriteBatch, links
<1>1. /\ trans[w].id \in DOMAIN logdb /\ logdb[trans[w].id] = trans[w].batch
      /\ trans[w].batch \in Batches
    BY DEF IInv, CommitIsLogged, CommitHasTrans, Trans
<1>2. TypeOK'
    <2>1. maindb' \in [Keys -> Vals \cup {Absent}]
        BY <1>1, StoreTransAssumption DEF IInv, TypeOK, ApplyBatch
    <2> QED BY <2>1 DEF IInv, TypeOK, IsLog, PCs
<1>3. LogBelowCounter' /\ InFlightFresh' /\ CommitIsLogged' /\ CommitHasTrans'
    BY DEF IInv, TypeOK, LogBelowCounter, InFlightFresh, CommitIsLogged,
           CommitHasTrans
<1>4. RowsAreLogged'
    BY <1>1 DEF IInv, RowsAreLogged, Logged, ApplyBatch
<1>5. CacheIsLogged' /\ PushedIsLogged'
    BY DEF IInv, CacheIsLogged, PushedIsLogged, Logged
<1> QED BY <1>2, <1>3, <1>4, <1>5 DEF IInv

\* An error ends the commit and leaves a gap at most.
LEMMA WriteFailsIInv ==
    ASSUME IInv, NEW w \in Workers, WriteFails(w)
    PROVE  IInv'
<1> USE DEF WriteFails, links, store
<1>1. TypeOK'
    BY DEF IInv, TypeOK, IsLog, PCs, NoTrans
<1>2. LogBelowCounter' /\ InFlightFresh' /\ CommitIsLogged' /\ CommitHasTrans'
    BY DEF IInv, TypeOK, LogBelowCounter, InFlightFresh, CommitIsLogged,
           CommitHasTrans
<1> QED BY <1>1, <1>2, StoreUnchanged DEF IInv

\* A push puts the logged record into the slave's buffer, under its id.
LEMMA BufferTransPushed ==
    ASSUME IInv, NEW w \in Workers, pc[w] = "push",
           \/ UNCHANGED transactions
           \/ lastslave # Absent /\ BufferTrans(lastslave, trans[w]),
           UNCHANGED logdb
    PROVE  /\ PushedIsLogged'
           /\ DOMAIN transactions' = Slaves
           /\ \A s \in Slaves : IsLog(transactions'[s])
<1>1. /\ trans[w].id \in DOMAIN logdb /\ logdb[trans[w].id] = trans[w].batch
      /\ trans[w].id \in Nat /\ trans[w].batch \in Batches
    BY DEF IInv, CommitIsLogged, CommitHasTrans, Trans
<1>2. CASE UNCHANGED transactions
    BY <1>2 DEF IInv, TypeOK, PushedIsLogged, IsLog
<1>3. CASE lastslave # Absent /\ BufferTrans(lastslave, trans[w])
    <2>1. /\ DOMAIN transactions = Slaves
          /\ \A s \in Slaves : IsLog(transactions[s])
        BY DEF IInv, TypeOK
    <2>2. \A s \in Slaves : transactions'[s] =
            IF s = lastslave
            THEN Put(transactions[s], trans[w].id, trans[w].batch)
            ELSE transactions[s]
        BY <1>3, <2>1 DEF BufferTrans
    <2>3. DOMAIN transactions' = Slaves
        BY <1>3, <2>1 DEF BufferTrans
    <2>4. ASSUME NEW s \in Slaves, NEW i \in DOMAIN transactions'[s]
          PROVE  /\ i \in Nat /\ transactions'[s][i] \in Batches
                 /\ i \in DOMAIN logdb /\ logdb[i] = transactions'[s][i]
        <3>1. \A j \in DOMAIN transactions[s] :
                 /\ j \in Nat /\ transactions[s][j] \in Batches
                 /\ j \in DOMAIN logdb /\ logdb[j] = transactions[s][j]
            BY <2>1 DEF IsLog, IInv, PushedIsLogged
        <3>2. CASE s = lastslave
            <4>1. DOMAIN transactions'[s] = DOMAIN transactions[s] \cup {trans[w].id}
                BY <2>2, <3>2, Zenon DEF Put
            <4>2. transactions'[s][i] =
                    IF i = trans[w].id THEN trans[w].batch ELSE transactions[s][i]
                BY <2>2, <2>4, <3>2, <4>1 DEF Put
            <4> QED BY <1>1, <2>4, <3>1, <4>1, <4>2
        <3>3. CASE s # lastslave
            BY <2>2, <2>4, <3>1, <3>3
        <3> QED BY <3>2, <3>3
    <2> QED BY <2>3, <2>4 DEF PushedIsLogged, IsLog
<1> QED BY <1>2, <1>3

LEMMA PushIInv ==
    ASSUME IInv, NEW w \in Workers, Push(w) \/ PushFails(w)
    PROVE  IInv'
<1> USE DEF Push, PushFails, links, store
<1>1. /\ pc[w] = "push" /\ UNCHANGED <<store, lastslave, trans>>
      /\ \/ UNCHANGED transactions
         \/ lastslave # Absent /\ BufferTrans(lastslave, trans[w])
      /\ pc' = [pc EXCEPT ![w] = "cache"] \/ pc' = [pc EXCEPT ![w] = "unset"]
    OBVIOUS
<1> HIDE DEF Push, PushFails
<1>2. /\ PushedIsLogged' /\ DOMAIN transactions' = Slaves
      /\ \A s \in Slaves : IsLog(transactions'[s])
    BY <1>1, BufferTransPushed
<1>3. TypeOK'
    BY <1>1, <1>2 DEF IInv, TypeOK, IsLog, PCs
<1>4. LogBelowCounter' /\ InFlightFresh' /\ CommitIsLogged' /\ CommitHasTrans'
    BY <1>1 DEF IInv, TypeOK, LogBelowCounter, InFlightFresh, CommitIsLogged,
                CommitHasTrans
<1>5. RowsAreLogged' /\ CacheIsLogged'
    BY <1>1 DEF IInv, RowsAreLogged, CacheIsLogged, Logged
<1> QED BY <1>2, <1>3, <1>4, <1>5 DEF IInv

LEMMA LastslaveIInv ==
    ASSUME IInv,
           \/ \E w \in Workers : UnsetLastslave(w)
           \/ \E s \in Slaves : SlaveInSync(s)
    PROVE  IInv'
<1> USE DEF UnsetLastslave, SlaveInSync, store
<1>1. TypeOK'
    BY DEF IInv, TypeOK, IsLog, PCs
<1>2. LogBelowCounter' /\ InFlightFresh' /\ CommitIsLogged' /\ CommitHasTrans'
    BY DEF IInv, TypeOK, LogBelowCounter, InFlightFresh, CommitIsLogged,
           CommitHasTrans
<1>3. UNCHANGED <<logdb, maindb, cache, transactions>>
    OBVIOUS
<1> QED BY <1>1, <1>2, <1>3, StoreUnchanged DEF IInv

\* AddToCache: only what the log has gets into the cache.
LEMMA AddToCacheIInv ==
    ASSUME IInv, NEW w \in Workers, AddToCache(w)
    PROVE  IInv'
<1> USE DEF AddToCache, links
<1>1. /\ trans[w].id \in DOMAIN logdb /\ logdb[trans[w].id] = trans[w].batch
      /\ trans[w].batch \in Batches
    BY DEF IInv, CommitIsLogged, CommitHasTrans, Trans
<1>2. TypeOK'
    <2>1. cache' \in [Assocs -> Vals \cup {Absent}]
        BY <1>1, StoreTransAssumption DEF IInv, TypeOK, CacheOf
    <2> QED BY <2>1 DEF IInv, TypeOK, IsLog, PCs, NoTrans
<1>3. LogBelowCounter' /\ InFlightFresh' /\ CommitIsLogged' /\ CommitHasTrans'
    BY DEF IInv, TypeOK, LogBelowCounter, InFlightFresh, CommitIsLogged,
           CommitHasTrans
<1>4. CacheIsLogged'
    BY <1>1 DEF IInv, CacheIsLogged, Logged, CacheOf
<1>5. RowsAreLogged' /\ PushedIsLogged'
    BY DEF IInv, RowsAreLogged, PushedIsLogged, Logged
<1> QED BY <1>2, <1>3, <1>4, <1>5 DEF IInv

\* Restart: the new counter covers the log, and the cache is read from the data
\* tables, which hold only what is logged.
LEMMA RestartIInv ==
    ASSUME IInv, Restart
    PROVE  IInv'
<1> USE DEF Restart
<1>1. /\ LastKey(logdb) \in Nat \ {0}
      /\ \A i \in DOMAIN logdb : i <= LastKey(logdb)
    <2>1. logcounter \in Nat /\
          \A i \in DOMAIN logdb : i \in Nat /\ 2 <= i /\ i <= logcounter
        BY DEF IInv, TypeOK, IsLog, LogBelowCounter
    <2> QED BY <2>1, LastKeyIsLast
<1>2. TypeOK'
    <2>1. cache' \in [Assocs -> Vals \cup {Absent}]
        BY StoreTransAssumption DEF IInv, TypeOK, ScanAssocs
    <2> QED BY <1>1, <2>1 DEF IInv, TypeOK, IsLog, PCs, NoTrans
<1>3. LogBelowCounter'
    BY <1>1 DEF IInv, LogBelowCounter
<1>4. InFlightFresh' /\ CommitIsLogged' /\ CommitHasTrans'
    BY DEF InFlightFresh, CommitIsLogged, CommitHasTrans
<1>5. CacheIsLogged'
    BY StoreTransAssumption DEF IInv, CacheIsLogged, RowsAreLogged, Logged,
       ScanAssocs
<1>6. RowsAreLogged' /\ PushedIsLogged'
    BY DEF IInv, RowsAreLogged, PushedIsLogged, Logged
<1> QED BY <1>2, <1>3, <1>4, <1>5, <1>6 DEF IInv

LEMMA NextIInv == IInv /\ [Next]_vars => IInv'
<1> SUFFICES ASSUME IInv, [Next]_vars PROVE IInv'
    OBVIOUS
<1>1. CASE UNCHANGED vars
    BY <1>1 DEF vars, IInv, TypeOK, LogBelowCounter, InFlightFresh,
       CommitIsLogged, CommitHasTrans, RowsAreLogged, CacheIsLogged,
       PushedIsLogged, Logged, IsLog
<1>2. CASE \E w \in Workers, batch \in Batches : TakeLogId(w, batch)
    BY <1>2, TakeLogIdIInv
<1>3. CASE \E w \in Workers : CommitStep(w)
    BY <1>3, PutLogIInv, WriteBatchIInv, PushIInv, LastslaveIInv, AddToCacheIInv
       DEF CommitStep
<1>4. CASE \E w \in Workers : WriteFails(w)
    BY <1>4, WriteFailsIInv
<1>5. CASE \E s \in Slaves : SlaveInSync(s)
    BY <1>5, LastslaveIInv
<1>6. CASE Restart
    BY <1>6, RestartIInv
<1> QED BY <1>1, <1>2, <1>3, <1>4, <1>5, <1>6 DEF Next, CommitNothing

\* IInv is an invariant of concurrent commits with failures and restarts.
THEOREM Invariance == Spec => []IInv
BY InitIInv, NextIInv, PTL DEF Spec

\* Type correctness.
THEOREM TypeCorrect == Spec => []TypeOK
<1>1. IInv => TypeOK
    BY DEF IInv
<1> QED BY <1>1, Invariance, PTL

\* No crash and no failing write leaves a data row or a cached association that the
\* log does not have (order of CommitLog, CommitData and AddToCache in Commit,
\* WorkServer::init),
THEOREM LogIsAhead == Spec => []WriteAhead
<1>1. IInv => WriteAhead
    BY DEF IInv, WriteAhead
<1> QED BY <1>1, Invariance, PTL

\* or a transaction that a slave was sent (SendToRemote follows CommitLog).
THEOREM PushFollowsTheLog == Spec => []PushedIsLogged
<1>1. IInv => PushedIsLogged
    BY DEF IInv
<1> QED BY <1>1, Invariance, PTL

\* A log record is never replaced or lost (CommitLog, GetNext and the counter
\* StoreLevel::Initialize computes).
THEOREM RecordsAreImmutable == Spec => LogImmutable
<1> DEFINE Kept == \A i \in DOMAIN logdb : i \in DOMAIN logdb' /\ logdb'[i] = logdb[i]
<1>1. IInv /\ [Next]_vars => [Kept]_vars
    <2> SUFFICES ASSUME IInv, Next PROVE Kept
        OBVIOUS
    <2>1. CASE \E w \in Workers : PutLog(w)
        BY <2>1, PutLogExtends DEF Extends
    <2>2. CASE ~ \E w \in Workers : PutLog(w)
        BY <2>2 DEF Next, CommitNothing, vars, CommitStep, TakeLogId, WriteBatch, WriteFails, Push,
           PushFails, UnsetLastslave, AddToCache, SlaveInSync, Restart, store
    <2> QED BY <2>1, <2>2
<1>2. Spec => [][Kept]_vars
    BY <1>1, Invariance, PTL DEF Spec
<1> QED BY <1>2 DEF LogImmutable

\* Restart never sets the counter above its last value (StoreLevel::Initialize).
LEMMA RestartCounter ==
    ASSUME IInv, Restart
    PROVE  logcounter' \in Nat /\ logcounter' <= logcounter
<1>1. logcounter \in Nat \ {0} /\
      \A i \in DOMAIN logdb : i \in Nat /\ 2 <= i /\ i <= logcounter
    BY DEF IInv, TypeOK, IsLog, LogBelowCounter
<1>2. /\ LastKey(logdb) \in Nat
      /\ LastKey(logdb) = 1 \/ LastKey(logdb) \in DOMAIN logdb
    BY <1>1, LastKeyIsLast
<1> QED BY <1>1, <1>2 DEF Restart

\* A gap in the log that does not close comes from a commit that ended between
\* taking its id and writing its record (CommitLog increments the counter before it
\* writes; StoreLevel::Initialize never sets it above an id that was given out).
THEOREM GapsComeFromFailures == Spec => GapsAreAbandoned
<1> DEFINE Step == \A i \in 2 .. logcounter' : IsGap(i)' => IsGap(i) \/ GivesUp(i)
<1>1. IInv /\ [Next]_vars => [Step]_vars
    <2> SUFFICES ASSUME IInv, Next, NEW i \in 2 .. logcounter', IsGap(i)'
                 PROVE  IsGap(i) \/ GivesUp(i)
        OBVIOUS
    <2>1. CASE \E w \in Workers, batch \in Batches : TakeLogId(w, batch)
        <3>1. PICK w \in Workers, batch \in Batches : TakeLogId(w, batch)
            BY <2>1
        <3>2. /\ logcounter \in Nat /\ logcounter' = logcounter + 1
              /\ logdb' = logdb /\ pc[w] = "idle"
              /\ pc'[w] = "log" /\ trans'[w].id = logcounter + 1
              /\ \A v \in Workers : v # w => pc'[v] = pc[v] /\ trans'[v] = trans[v]
            BY <3>1 DEF TakeLogId, IInv, TypeOK
        <3>3. i # logcounter + 1
            BY <3>2 DEF IsGap, InFlight
        <3> QED BY <3>2, <3>3 DEF IsGap, InFlight
    <2>2. CASE \E w \in Workers : PutLog(w)
        <3>1. PICK w \in Workers : PutLog(w)
            BY <2>2
        <3>2. Extends(logdb', logdb) /\ trans[w].id \in DOMAIN logdb'
            BY <3>1, PutLogExtends
        <3>3. /\ logcounter' = logcounter /\ trans' = trans
              /\ \A v \in Workers : v # w => pc'[v] = pc[v]
            BY <3>1 DEF PutLog, IInv, TypeOK
        <3> QED BY <3>2, <3>3 DEF IsGap, InFlight, Extends
    <2>3. CASE Restart
        <3>1. logcounter' <= logcounter /\ logdb' = logdb
            BY <2>3, RestartCounter DEF Restart
        <3>2. \A w \in Workers : pc'[w] = "idle"
            BY <2>3 DEF Restart
        <3>3. logcounter \in Nat /\ logcounter' \in Nat
            BY <2>3, RestartCounter DEF IInv, TypeOK
        <3> QED BY <3>1, <3>2, <3>3 DEF IsGap, InFlight, GivesUp
    <2>4. CASE /\ ~ \E w \in Workers, batch \in Batches : TakeLogId(w, batch)
               /\ ~ \E w \in Workers : PutLog(w)
               /\ ~Restart
        <3>1. /\ logdb' = logdb /\ logcounter' = logcounter
              /\ \A v \in Workers : pc[v] = "log" =>
                    pc'[v] = "idle" \/ (pc'[v] = "log" /\ trans'[v] = trans[v])
            BY <2>4 DEF Next, CommitNothing, vars, CommitStep, WriteBatch, WriteFails, Push,
               PushFails, UnsetLastslave, AddToCache, SlaveInSync,
               store, IInv, TypeOK
        <3> QED BY <3>1 DEF IsGap, InFlight, GivesUp
    <2> QED BY <2>1, <2>2, <2>3, <2>4
<1>2. Spec => [][Step]_vars
    BY <1>1, Invariance, PTL DEF Spec
<1> QED BY <1>2 DEF GapsAreAbandoned

===============================================================================
