--------------------------- MODULE SyncServerProofs ---------------------------
(***************************************************************************)
(* Safety of log replication, for any number of instances, any chunk size  *)
(* and any bounds: the inductive invariant IInv of SyncServer, what        *)
(* follows from it, and that the instances implement ReplicatedLog.        *)
(***************************************************************************)
EXTENDS SyncServer, TLAPS, NaturalsInduction, WellFoundedInduction

\* The counter an instance starts from is at least 1, covers every id of its
\* log and, when there is one, is the id of a record (StoreLevel::Initialize).
LEMMA LastKeyIsLast ==
    ASSUME NEW lg, NEW c \in Nat,
           \A i \in DOMAIN lg : i \in Nat /\ 2 <= i /\ i <= c
    PROVE  /\ LastKey(lg) \in Nat \ {0}
           /\ \A i \in DOMAIN lg : i <= LastKey(lg)
           /\ LastKey(lg) = 1 \/ LastKey(lg) \in DOMAIN lg
<1>1. CASE DOMAIN lg = {}
    BY <1>1 DEF LastKey
<1>2. CASE DOMAIN lg # {}
    <2> DEFINE R == OpToRel(<, Nat)
               T == {c - i : i \in DOMAIN lg}
    <2>1. \A i \in DOMAIN lg : c - i \in Nat
        OBVIOUS
    <2>2. PICK x \in T : \A y \in T : <<y, x>> \notin R
        <3>1. IsWellFoundedOn(R, Nat) /\ T \subseteq Nat /\ T # {}
            BY <1>2, <2>1, NatLessThanWellFounded
        <3> HIDE DEF R, T
        <3> QED BY <3>1, WFMin
    <2>3. PICK m \in DOMAIN lg : x = c - m
        OBVIOUS
    <2>4. ASSUME NEW i \in DOMAIN lg PROVE i <= m
        <3>1. ~(c - i < c - m) /\ c - i \in Nat /\ c - m \in Nat
            BY <2>1, <2>2, <2>3 DEF OpToRel
        <3> QED BY <3>1
    <2> QED BY <1>2, <2>4 DEF LastKey
<1> QED BY <1>1, <1>2

\* A non-empty set of numbers has a smallest element.
LEMMA SetHasMin ==
    ASSUME NEW S, S \subseteq Nat, S # {}
    PROVE  \E m \in S : \A i \in S : m <= i
<1> DEFINE R == OpToRel(<, Nat)
<1>1. PICK m \in S : \A i \in S : ~ (<<i, m>> \in R)
    <2>1. IsWellFoundedOn(R, Nat)
        BY NatLessThanWellFounded
    <2> HIDE DEF R
    <2> QED BY <2>1, WFMin
<1>2. \A i \in S : ~(i < m)
    BY <1>1 DEF OpToRel
<1> QED BY <1>2

\* A reader gets records of the log, under their ids (StoreTrans::ReadLog).
LEMMA ReadLogIsPart ==
    ASSUME NEW lg, NEW from \in Nat, NEW limit \in Nat
    PROVE  /\ ReadLast(lg, from, limit) \in Nat
           /\ \A i \in DOMAIN ReadLog(lg, from, limit) :
                /\ i \in Nat /\ i \in DOMAIN lg
                /\ ReadLog(lg, from, limit)[i] = lg[i]
<1> DEFINE Ends(m) == /\ \A i \in from + 1 .. m : i \in DOMAIN lg
                      /\ m = from + limit + 1 \/ m + 1 \notin DOMAIN lg
           S == {m \in from .. from + limit : m + 1 \notin DOMAIN lg}
<1>1. \E m \in from .. from + limit + 1 : Ends(m)
    <2>1. CASE S = {}
        <3>1. \A m \in from .. from + limit : m + 1 \in DOMAIN lg
            BY <2>1
        <3>2. \A i \in from + 1 .. from + limit + 1 :
                 \E m \in from .. from + limit : i = m + 1
            <4> TAKE i \in from + 1 .. from + limit + 1
            <4> WITNESS i - 1 \in from .. from + limit
            <4> QED OBVIOUS
        <3>3. Ends(from + limit + 1)
            BY <3>1, <3>2
        <3>4. from + limit + 1 \in from .. from + limit + 1
            OBVIOUS
        <3> HIDE DEF Ends
        <3> QED BY <3>3, <3>4
    <2>2. CASE S # {}
        <3>1. PICK m \in S : \A i \in S : m <= i
            <4>1. S \subseteq Nat
                OBVIOUS
            <4> HIDE DEF S
            <4> QED BY <2>2, <4>1, SetHasMin
        <3>2. \A j \in from .. from + limit : j < m => j + 1 \in DOMAIN lg
            BY <3>1
        <3>3. \A i \in from + 1 .. m :
                 \E j \in from .. from + limit : j < m /\ i = j + 1
            <4> TAKE i \in from + 1 .. m
            <4> WITNESS i - 1 \in from .. from + limit
            <4> QED OBVIOUS
        <3> QED BY <3>2, <3>3
    <2> QED BY <2>1, <2>2
<1>2. /\ ReadLast(lg, from, limit) \in from .. from + limit + 1
      /\ Ends(ReadLast(lg, from, limit))
    BY <1>1 DEF ReadLast
<1> QED BY <1>2 DEF ReadLog

\* Init establishes the invariant: only the primary has a log.
LEMMA InitIInv == Init => IInv
<1> USE SyncServerAssumption
<1> SUFFICES ASSUME Init PROVE IInv
    OBVIOUS
<1>1. TypeOK
    BY DEF Init, TypeOK, IsLog, Phases, EmptyLog
<1>2. \A n \in Nodes : DOMAIN pending[n] = {} /\ reply[n] = None
    BY DEF Init, EmptyLog
<1>3. \A n \in Nodes \ {Primary} : log[n] = EmptyLog /\ logcounter[n] = 1 /\ ~isMaster[n]
    BY DEF Init
<1>4. log[Primary] = [i \in 2 .. InitLogId |-> i] /\ logcounter[Primary] = InitLogId
    BY DEF Init
<1>5. LastKey(EmptyLog) = 1 /\ DOMAIN EmptyLog = 2 .. 1
    BY DEF LastKey, EmptyLog
<1>6. LogBelowCounter /\ PendingIsFresh /\ OnlyMastersCommit /\ ReplyHasReader
    BY <1>2, <1>3, <1>4, <1>5
       DEF LogBelowCounter, PendingIsFresh, OnlyMastersCommit, ReplyHasReader
<1>7. SlaveCountsRecords /\ SlaveHasNoGap
    BY <1>3, <1>5 DEF SlaveCountsRecords, SlaveHasNoGap
<1>8. RecordsArePrimarys
    BY <1>2, <1>3, <1>5 DEF RecordsArePrimarys, PartOf
<1> QED BY <1>1, <1>6, <1>7, <1>8 DEF IInv

\* A log of ids that are at most c is a log whose last key covers it.
LEMMA LastKeyOfLog ==
    ASSUME IInv, NEW n \in Nodes
    PROVE  /\ LastKey(log[n]) \in Nat \ {0}
           /\ \A i \in DOMAIN log[n] : i \in Nat /\ 2 <= i /\ i <= LastKey(log[n])
           /\ LastKey(log[n]) = 1 \/ LastKey(log[n]) \in DOMAIN log[n]
<1>1. /\ logcounter[n] \in Nat
      /\ \A i \in DOMAIN log[n] : i \in Nat /\ 2 <= i /\ i <= logcounter[n]
    BY DEF IInv, TypeOK, IsLog, LogBelowCounter
<1> QED BY <1>1, LastKeyIsLast

\* A commit takes the id after the counter, which nothing has yet.
LEMMA TakeLogIdIInv ==
    ASSUME IInv, NEW n \in Nodes, TakeLogId(n)
    PROVE  IInv'
<1> USE DEF IInv
<1>1. /\ phase[n] = "serving" /\ isMaster[n]
      /\ logcounter[n] + 1 \in Nat \ {0} /\ logcounter[n] + 1 <= MaxLogId
      /\ now + 1 \in 1 .. MaxTs
      /\ 2 <= logcounter[n] + 1
      /\ logcounter' = [logcounter EXCEPT ![n] = @ + 1]
      /\ pending' = [pending EXCEPT ![n] = Put(@, logcounter[n] + 1, now + 1)]
      /\ now' = now + 1
      /\ UNCHANGED <<phase, roles, log, reply, count>>
    <2>1. logcounter[n] \in Nat \ {0} /\ now \in Nat /\ MaxLogId \in Nat /\ MaxTs \in Nat
        BY SyncServerAssumption DEF TypeOK
    <2>2. logcounter[n] < MaxLogId /\ now < MaxTs
        BY DEF TakeLogId
    <2> QED BY <2>1, <2>2 DEF TakeLogId, Serving
<1> DEFINE f == Put(pending[n], logcounter[n] + 1, now + 1)
<1>2. /\ pending'[n] = f /\ logcounter'[n] = logcounter[n] + 1
      /\ \A m \in Nodes : m # n => pending'[m] = pending[m] /\ logcounter'[m] = logcounter[m]
      /\ DOMAIN pending' = Nodes
    BY <1>1 DEF TypeOK
<1>3. /\ DOMAIN f = DOMAIN pending[n] \cup {logcounter[n] + 1}
      /\ f[logcounter[n] + 1] = now + 1
      /\ \A i \in DOMAIN pending[n] : i # logcounter[n] + 1 => f[i] = pending[n][i]
    BY DEF Put
<1>4. TypeOK'
    <2>1. IsLog(f)
        BY <1>1, <1>3 DEF TypeOK, IsLog
    <2> QED BY <1>1, <1>2, <2>1 DEF TypeOK, roles
<1>5. LogBelowCounter'
    BY <1>1, <1>2 DEF LogBelowCounter, TypeOK, IsLog
<1>6. PendingIsFresh'
    <2>1. \A i \in DOMAIN f :
            /\ 2 <= i /\ i <= logcounter[n] + 1 /\ i <= MaxLogId
            /\ i \notin DOMAIN log[n] /\ f[i] \in 1 .. MaxTs
        <3> TAKE i \in DOMAIN f
        <3>1. CASE i = logcounter[n] + 1
            BY <3>1, <1>1, <1>3 DEF LogBelowCounter, TypeOK, IsLog
        <3>2. CASE i # logcounter[n] + 1
            BY <3>2, <1>3 DEF PendingIsFresh, TypeOK, IsLog
        <3> QED BY <3>1, <3>2
    <2> QED BY <1>1, <1>2, <2>1 DEF PendingIsFresh
<1>7. OnlyMastersCommit'
    BY <1>1, <1>2 DEF OnlyMastersCommit, roles
<1>8. SlaveCountsRecords' /\ SlaveHasNoGap' /\ ReplyHasReader' /\ RecordsArePrimarys'
    BY <1>1, <1>2 DEF SlaveCountsRecords, SlaveHasNoGap, ReplyHasReader,
                      RecordsArePrimarys, roles
<1> QED BY <1>4, <1>5, <1>6, <1>7, <1>8

\* A commit writes its record under an id that has none.
LEMMA PutLogIInv ==
    ASSUME IInv, NEW n \in Nodes, NEW id \in DOMAIN pending[n], PutLog(n, id)
    PROVE  IInv'
<1> USE DEF IInv
<1> DEFINE f == Put(log[n], id, pending[n][id])
           g == Drop(pending[n], id)
<1>1. /\ log' = [log EXCEPT ![n] = f] /\ pending' = [pending EXCEPT ![n] = g]
      /\ UNCHANGED <<phase, roles, logcounter, now, reply, count>>
    BY DEF PutLog
<1>2. /\ log'[n] = f /\ pending'[n] = g /\ DOMAIN log' = Nodes /\ DOMAIN pending' = Nodes
      /\ \A m \in Nodes : m # n => log'[m] = log[m] /\ pending'[m] = pending[m]
    BY <1>1 DEF TypeOK
<1>3. /\ id \in Nat /\ 2 <= id /\ id <= logcounter[n] /\ id \notin DOMAIN log[n]
      /\ pending[n][id] \in Nat
      /\ n \in elected \cup {Primary}
    BY DEF TypeOK, IsLog, PendingIsFresh, OnlyMastersCommit
<1>4. /\ DOMAIN f = DOMAIN log[n] \cup {id} /\ f[id] = pending[n][id]
      /\ \A i \in DOMAIN log[n] : f[i] = log[n][i]
    BY <1>3 DEF Put
<1>5. /\ DOMAIN g = DOMAIN pending[n] \ {id}
      /\ \A i \in DOMAIN g : g[i] = pending[n][i]
    BY DEF Drop
<1>6. TypeOK'
    <2>1. IsLog(f) /\ IsLog(g)
        BY <1>3, <1>4, <1>5 DEF TypeOK, IsLog
    <2> QED BY <1>1, <1>2, <2>1 DEF TypeOK, roles
<1>7. LogBelowCounter' /\ PendingIsFresh' /\ OnlyMastersCommit'
    BY <1>1, <1>2, <1>3, <1>4, <1>5
       DEF LogBelowCounter, PendingIsFresh, OnlyMastersCommit, roles
<1>8. SlaveCountsRecords' /\ SlaveHasNoGap' /\ ReplyHasReader'
    BY <1>1, <1>2, <1>3 DEF SlaveCountsRecords, SlaveHasNoGap, ReplyHasReader, roles
<1>9. RecordsArePrimarys'
    <2> SUFFICES ASSUME elected' = {}
                 PROVE  \A m \in Nodes :
                          /\ PartOf(log'[m], log'[Primary])
                          /\ reply'[m] # None => PartOf(reply'[m].recs, log'[Primary])
        BY DEF RecordsArePrimarys
    <2>1. n = Primary /\ elected = {} /\ reply' = reply
        BY <1>1, <1>3 DEF roles
    <2> QED BY <1>2, <1>4, <2>1 DEF RecordsArePrimarys, PartOf
<1> QED BY <1>6, <1>7, <1>8, <1>9

\* An id that was taken and is not used leaves everything else as it is.
LEMMA PutFailsIInv ==
    ASSUME IInv, NEW n \in Nodes, NEW id \in DOMAIN pending[n], PutFails(n, id)
    PROVE  IInv'
<1> USE DEF IInv
<1> DEFINE g == Drop(pending[n], id)
<1>1. /\ pending' = [pending EXCEPT ![n] = g]
      /\ UNCHANGED <<phase, roles, logcounter, log, now, reply, count>>
    BY DEF PutFails
<1>2. /\ pending'[n] = g /\ DOMAIN pending' = Nodes
      /\ \A m \in Nodes : m # n => pending'[m] = pending[m]
    BY <1>1 DEF TypeOK
<1>3. /\ DOMAIN g = DOMAIN pending[n] \ {id}
      /\ \A i \in DOMAIN g : g[i] = pending[n][i]
    BY DEF Drop
<1>4. TypeOK'
    <2>1. IsLog(g)
        BY <1>3 DEF TypeOK, IsLog
    <2> QED BY <1>1, <1>2, <2>1 DEF TypeOK, roles
<1>5. LogBelowCounter' /\ PendingIsFresh' /\ OnlyMastersCommit'
    BY <1>1, <1>2, <1>3 DEF LogBelowCounter, PendingIsFresh, OnlyMastersCommit, roles
<1>6. SlaveCountsRecords' /\ SlaveHasNoGap' /\ ReplyHasReader' /\ RecordsArePrimarys'
    BY <1>1 DEF SlaveCountsRecords, SlaveHasNoGap, ReplyHasReader, RecordsArePrimarys,
                roles
<1> QED BY <1>4, <1>5, <1>6

\* The log with the ids up to c counts up to c.
LEMMA LastKeyOfRun ==
    ASSUME NEW l, NEW c \in Nat \ {0}, DOMAIN l = 2 .. c
    PROVE  LastKey(l) = c
<1>1. \A i \in DOMAIN l : i \in Nat /\ 2 <= i /\ i <= c
    OBVIOUS
<1>2. /\ LastKey(l) \in Nat \ {0} /\ \A i \in DOMAIN l : i <= LastKey(l)
      /\ LastKey(l) = 1 \/ LastKey(l) \in DOMAIN l
    BY <1>1, LastKeyIsLast
<1>3. CASE c = 1
    BY <1>2, <1>3
<1>4. CASE c # 1
    <2>1. c \in DOMAIN l
        BY <1>4
    <2> QED BY <1>2, <2>1
<1> QED BY <1>3, <1>4

\* What a record that an instance takes over, or fails to, does to the logs: one
\* log may grow by the id after its counter, within the primary's log.
Grown(n) ==
    /\ DOMAIN log' = Nodes
    /\ \A m \in Nodes : m # n => log'[m] = log[m]
    /\ IsLog(log'[n])
    /\ PartOf(log[n], log'[n])
    /\ DOMAIN log'[n] \subseteq DOMAIN log[n] \cup {logcounter[n] + 1}
    /\ n \notin elected \cup {Primary} => DOMAIN log'[n] = 2 .. LastKey(log'[n])
    /\ elected = {} => \A m \in Nodes :
           /\ PartOf(log'[m], log'[Primary])
           /\ reply[m] # None => PartOf(reply[m].recs, log'[Primary])

LEMMA UnchangedIsGrown ==
    ASSUME IInv, NEW n \in Nodes, UNCHANGED log
    PROVE  Grown(n)
BY DEF Grown, IInv, TypeOK, PartOf, SlaveHasNoGap, RecordsArePrimarys

LEMMA GrownIds ==
    ASSUME IInv, NEW n \in Nodes, Grown(n)
    PROVE  /\ logcounter[n] + 1 \in Nat
           /\ \A i \in DOMAIN log'[n] : i \in Nat /\ 2 <= i /\ i <= logcounter[n] + 1
<1>1. logcounter[n] \in Nat \ {0}
    BY DEF IInv, TypeOK
<1>2. \A i \in DOMAIN log[n] : i \in Nat /\ 2 <= i /\ i <= logcounter[n]
    BY DEF IInv, TypeOK, IsLog, LogBelowCounter
<1>3. DOMAIN log'[n] \subseteq DOMAIN log[n] \cup {logcounter[n] + 1}
    BY DEF Grown
<1> QED BY <1>1, <1>2, <1>3

\* A slave that puts the next record of its reply has the ids up to the new one.
LEMMA PutNextGrows ==
    ASSUME IInv, NEW n \in Nodes, HasNext(n), PutNext(n)
    PROVE  /\ Grown(n)
           /\ DOMAIN log'[n] = DOMAIN log[n] \cup {logcounter[n] + 1}
           /\ log'[n][logcounter[n] + 1] = reply[n].recs[logcounter[n] + 1]
           /\ n \notin elected \cup {Primary} => LastKey(log'[n]) = logcounter[n] + 1
           /\ elected = {} => n # Primary
<1> USE DEF IInv
<1> DEFINE id == logcounter[n] + 1
           f  == Put(log[n], id, reply[n].recs[id])
<1>1. /\ reply[n] # None /\ id \in DOMAIN reply[n].recs
      /\ id \in Nat \ {0} /\ 2 <= id /\ reply[n].recs[id] \in Nat
    BY DEF HasNext, TypeOK, IsLog
<1>2. id \notin DOMAIN log[n]
    BY DEF LogBelowCounter, TypeOK, IsLog
<1>3. /\ log'[n] = f /\ DOMAIN log' = Nodes
      /\ \A m \in Nodes : m # n => log'[m] = log[m]
    BY DEF PutNext, TypeOK
<1>4. /\ DOMAIN f = DOMAIN log[n] \cup {id} /\ f[id] = reply[n].recs[id]
      /\ \A i \in DOMAIN log[n] : f[i] = log[n][i]
    BY <1>2 DEF Put
<1>5. IsLog(f)
    BY <1>1, <1>4 DEF TypeOK, IsLog
<1>6. PartOf(log[n], f)
    BY <1>4 DEF PartOf
<1>7. ASSUME n \notin elected \cup {Primary}
      PROVE  LastKey(f) = id /\ DOMAIN f = 2 .. LastKey(f)
    <2>1. logcounter[n] = LastKey(log[n]) /\ DOMAIN log[n] = 2 .. logcounter[n]
        BY <1>1, <1>7 DEF SlaveCountsRecords, SlaveHasNoGap, ReplyHasReader
    <2>2. DOMAIN f = 2 .. id
        <3>1. logcounter[n] \in Nat \ {0}
            BY DEF TypeOK
        <3>2. (2 .. logcounter[n]) \cup {logcounter[n] + 1} = 2 .. logcounter[n] + 1
            BY <3>1
        <3> HIDE DEF f
        <3> QED BY <1>4, <2>1, <3>2
    <2> HIDE DEF f
    <2> QED BY <1>1, <2>2, LastKeyOfRun
<1>8. ASSUME elected = {}
      PROVE  /\ n # Primary
             /\ \A m \in Nodes : /\ PartOf(log'[m], log'[Primary])
                                 /\ reply[m] # None => PartOf(reply[m].recs, log'[Primary])
    <2>1. PartOf(reply[n].recs, log[Primary])
        BY <1>1, <1>8 DEF RecordsArePrimarys
    <2>2. n # Primary
        BY <1>1, <1>2, <2>1 DEF PartOf
    <2>3. log'[Primary] = log[Primary]
        BY <1>3, <2>2, SyncServerAssumption
    <2>4. PartOf(f, log[Primary])
        BY <1>1, <1>4, <1>8, <2>1 DEF RecordsArePrimarys, PartOf
    <2> QED BY <1>3, <1>8, <2>2, <2>3, <2>4 DEF RecordsArePrimarys
<1> HIDE DEF f
<1> QED BY <1>3, <1>4, <1>5, <1>6, <1>7, <1>8 DEF Grown

\* The process ends, its log as it was or with one more record.
LEMMA StopAtIInv ==
    ASSUME IInv, NEW n \in Nodes, Grown(n), StopAt(n)
    PROVE  IInv'
<1> USE DEF IInv
<1>1. /\ phase' = [phase EXCEPT ![n] = "down"]
      /\ isMaster' = [isMaster EXCEPT ![n] = FALSE]
      /\ logcounter' = [logcounter EXCEPT ![n] = LastKey(log'[n])]
      /\ pending' = [pending EXCEPT ![n] = EmptyLog]
      /\ reply' = [reply EXCEPT ![n] = None]
      /\ count' = [count EXCEPT ![n] = 0]
      /\ UNCHANGED <<master, elected, now>>
    BY DEF StopAt
<1>2. /\ phase'[n] = "down" /\ ~isMaster'[n] /\ logcounter'[n] = LastKey(log'[n])
      /\ DOMAIN pending'[n] = {} /\ reply'[n] = None
      /\ DOMAIN reply' = Nodes /\ DOMAIN pending' = Nodes
      /\ \A m \in Nodes : m # n => /\ phase'[m] = phase[m] /\ isMaster'[m] = isMaster[m]
                                   /\ logcounter'[m] = logcounter[m]
                                   /\ pending'[m] = pending[m] /\ reply'[m] = reply[m]
    BY <1>1 DEF TypeOK, EmptyLog
<1>3. /\ DOMAIN log' = Nodes /\ IsLog(log'[n])
      /\ \A m \in Nodes : m # n => log'[m] = log[m]
    BY DEF Grown
<1>4. /\ LastKey(log'[n]) \in Nat \ {0}
      /\ \A i \in DOMAIN log'[n] : 2 <= i /\ i <= LastKey(log'[n])
    BY GrownIds, LastKeyIsLast
<1>5. TypeOK'
    <2>1. IsLog(pending'[n])
        BY <1>2 DEF IsLog
    <2>2. phase' \in [Nodes -> Phases] /\ isMaster' \in [Nodes -> BOOLEAN]
          /\ logcounter' \in [Nodes -> Nat \ {0}] /\ count' \in [Nodes -> Nat]
        BY <1>1, <1>4 DEF TypeOK, Phases
    <2> QED BY <1>1, <1>2, <1>3, <2>1, <2>2 DEF TypeOK
<1>6. LogBelowCounter' /\ PendingIsFresh' /\ OnlyMastersCommit'
    BY <1>1, <1>2, <1>3, <1>4 DEF LogBelowCounter, PendingIsFresh, OnlyMastersCommit
<1>7. SlaveCountsRecords' /\ SlaveHasNoGap'
    BY <1>1, <1>2, <1>3 DEF SlaveCountsRecords, SlaveHasNoGap, Grown
<1>8. ReplyHasReader' /\ RecordsArePrimarys'
    BY <1>1, <1>2 DEF ReplyHasReader, RecordsArePrimarys, Grown
<1> QED BY <1>5, <1>6, <1>7, <1>8

\* A step that leaves the logs and replies alone.
LEMMA RolesIInv ==
    ASSUME IInv, TypeOK', UNCHANGED <<logs, reply>>,
           elected \subseteq elected',
           \A n \in Nodes : /\ isMaster'[n] => n \in elected' \cup {Primary}
                            /\ phase'[n] # "serving" => phase[n] # "serving"
                            /\ reply[n] # None => phase'[n] \in {"first", "sync"}
    PROVE  IInv'
BY DEF IInv, LogBelowCounter, PendingIsFresh, OnlyMastersCommit, SlaveCountsRecords,
       SlaveHasNoGap, ReplyHasReader, RecordsArePrimarys, logs

LEMMA StartMasterIInv ==
    ASSUME IInv, NEW n \in Nodes, StartMaster(n)
    PROVE  IInv'
<1>1. TypeOK'
    BY DEF IInv, TypeOK, StartMaster, logs, Phases
<1>2. \A m \in Nodes : m # n => isMaster'[m] = isMaster[m] /\ phase'[m] = phase[m]
    BY DEF IInv, TypeOK, StartMaster
<1>3. phase[n] = "down" /\ phase'[n] = "serving" /\ n \in elected \cup {Primary}
    BY DEF IInv, TypeOK, StartMaster
<1> QED BY <1>1, <1>2, <1>3, RolesIInv
        DEF StartMaster, IInv, OnlyMastersCommit, ReplyHasReader

LEMMA StartSlaveIInv ==
    ASSUME IInv, NEW n \in Nodes, NEW m \in Nodes, StartSlave(n, m)
    PROVE  IInv'
<1>1. TypeOK'
    BY DEF IInv, TypeOK, StartSlave, logs, Phases
<1>2. \A k \in Nodes : k # n => phase'[k] = phase[k]
    BY DEF IInv, TypeOK, StartSlave
<1>3. phase[n] = "down" /\ phase'[n] = "first"
    BY DEF IInv, TypeOK, StartSlave
<1> QED BY <1>1, <1>2, <1>3, RolesIInv
        DEF StartSlave, IInv, OnlyMastersCommit, ReplyHasReader

LEMMA RegisterIInv ==
    ASSUME IInv, NEW n \in Nodes, Register(n)
    PROVE  IInv'
<1>1. phase[n] = "register" /\ phase'[n] \in {"register", "compare"}
    BY DEF IInv, TypeOK, Register
<1>2. \A k \in Nodes : k # n => phase'[k] = phase[k]
    BY DEF IInv, TypeOK, Register
<1>3. TypeOK'
    <2>1. master[n] \in Nodes /\ master[master[n]] \in Nodes /\ count[n] + 1 \in Nat
        BY DEF IInv, TypeOK
    <2> QED BY <2>1 DEF IInv, TypeOK, Register, logs, Phases
<1> QED BY <1>1, <1>2, <1>3, RolesIInv
        DEF Register, IInv, OnlyMastersCommit, ReplyHasReader

LEMMA CompareIInv ==
    ASSUME IInv, NEW n \in Nodes, CompareBeforeSync(n)
    PROVE  IInv'
<1>1. phase[n] = "compare" /\ phase'[n] \in {"sync", "serving"}
    BY DEF IInv, TypeOK, CompareBeforeSync
<1>2. \A k \in Nodes : k # n => phase'[k] = phase[k]
    BY DEF IInv, TypeOK, CompareBeforeSync
<1>3. TypeOK'
    BY DEF IInv, TypeOK, CompareBeforeSync, logs, roles, Phases
<1> QED BY <1>1, <1>2, <1>3, RolesIInv
        DEF CompareBeforeSync, roles, IInv, OnlyMastersCommit, ReplyHasReader

LEMMA PollFailsIInv ==
    ASSUME IInv, NEW n \in Nodes, PollFails(n)
    PROVE  IInv'
<1>1. TypeOK'
    <2>1. count[n] + 1 \in Nat
        BY DEF IInv, TypeOK
    <2> QED BY <2>1 DEF IInv, TypeOK, PollFails, logs, roles
<1> QED BY <1>1, RolesIInv
        DEF PollFails, roles, IInv, OnlyMastersCommit, ReplyHasReader

LEMMA ElectIInv ==
    ASSUME IInv, NEW n \in Nodes, Elect(n)
    PROVE  IInv'
<1>1. TypeOK'
    BY DEF IInv, TypeOK, Elect, logs, Phases
<1>2. \A k \in Nodes : k # n => isMaster'[k] = isMaster[k] /\ phase'[k] = phase[k]
    BY DEF IInv, TypeOK, Elect
<1>3. phase'[n] = "serving" /\ reply[n] = None /\ elected' = elected \cup {n}
    BY DEF IInv, TypeOK, Elect
<1> QED BY <1>1, <1>2, <1>3, RolesIInv
        DEF Elect, IInv, OnlyMastersCommit, ReplyHasReader

\* A poll is answered with records of the other's log.
LEMMA PollIInv ==
    ASSUME IInv, NEW n \in Nodes, Poll(n)
    PROVE  IInv'
<1> USE DEF IInv
<1> DEFINE m == master[n]
           r == TransLogReply(n)
<1>1. /\ reply' = [reply EXCEPT ![n] = r] /\ count' = [count EXCEPT ![n] = 0]
      /\ phase[n] \in {"first", "sync"}
      /\ UNCHANGED <<phase, isMaster, master, elected, logcounter, log, pending, now>>
    BY DEF Poll, roles, logs
<1>2. /\ reply'[n] = r /\ DOMAIN reply' = Nodes
      /\ \A k \in Nodes : k # n => reply'[k] = reply[k]
    BY <1>1 DEF TypeOK
<1>3. m \in Nodes /\ logcounter[n] \in Nat /\ logcounter[m] \in Nat /\ Chunk \in Nat
    BY SyncServerAssumption DEF TypeOK
<1>4. /\ r.recs = ReadLog(log[m], logcounter[n], Chunk)
      /\ r.lastid \in Nat /\ r.currid \in Nat
      /\ r = [recs |-> r.recs, lastid |-> r.lastid, currid |-> r.currid]
    BY <1>3, ReadLogIsPart DEF TransLogReply
<1>5. PartOf(r.recs, log[m]) /\ \A i \in DOMAIN r.recs : i \in Nat
    <2>1. \A i \in DOMAIN ReadLog(log[m], logcounter[n], Chunk) :
            /\ i \in Nat /\ i \in DOMAIN log[m]
            /\ ReadLog(log[m], logcounter[n], Chunk)[i] = log[m][i]
        BY <1>3, ReadLogIsPart
    <2> QED BY <1>4, <2>1 DEF PartOf
<1> HIDE DEF r
<1>6. TypeOK'
    <2>1. IsLog(r.recs)
        BY <1>3, <1>5 DEF PartOf, TypeOK, IsLog
    <2> QED BY <1>1, <1>2, <1>4, <2>1 DEF TypeOK
<1>7. LogBelowCounter' /\ PendingIsFresh' /\ OnlyMastersCommit'
      /\ SlaveCountsRecords' /\ SlaveHasNoGap' /\ ReplyHasReader'
    BY <1>1, <1>2 DEF LogBelowCounter, PendingIsFresh, OnlyMastersCommit,
                      SlaveCountsRecords, SlaveHasNoGap, ReplyHasReader
<1>8. RecordsArePrimarys'
    <2> SUFFICES ASSUME elected = {}, NEW k \in Nodes
                 PROVE  /\ PartOf(log[k], log[Primary])
                        /\ reply'[k] # None => PartOf(reply'[k].recs, log[Primary])
        BY <1>1 DEF RecordsArePrimarys
    <2>1. PartOf(log[m], log[Primary]) /\ PartOf(log[k], log[Primary])
        BY <1>3 DEF RecordsArePrimarys
    <2>2. PartOf(r.recs, log[Primary])
        BY <1>5, <2>1 DEF PartOf
    <2>3. CASE k = n
        BY <1>2, <2>1, <2>2, <2>3
    <2>4. CASE k # n
        BY <1>2, <2>1, <2>4 DEF RecordsArePrimarys
    <2> QED BY <2>3, <2>4
<1> QED BY <1>6, <1>7, <1>8

\* A record is applied.
LEMMA ApplyIInv ==
    ASSUME IInv, NEW n \in Nodes, Apply(n)
    PROVE  IInv'
<1> USE DEF IInv
<1>1. /\ HasNext(n) /\ PutNext(n)
      /\ logcounter' = [logcounter EXCEPT ![n] = @ + 1]
      /\ UNCHANGED <<phase, isMaster, master, elected, pending, now, reply, count>>
    BY DEF Apply, roles
<1>2. /\ logcounter'[n] = logcounter[n] + 1 /\ logcounter[n] + 1 \in Nat \ {0}
      /\ \A m \in Nodes : m # n => logcounter'[m] = logcounter[m]
      /\ logcounter[n] \in Nat
    BY <1>1 DEF TypeOK
<1>3. /\ Grown(n) /\ DOMAIN log'[n] = DOMAIN log[n] \cup {logcounter[n] + 1}
      /\ n \notin elected \cup {Primary} => LastKey(log'[n]) = logcounter[n] + 1
    BY <1>1, PutNextGrows
<1>4. /\ DOMAIN log' = Nodes /\ IsLog(log'[n])
      /\ \A m \in Nodes : m # n => log'[m] = log[m]
    BY <1>3 DEF Grown
<1>5. TypeOK'
    BY <1>1, <1>2, <1>4 DEF TypeOK
<1>6. LogBelowCounter'
    BY <1>2, <1>3, <1>4, GrownIds DEF LogBelowCounter
<1>7. PendingIsFresh' /\ OnlyMastersCommit'
    BY <1>1, <1>2, <1>3, <1>4 DEF PendingIsFresh, OnlyMastersCommit, TypeOK, IsLog
<1>8. SlaveCountsRecords' /\ SlaveHasNoGap'
    BY <1>1, <1>2, <1>3, <1>4 DEF SlaveCountsRecords, SlaveHasNoGap, Grown
<1>9. ReplyHasReader' /\ RecordsArePrimarys'
    BY <1>1, <1>3 DEF ReplyHasReader, RecordsArePrimarys, Grown
<1> QED BY <1>5, <1>6, <1>7, <1>8, <1>9

\* A reply is used up.
LEMMA ReplyDoneIInv ==
    ASSUME IInv, NEW n \in Nodes, ReplyDone(n)
    PROVE  IInv'
<1> USE DEF IInv
<1>1. /\ UNCHANGED <<isMaster, master, elected, logcounter, log, pending, now, count>>
      /\ reply' = [reply EXCEPT ![n] = None]
      /\ phase[n] \in {"first", "sync"}
    BY DEF ReplyDone, roles, logs, ReplyHasReader
<1>2. /\ reply'[n] = None /\ phase'[n] \in Phases /\ phase'[n] # "serving"
      /\ DOMAIN reply' = Nodes /\ phase' \in [Nodes -> Phases]
      /\ \A m \in Nodes : m # n => reply'[m] = reply[m] /\ phase'[m] = phase[m]
    BY DEF ReplyDone, TypeOK, ReplyHasReader, Phases
<1>3. TypeOK'
    BY <1>1, <1>2 DEF TypeOK
<1>4. LogBelowCounter' /\ PendingIsFresh' /\ OnlyMastersCommit' /\ SlaveHasNoGap'
    BY <1>1 DEF LogBelowCounter, PendingIsFresh, OnlyMastersCommit, SlaveHasNoGap
<1>5. SlaveCountsRecords' /\ ReplyHasReader' /\ RecordsArePrimarys'
    BY <1>1, <1>2 DEF SlaveCountsRecords, ReplyHasReader, RecordsArePrimarys
<1> QED BY <1>3, <1>4, <1>5

\* A record is not applied: the process ends, or its loop does.
LEMMA ApplyFailsIInv ==
    ASSUME IInv, NEW n \in Nodes, ApplyFails(n)
    PROVE  IInv'
<1> USE DEF IInv
<1>1. Grown(n)
    BY PutNextGrows, UnchangedIsGrown DEF ApplyFails
<1>2. CASE StopAt(n)
    BY <1>1, <1>2, StopAtIInv
<1>3. CASE /\ phase' = [phase EXCEPT ![n] = "serving"]
           /\ logcounter' = [logcounter EXCEPT ![n] = @ + 1]
           /\ reply' = [reply EXCEPT ![n] = None]
           /\ UNCHANGED <<roles, pending, now, count>>
    <2>1. /\ UNCHANGED <<isMaster, master, elected, pending, now, count>>
          /\ logcounter'[n] = logcounter[n] + 1 /\ logcounter[n] + 1 \in Nat \ {0}
          /\ logcounter[n] \in Nat
          /\ phase'[n] = "serving" /\ reply'[n] = None /\ DOMAIN reply' = Nodes
          /\ \A m \in Nodes : m # n => /\ logcounter'[m] = logcounter[m]
                                       /\ phase'[m] = phase[m] /\ reply'[m] = reply[m]
        BY <1>3 DEF TypeOK, roles
    <2>2. /\ DOMAIN log' = Nodes /\ IsLog(log'[n])
          /\ DOMAIN log'[n] \subseteq DOMAIN log[n] \cup {logcounter[n] + 1}
          /\ \A m \in Nodes : m # n => log'[m] = log[m]
        BY <1>1 DEF Grown
    <2>3. TypeOK'
        BY <1>3, <2>1, <2>2 DEF TypeOK, Phases
    <2>4. LogBelowCounter'
        BY <1>1, <2>1, <2>2, GrownIds DEF LogBelowCounter
    <2>5. PendingIsFresh' /\ OnlyMastersCommit'
        BY <2>1, <2>2 DEF PendingIsFresh, OnlyMastersCommit, TypeOK, IsLog
    <2>6. SlaveCountsRecords' /\ SlaveHasNoGap'
        BY <1>1, <2>1, <2>2 DEF SlaveCountsRecords, SlaveHasNoGap, Grown
    <2>7. ReplyHasReader' /\ RecordsArePrimarys'
        BY <1>1, <2>1 DEF ReplyHasReader, RecordsArePrimarys, Grown
    <2> QED BY <2>3, <2>4, <2>5, <2>6, <2>7
<1> QED BY <1>2, <1>3 DEF ApplyFails

\* IInv is inductive.
LEMMA NextIInv == IInv /\ [Next]_vars => IInv'
<1> SUFFICES ASSUME IInv, [Next]_vars PROVE IInv'
    OBVIOUS
<1>1. CASE UNCHANGED vars
    BY <1>1 DEF IInv, TypeOK, LogBelowCounter, PendingIsFresh, OnlyMastersCommit,
       SlaveCountsRecords, SlaveHasNoGap, ReplyHasReader, RecordsArePrimarys, vars
<1>2. CASE Next
    <2>1. PICK n \in Nodes :
            \/ TakeLogId(n)
            \/ \E id \in DOMAIN pending[n] : PutLog(n, id) \/ PutFails(n, id)
            \/ Crash(n) \/ StartMaster(n)
            \/ \E m \in Nodes : StartSlave(n, m)
            \/ SlaveStep(n)
            \/ ApplyFails(n) \/ FirstFails(n) \/ PollFails(n) \/ Elect(n)
        BY <1>2 DEF Next
    <2>2. CASE TakeLogId(n)
        BY <2>2, TakeLogIdIInv
    <2>3. CASE \E id \in DOMAIN pending[n] : PutLog(n, id) \/ PutFails(n, id)
        BY <2>3, PutLogIInv, PutFailsIInv
    <2>4. CASE Crash(n) \/ FirstFails(n)
        BY <2>4, UnchangedIsGrown, StopAtIInv DEF Crash, FirstFails
    <2>5. CASE StartMaster(n) \/ \E m \in Nodes : StartSlave(n, m)
        BY <2>5, StartMasterIInv, StartSlaveIInv
    <2>6. CASE SlaveStep(n)
        BY <2>6, PollIInv, ApplyIInv, ReplyDoneIInv, RegisterIInv, CompareIInv
           DEF SlaveStep
    <2>7. CASE ApplyFails(n) \/ PollFails(n) \/ Elect(n)
        BY <2>7, ApplyFailsIInv, PollFailsIInv, ElectIInv
    <2> QED BY <2>1, <2>2, <2>3, <2>4, <2>5, <2>6, <2>7
<1> QED BY <1>1, <1>2

\* The inductive invariant holds of every state that replication reaches.
LEMMA Invariance == Spec => []IInv
BY InitIInv, NextIInv, PTL DEF Spec

-------------------------------------------------------------------------------
\* The variables of SyncServer have their types (SyncServer, RemoteKeeper and
\* SharedTable), whatever fails.
THEOREM TypeCorrect == Spec => []TypeOK
<1>1. IInv => TypeOK
    BY DEF IInv
<1> QED BY <1>1, Invariance, PTL

\* A slave's log has no gap, though the log it copies may have some: SyncFirst and
\* SyncFromMaster break at a record whose id is not the next one.
THEOREM SlavesHaveNoGap == Spec => []SlaveHasNoGap
<1>1. IInv => SlaveHasNoGap
    BY DEF IInv
<1> QED BY <1>1, Invariance, PTL

\* Before the first election the logs of any two instances agree, through lost
\* replies, failing writes and crashes,
THEOREM LogsAgree == Spec => []LogAgreement
<1>1. IInv => LogAgreement
    BY DEF IInv, RecordsArePrimarys, LogAgreement, Agree, PartOf
<1> QED BY <1>1, Invariance, PTL

\* and no instance has a record that the primary has not.
THEOREM SlavesStayBehind == Spec => []SlaveNotAhead
<1>1. IInv => SlaveNotAhead
    BY DEF IInv, RecordsArePrimarys, SlaveNotAhead, Agree, PartOf
<1> QED BY <1>1, Invariance, PTL

-------------------------------------------------------------------------------
\* The steps that change a log: a commit's Put, and a record taken over.
LEMMA WhoWrites ==
    ASSUME IInv, Next
    PROVE  \/ UNCHANGED log
           \/ \E n \in Nodes : \E id \in DOMAIN pending[n] : PutLog(n, id)
           \/ \E n \in Nodes : HasNext(n) /\ PutNext(n) /\ UNCHANGED elected
BY DEF Next, TakeLogId, PutFails, Crash, StartMaster, StartSlave, SlaveStep, Poll,
       Apply, ReplyDone, Register, CompareBeforeSync, ApplyFails, FirstFails,
       PollFails, Elect, logs, roles, StopAt

LEMMA LogsGrow ==
    ASSUME IInv, Next, NEW k \in Nodes
    PROVE  PartOf(log[k], log'[k])
<1>1. CASE UNCHANGED log
    BY <1>1 DEF PartOf
<1>2. ASSUME NEW n \in Nodes, NEW id \in DOMAIN pending[n], PutLog(n, id)
      PROVE  PartOf(log[k], log'[k])
    <2>1. id \notin DOMAIN log[n]
        BY <1>2 DEF IInv, PendingIsFresh
    <2>2. log' = [log EXCEPT ![n] = Put(log[n], id, pending[n][id])]
        BY <1>2 DEF PutLog
    <2>3. \/ log'[k] = log[k]
          \/ k = n /\ log'[k] = Put(log[k], id, pending[k][id])
        BY <2>2 DEF IInv, TypeOK
    <2> QED BY <2>1, <2>3 DEF PartOf, Put
<1>3. ASSUME NEW n \in Nodes, HasNext(n), PutNext(n)
      PROVE  PartOf(log[k], log'[k])
    <2>1. Grown(n)
        BY <1>3, PutNextGrows
    <2> QED BY <2>1 DEF Grown, PartOf
<1> QED BY <1>1, <1>2, <1>3, WhoWrites

\* No instance replaces or removes a record of its log, across crashes, changes of
\* role and failed writes (logdb is only ever written by Put of a new id).
THEOREM RecordsStay == Spec => LogImmutable
<1> DEFINE Keeps == \A n \in Nodes : \A i \in DOMAIN log[n] :
                       i \in DOMAIN log'[n] /\ log'[n][i] = log[n][i]
<1>1. IInv /\ [Next]_vars => [Keeps]_vars
    BY LogsGrow DEF PartOf
<1>2. Spec => [][Keeps]_vars
    BY <1>1, Invariance, PTL DEF Spec
<1> QED BY <1>2 DEF LogImmutable

\* A commit on the primary is a Write of the abstract log.
LEMMA PutLogIsWrite ==
    ASSUME IInv, elected = {}, NEW n \in Nodes, NEW id \in DOMAIN pending[n],
           PutLog(n, id)
    PROVE  Replica!Write
<1>1. n = Primary
    BY DEF IInv, OnlyMastersCommit
<1>2. /\ id \in (2 .. MaxLogId) \ DOMAIN log[Primary]
      /\ pending[Primary][id] \in 1 .. MaxTs
    <2>1. id \in Nat /\ MaxLogId \in Nat
        BY SyncServerAssumption DEF IInv, TypeOK, IsLog
    <2> QED BY <1>1, <2>1 DEF IInv, PendingIsFresh
<1>3. log' = [log EXCEPT ![Primary] = Put(log[Primary], id, pending[Primary][id])]
    BY <1>1 DEF PutLog
<1>4. log'[Primary] = Put(log[Primary], id, pending[Primary][id])
    BY <1>3, SyncServerAssumption DEF IInv, TypeOK
<1>5. \A m \in Nodes \ {Primary} : log'[m] = log[m]
    BY <1>3 DEF IInv, TypeOK
<1>6. Copies' = Copies
    BY <1>5 DEF Copies
<1> QED BY <1>2, <1>4, <1>6 DEF Replica!Write, Replica!Put, Put

\* A record taken over is a Copy: it is the primary's, and the next one.
LEMMA PutNextIsCopy ==
    ASSUME IInv, elected = {}, NEW n \in Nodes, HasNext(n), PutNext(n)
    PROVE  /\ n \in Nodes \ {Primary}
           /\ Replica!Copy(n)
<1> DEFINE id == logcounter[n] + 1
<1>1. n # Primary
    BY PutNextGrows
<1>2. id \in DOMAIN log[Primary] /\ reply[n].recs[id] = log[Primary][id]
    BY DEF IInv, HasNext, RecordsArePrimarys, PartOf
<1>3. LastKey(log[n]) = logcounter[n]
    <2>1. phase[n] # "serving"
        BY DEF HasNext, IInv, ReplyHasReader
    <2> QED BY <1>1, <2>1 DEF IInv, SlaveCountsRecords
<1>4. log' = [log EXCEPT ![n] = Put(log[n], id, log[Primary][id])]
    BY <1>2 DEF PutNext
<1>5. /\ log'[Primary] = log[Primary]
      /\ log'[n] = Put(log[n], id, log[Primary][id])
      /\ \A m \in Nodes : m # n => log'[m] = log[m]
    BY <1>1, <1>4, SyncServerAssumption DEF IInv, TypeOK
<1>6. Copies' = [Copies EXCEPT ![n] = Put(Copies[n], id, log[Primary][id])]
    BY <1>1, <1>5 DEF Copies
<1>7. LastKey(Copies[n]) + 1 = id
    BY <1>1, <1>3 DEF Copies
<1>8. Replica!LastKey(Copies[n]) = LastKey(Copies[n])
    BY DEF Replica!LastKey, LastKey
<1>9. Replica!Put(Copies[n], id, log[Primary][id]) = Put(Copies[n], id, log[Primary][id])
    BY DEF Replica!Put, Put
<1> HIDE DEF id
<1> QED BY <1>1, <1>2, <1>5, <1>6, <1>7, <1>8, <1>9 DEF Replica!Copy

\* Until the first election the instances implement one append-only log with
\* replicas: every step is a step of ReplicatedLog or leaves its variables unchanged.
THEOREM Refinement == Spec => ImplementsReplicatedLog
<1> DEFINE Step == elected' = {} => Replica!Next
<1>1. Init => Replica!Init
    BY SyncServerAssumption
       DEF Init, Replica!Init, Copies, Replica!EmptyLog, EmptyLog
<1>2. IInv /\ [Next]_vars => [Step]_<<log[Primary], Copies>>
    <2> SUFFICES ASSUME IInv, [Next]_vars, elected' = {}
                 PROVE  Replica!Next \/ UNCHANGED <<log[Primary], Copies>>
        OBVIOUS
    <2>1. CASE UNCHANGED log
        BY <2>1 DEF Copies
    <2>2. ASSUME NEW n \in Nodes, NEW id \in DOMAIN pending[n], PutLog(n, id)
          PROVE  Replica!Next
        <3>1. elected = {}
            BY <2>2 DEF PutLog, roles
        <3> QED BY <2>2, <3>1, PutLogIsWrite DEF Replica!Next
    <2>3. ASSUME NEW n \in Nodes, HasNext(n), PutNext(n), UNCHANGED elected
          PROVE  Replica!Next
        BY <2>3, PutNextIsCopy DEF Replica!Next
    <2>4. CASE UNCHANGED vars
        BY <2>1, <2>4 DEF vars
    <2>5. CASE Next
        BY <2>1, <2>2, <2>3, <2>5, WhoWrites
    <2> QED BY <2>4, <2>5
<1>3. Spec => Replica!Init /\ [][Step]_<<log[Primary], Copies>>
    BY <1>1, <1>2, Invariance, PTL DEF Spec
<1> QED BY <1>3 DEF ImplementsReplicatedLog

===============================================================================
