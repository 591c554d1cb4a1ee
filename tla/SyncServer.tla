------------------------------ MODULE SyncServer ------------------------------
(***************************************************************************)
(* Log replication between identt instances.  A master appends to its log; *)
(* an instance started with --master copies the log of the instance it is  *)
(* pointed at.  The phases of an instance:                                 *)
(*                                                                         *)
(*   down     the process is not running; its database is as it left it    *)
(*   first    SyncFirst polls until it has everything, inside init         *)
(*   register SyncFirst registers, and is referred to the master           *)
(*   compare  SyncFromMaster checks its log against the master's           *)
(*   sync     the loop of SyncFromMaster                                   *)
(*   serving  init has returned and the HTTP servers run                   *)
(*                                                                         *)
(* SyncFromMaster runs in a std::async whose future init discards, and the *)
(* destructor of that future waits for it.  The instance therefore serves  *)
(* nothing while it is in the loop; it comes to serve when the loop ends:  *)
(* elected as master, or as a slave when an exception (which the future    *)
(* swallows) ended it.  For the same reason no R_BUFFTRANS reaches the     *)
(* loop, its buffer is empty, and the code that drains it does nothing.    *)
(*                                                                         *)
(* A record is its time stamp ts, and no two commits share one.            *)
(***************************************************************************)
EXTENDS TransLog

CONSTANTS
    Nodes,      \* the instances
    Primary,    \* the one whose configuration starts it as a master
    InitLogId,  \* logcounter of the primary at the start
    Chunk,      \* limit of a poll (IDENTT_SYNC_CHUNK_SIZE and _FIRST_)
    ElectAt,    \* failed polls in a row after which a slave elects (20)
    MayElect,   \* FALSE: no outage lasts that long
    MayLose,    \* whether a call between instances may fail
    MayCrash,   \* whether an instance may crash
    MayFail,    \* whether a database write may fail
    MaxLogId,   \* bound on log ids
    MaxTs,      \* bound on commits
    None        \* no reply

ASSUME SyncServerAssumption ==
    /\ Primary \in Nodes /\ None \notin Nodes
    /\ InitLogId \in Nat \ {0} /\ MaxLogId \in Nat /\ MaxTs \in Nat
    /\ Chunk \in Nat /\ ElectAt \in Nat \ {0}
    /\ MayElect \in BOOLEAN /\ MayLose \in BOOLEAN
    /\ MayCrash \in BOOLEAN /\ MayFail \in BOOLEAN

VARIABLES
    phase,      \* see above
    isMaster,   \* SharedTable::is_master
    master,     \* SharedTable::master
    logcounter, \* SharedTable::logcounter
    log,        \* the rows of the log: id -> ts
    pending,    \* commits that have an id and are not in the log: id -> ts
    reply,      \* the answer to R_TRANSLOG being applied, or None
    count,      \* tolcount in SyncFirst, failcount in SyncFromMaster
    elected,    \* the instances that ever elected themselves
    now         \* the time stamp of the last commit

vars == <<phase, isMaster, master, logcounter, log, pending, reply, count,
          elected, now>>
roles == <<isMaster, master, elected>>
logs  == <<logcounter, log, pending, now>>

Phases == {"down", "first", "register", "compare", "sync", "serving"}

-------------------------------------------------------------------------------
\* An R_ call to m is answered.  Whether it fails nonetheless is for the
\* actions: a lost call is always possible when MayLose.
Serving(m) == phase[m] = "serving"

\* R_READONE: the ts of a record.  Id 0 is the fence, an empty record whose ts
\* is 0; an id that is not in the log is marked notfound.
ReadOne(m, id) ==
    IF id \in DOMAIN log[m] THEN log[m][id]
    ELSE IF id = 0 THEN 0 ELSE None

\* CompareLog: both sides have the record before logcounter, with the same ts.
\* Every other outcome is false or an exception.
CompareLog(n, m) ==
    LET id == logcounter[n] - 1
    IN  /\ Serving(m)
        /\ ReadOne(m, id) # None
        /\ ReadOne(n, id) # None
        /\ ReadOne(m, id) = ReadOne(n, id)

\* R_TRANSLOG is answered without error.
CanPoll(n) ==
    /\ Serving(master[n])
    /\ logcounter[n] <= logcounter[master[n]]

\* Mutant of TransLogReply: it includes commits whose record is not written.
TransLogReplyEarly(n) ==
    LET m   == master[n]
        all == [i \in DOMAIN log[m] \cup DOMAIN pending[m] |->
                  IF i \in DOMAIN log[m] THEN log[m][i] ELSE pending[m][i]]
    IN  [recs   |-> ReadLog(all, logcounter[n], Chunk),
         lastid |-> ReadLast(all, logcounter[n], Chunk),
         currid |-> logcounter[m]]

\* The answer: the records after the caller's counter, and the counter.
TransLogReply(n) ==
    LET m == master[n]
    IN  [recs   |-> ReadLog(log[m], logcounter[n], Chunk),
         lastid |-> ReadLast(log[m], logcounter[n], Chunk),
         currid |-> logcounter[m]]

-------------------------------------------------------------------------------
Init ==
    /\ phase = [n \in Nodes |-> IF n = Primary THEN "serving" ELSE "down"]
    /\ isMaster = [n \in Nodes |-> n = Primary]
    /\ master = [n \in Nodes |-> Primary]
    /\ logcounter = [n \in Nodes |-> IF n = Primary THEN InitLogId ELSE 1]
    /\ log = [n \in Nodes |->
                IF n = Primary THEN [i \in 2 .. InitLogId |-> i] ELSE EmptyLog]
    /\ pending = [n \in Nodes |-> EmptyLog]
    /\ reply = [n \in Nodes |-> None]
    /\ count = [n \in Nodes |-> 0]
    /\ elected = {}
    /\ now = InitLogId

\* A client's write on a master takes a log id (CommitLog).
TakeLogId(n) ==
    /\ Serving(n) /\ isMaster[n]
    /\ logcounter[n] < MaxLogId /\ now < MaxTs
    /\ now' = now + 1
    /\ logcounter' = [logcounter EXCEPT ![n] = @ + 1]
    /\ pending' = [pending EXCEPT ![n] = Put(@, logcounter[n] + 1, now + 1)]
    /\ UNCHANGED <<phase, roles, log, reply, count>>

Drop(f, i) == [j \in DOMAIN f \ {i} |-> f[j]]

\* and puts its record into the log,
PutLog(n, id) ==
    /\ id \in DOMAIN pending[n]
    /\ log' = [log EXCEPT ![n] = Put(@, id, pending[n][id])]
    /\ pending' = [pending EXCEPT ![n] = Drop(@, id)]
    /\ UNCHANGED <<phase, roles, logcounter, now, reply, count>>

\* or fails to, and the id stays unused.
PutFails(n, id) ==
    /\ MayFail
    /\ id \in DOMAIN pending[n]
    /\ pending' = [pending EXCEPT ![n] = Drop(@, id)]
    /\ UNCHANGED <<phase, roles, logcounter, log, now, reply, count>>

-------------------------------------------------------------------------------
\* The process ends with the log it has written.  The counter is shown as the
\* next start will find it.
StopAt(n) ==
    /\ phase' = [phase EXCEPT ![n] = "down"]
    /\ isMaster' = [isMaster EXCEPT ![n] = FALSE]
    /\ logcounter' = [logcounter EXCEPT ![n] = LastKey(log'[n])]
    /\ pending' = [pending EXCEPT ![n] = EmptyLog]
    /\ reply' = [reply EXCEPT ![n] = None]
    /\ count' = [count EXCEPT ![n] = 0]
    /\ UNCHANGED <<master, elected, now>>

\* Mutant of Crash: the last record of the log was not yet on disk.
CrashUnsynced(n) ==
    /\ MayCrash /\ phase[n] # "down"
    /\ log' = [log EXCEPT ![n] = Drop(@, LastKey(@))]
    /\ StopAt(n)

Crash(n) == MayCrash /\ phase[n] # "down" /\ UNCHANGED log /\ StopAt(n)

\* Started without --master.  The operator does that with the primary and with
\* an instance that became the master.
StartMaster(n) ==
    /\ phase[n] = "down"
    /\ n = Primary \/ n \in elected
    /\ phase' = [phase EXCEPT ![n] = "serving"]
    /\ isMaster' = [isMaster EXCEPT ![n] = TRUE]
    /\ UNCHANGED <<master, elected, logs, reply, count>>

\* Started with --master=m: CompareLog succeeds and SyncFirst begins.  If it
\* does not, init throws and the process ends where it began.
StartSlave(n, m) ==
    /\ phase[n] = "down" /\ n # m
    /\ CompareLog(n, m)
    /\ phase' = [phase EXCEPT ![n] = "first"]
    /\ master' = [master EXCEPT ![n] = m]
    /\ UNCHANGED <<isMaster, elected, logs, reply, count>>

\* The loop of SyncFirst and that of SyncFromMaster ask for records.  A poll
\* that is answered resets failcount.
Poll(n) ==
    /\ phase[n] \in {"first", "sync"}
    /\ reply[n] = None
    /\ CanPoll(n)
    /\ reply' = [reply EXCEPT ![n] = TransLogReply(n)]
    /\ count' = [count EXCEPT ![n] = 0]
    /\ UNCHANGED <<phase, roles, logs>>

\* Mutant of HasNext: the last record of a reply is taken for its end.
HasNextShort(n) == reply[n] # None /\ logcounter[n] + 2 \in DOMAIN reply[n].recs

\* if (trans.id() != logcounter + 1) break; Commit(trans, false)
HasNext(n) == reply[n] # None /\ logcounter[n] + 1 \in DOMAIN reply[n].recs

\* Mutants of PutNext: every id gets the last record of the reply; the status of the
\* Put is ignored.
PutNextLast(n) ==
    LET id == logcounter[n] + 1
    IN  log' = [log EXCEPT ![n] = Put(@, id, reply[n].recs[reply[n].lastid])]
PutNextUnchecked(n) ==
    LET id == logcounter[n] + 1
    IN  \/ log' = [log EXCEPT ![n] = Put(@, id, reply[n].recs[id])]
        \/ UNCHANGED log

PutNext(n) ==
    LET id == logcounter[n] + 1
    IN  log' = [log EXCEPT ![n] = Put(@, id, reply[n].recs[id])]

Apply(n) ==
    /\ HasNext(n)
    /\ PutNext(n)
    /\ logcounter' = [logcounter EXCEPT ![n] = @ + 1]
    /\ UNCHANGED <<phase, roles, pending, now, reply, count>>

\* The reply is used up: SyncFirst leaves its loop when lastid = currid, and
\* otherwise either loop goes round.
ReplyDone(n) ==
    /\ reply[n] # None /\ ~HasNext(n)
    /\ phase' = [phase EXCEPT ![n] =
                   IF @ = "first" /\ reply[n].lastid = reply[n].currid
                   THEN "register" ELSE @]
    /\ reply' = [reply EXCEPT ![n] = None]
    /\ UNCHANGED <<roles, logs, count>>

\* Commit throws on a slave.  CommitLog has taken the id; the record was put
\* (the data or the cache failed) or not.  In SyncFirst the exception ends the
\* process, in SyncFromMaster it ends the loop and the instance serves.
ApplyFails(n) ==
    /\ MayFail /\ HasNext(n)
    /\ PutNext(n) \/ UNCHANGED log
    /\ \/ phase[n] = "first" /\ StopAt(n)
       \/ /\ phase[n] = "sync"
          /\ phase' = [phase EXCEPT ![n] = "serving"]
          /\ logcounter' = [logcounter EXCEPT ![n] = @ + 1]
          /\ reply' = [reply EXCEPT ![n] = None]
          /\ UNCHANGED <<roles, pending, now, count>>

\* An R_ call of SyncFirst fails, or refers the instance a third time: init
\* throws and the process ends.
FirstFails(n) ==
    /\ \/ phase[n] = "first" /\ reply[n] = None /\ (MayLose \/ ~CanPoll(n))
       \/ /\ phase[n] = "register"
          /\ MayLose \/ ~Serving(master[n]) \/ count[n] = 2
    /\ UNCHANGED log /\ StopAt(n)

\* R_REGISTER: the instance asked is the master, or names its own.
Register(n) ==
    /\ phase[n] = "register"
    /\ Serving(master[n]) /\ count[n] < 2
    /\ IF isMaster[master[n]]
       THEN /\ phase' = [phase EXCEPT ![n] = "compare"]
            /\ count' = [count EXCEPT ![n] = 0]
            /\ UNCHANGED master
       ELSE /\ master' = [master EXCEPT ![n] = master[master[n]]]
            /\ count' = [count EXCEPT ![n] = @ + 1]
            /\ UNCHANGED phase
    /\ UNCHANGED <<isMaster, elected, logs, reply>>

\* SyncFromMaster starts with CompareLog.  When that throws or finds a
\* difference, the exception is lost and the instance serves.
CompareBeforeSync(n) ==
    /\ phase[n] = "compare"
    /\ \/ CompareLog(n, master[n]) /\ phase' = [phase EXCEPT ![n] = "sync"]
       \/ /\ MayLose \/ ~CompareLog(n, master[n])
          /\ phase' = [phase EXCEPT ![n] = "serving"]
    /\ UNCHANGED <<roles, logs, reply, count>>

\* A poll of SyncFromMaster fails.
PollFails(n) ==
    /\ phase[n] = "sync" /\ reply[n] = None
    /\ MayLose \/ ~CanPoll(n)
    /\ count[n] + 1 < ElectAt
    /\ count' = [count EXCEPT ![n] = @ + 1]
    /\ UNCHANGED <<phase, roles, logs, reply>>

\* The ElectAt-th failure in a row: MasterUpdate.  The entries of remotes are as
\* old as the registrations, for nothing updates them while the instance serves no
\* R_SETINFO: none passes the cutoff faildetected, and the instance elects itself.
\* That is so where the clocks of the hosts agree: an entry has the time of the
\* host that registered, the cutoff is this one's.  Where they do not, MasterUpdate
\* may take another instance for the master, unasked; that branch is left out.
Elect(n) ==
    /\ MayElect
    /\ phase[n] = "sync" /\ reply[n] = None
    /\ MayLose \/ ~CanPoll(n)
    /\ count[n] + 1 = ElectAt
    /\ isMaster' = [isMaster EXCEPT ![n] = TRUE]
    /\ elected' = elected \cup {n}
    /\ phase' = [phase EXCEPT ![n] = "serving"]
    /\ count' = [count EXCEPT ![n] = 0]
    /\ UNCHANGED <<master, logs, reply>>

-------------------------------------------------------------------------------
SlaveStep(n) ==
    \/ Poll(n) \/ Apply(n) \/ ReplyDone(n)
    \/ Register(n) \/ CompareBeforeSync(n)

Next ==
    \E n \in Nodes :
        \/ TakeLogId(n)
        \/ \E id \in DOMAIN pending[n] : PutLog(n, id) \/ PutFails(n, id)
        \/ Crash(n) \/ StartMaster(n)
        \/ \E m \in Nodes : StartSlave(n, m)
        \/ SlaveStep(n)
        \/ ApplyFails(n) \/ FirstFails(n) \/ PollFails(n) \/ Elect(n)

Spec == Init /\ [][Next]_vars

\* The loops of an instance go on: a call is sent, answered and applied, and a
\* commit that has its id writes its record.  Nothing is assumed of clients and
\* operators.
Fairness ==
    \A n \in Nodes :
        /\ WF_vars(SlaveStep(n))
        /\ WF_vars(\E id \in DOMAIN pending[n] : PutLog(n, id))

\* Every slave is started at some time.
Deployed == \A n \in Nodes \ {Primary} : WF_vars(StartSlave(n, Primary))

FairSpec == Spec /\ Fairness /\ Deployed

-------------------------------------------------------------------------------
IsLog(l) == \A i \in DOMAIN l : i \in Nat /\ l[i] \in Nat

\* The types of the variables.
TypeOK ==
    /\ phase \in [Nodes -> Phases]
    /\ isMaster \in [Nodes -> BOOLEAN]
    /\ master \in [Nodes -> Nodes]
    /\ logcounter \in [Nodes -> Nat \ {0}]
    /\ DOMAIN log = Nodes /\ \A n \in Nodes : IsLog(log[n])
    /\ DOMAIN pending = Nodes /\ \A n \in Nodes : IsLog(pending[n])
    /\ DOMAIN reply = Nodes
    /\ \A n \in Nodes : reply[n] # None =>
         /\ reply[n] = [recs |-> reply[n].recs, lastid |-> reply[n].lastid,
                        currid |-> reply[n].currid]
         /\ IsLog(reply[n].recs) /\ reply[n].lastid \in Nat /\ reply[n].currid \in Nat
    /\ count \in [Nodes -> Nat]
    /\ elected \subseteq Nodes
    /\ now \in Nat

\* l is a part of m.
PartOf(l, m) == \A i \in DOMAIN l : i \in DOMAIN m /\ l[i] = m[i]

\* Two logs have the same record wherever both have one.
Agree(l1, l2) == \A i \in DOMAIN l1 \cap DOMAIN l2 : l1[i] = l2[i]

\* As long as no slave has elected itself, the logs of all instances agree,
\* whichever instance each of them copied from and whatever failed meanwhile.
LogAgreement == elected = {} => \A n, m \in Nodes : Agree(log[n], log[m])

\* and a slave has no record that the primary does not have, also after the
\* primary has crashed with commits in flight.
SlaveNotAhead ==
    elected = {} => \A n \in Nodes : DOMAIN log[n] \subseteq DOMAIN log[Primary]

\* An instance that was never a master has a log without gaps, even when the
\* log it copies has some: SyncFirst and SyncFromMaster take a record only
\* when its id is the next one.
SlaveHasNoGap ==
    \A n \in Nodes \ (elected \cup {Primary}) :
        DOMAIN log[n] = 2 .. LastKey(log[n])

\* Records are never replaced or removed, across restarts, changes of role and
\* resynchronisation.
LogImmutable ==
    [][\A n \in Nodes : \A i \in DOMAIN log[n] :
         i \in DOMAIN log'[n] /\ log'[n][i] = log[n][i]]_vars

\* What makes the properties above inductive.  Ids are handed out and taken over
\* in order: those in the log are at most logcounter,
LogBelowCounter ==
    \A n \in Nodes : \A i \in DOMAIN log[n] : 2 <= i /\ i <= logcounter[n]

\* and those of commits under way are too, and have no record yet.
PendingIsFresh ==
    \A n \in Nodes : \A i \in DOMAIN pending[n] :
        /\ 2 <= i /\ i <= logcounter[n] /\ i <= MaxLogId
        /\ i \notin DOMAIN log[n]
        /\ pending[n][i] \in 1 .. MaxTs

\* Only an instance that is or was a master has commits.
OnlyMastersCommit ==
    \A n \in Nodes :
        isMaster[n] \/ DOMAIN pending[n] # {} => n \in elected \cup {Primary}

\* Until a slave serves, logcounter is the id of its last record.
SlaveCountsRecords ==
    \A n \in Nodes \ (elected \cup {Primary}) :
        phase[n] # "serving" => logcounter[n] = LastKey(log[n])

\* Records are on their way only to a loop that applies them.
ReplyHasReader ==
    \A n \in Nodes : reply[n] # None => phase[n] \in {"first", "sync"}

\* Before the first election, every record in a log or a reply is the primary's.
RecordsArePrimarys ==
    elected = {} => \A n \in Nodes :
        /\ PartOf(log[n], log[Primary])
        /\ reply[n] # None => PartOf(reply[n].recs, log[Primary])

IInv ==
    /\ TypeOK /\ LogBelowCounter /\ PendingIsFresh /\ OnlyMastersCommit
    /\ SlaveCountsRecords /\ SlaveHasNoGap /\ ReplyHasReader
    /\ RecordsArePrimarys

\* What each slave has copied.
Copies == [n \in Nodes \ {Primary} |-> log[n]]

Replica == INSTANCE ReplicatedLog WITH
    Replicas  <- Nodes \ {Primary},
    Ids       <- 2 .. MaxLogId,
    Recs      <- 1 .. MaxTs,
    Start     <- [i \in 2 .. InitLogId |-> i],
    committed <- log[Primary],
    copy      <- Copies

\* Until a slave elects itself, the instances together are one log with
\* replicas: every step up to there is a step of ReplicatedLog or leaves its
\* variables unchanged.
ImplementsReplicatedLog ==
    Replica!Init /\ [][elected' = {} => Replica!Next]_<<log[Primary], Copies>>

\* A slave that is running gets everything the master has.
SlaveCatchesUp ==
    \A n \in Nodes \ {Primary} :
        phase[n] = "first" ~> log[n] = log[Primary]

\* A slave that is started comes to serve ("read queries are on slave").
SlaveServes ==
    \A n \in Nodes \ {Primary} : phase[n] = "first" ~> phase[n] = "serving"

===============================================================================
