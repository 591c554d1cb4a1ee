-------------------------------- MODULE Cluster --------------------------------
(***************************************************************************)
(* The calls of clients to instances and of instances to each other.  Each *)
(* instance has one pool of threads (ThreadPool) on which the handlers of  *)
(* both of its servers run, and a handler that calls another instance      *)
(* keeps its thread until the answer is there: curl has no time limit.     *)
(* What ends a call is the server it was sent to, which closes a           *)
(* connection when its content timer fires before the answer is sent; the  *)
(* handler still runs, or will when a thread comes to it.                  *)
(*                                                                         *)
(*   ask       a client's call to an endpoint of Query                     *)
(*   forward   SendToMaster by the handler of an ask                       *)
(*   push      R_BUFFTRANS to lastslave, by Commit on the master           *)
(*   register  R_REGISTER by an instance that starts as a slave            *)
(*   tell      R_SETINFO by HostUpdate, to each known instance in turn     *)
(*                                                                         *)
(* The phases of an instance are those of SyncServer with "first",         *)
(* "register" and "compare" in one, joining: down, joining, looping (it    *)
(* copies the log, and its servers are not yet started), serving.  What is *)
(* copied is SyncServer's; here an instance has only its logcounter, and   *)
(* one that is down stays down.                                            *)
(***************************************************************************)
EXTENDS Query, Sequences, FiniteSets, Functions

CONSTANTS
    Nodes,      \* the instances
    Primary,    \* the one that is started as a master
    Reqs,       \* the calls of clients
    Threads,    \* the size of an instance's pool
    Mortal,     \* the instances that may crash, each once
    Flaky,      \* those whose polls may fail although the master serves
    None        \* no instance, no call, no answer

ASSUME ClusterAssumption ==
    /\ IsFiniteSet(Nodes) /\ Primary \in Nodes /\ None \notin Nodes
    /\ Threads \in Nat \ {0} /\ Mortal \subseteq Nodes /\ Flaky \subseteq Nodes

VARIABLES
    phase,      \* see above
    isMaster,   \* SharedTable::is_master
    master,     \* SharedTable::master
    counter,    \* SharedTable::logcounter
    remotes,    \* SharedTable::remotes: known instance -> its logcounter
    lastslave,  \* SharedTable::lastslave
    queue,      \* per instance, the calls that wait for a thread of the pool
    call,       \* the calls that were sent, and their handlers
    acts,       \* what a client's call asks for
    applied,    \* history: how often the action of a client's call was done,
    masters,    \* the instances that ever were a master,
    started,    \* those that were started,
    crashed     \* and those that crashed

roles  == <<phase, isMaster, master>>
tables == <<counter, remotes, lastslave>>
hist   == <<applied, masters, started, crashed>>
vars   == <<roles, tables, queue, call, acts, hist>>

Phases == {"down", "joining", "looping", "serving"}

\* Calls are named after the client's call or the instance they are made for.
Ask(r)         == [kind |-> "ask", of |-> r]
Forward(r)     == [kind |-> "forward", of |-> r]
Push(r)        == [kind |-> "push", of |-> r]
Register(n, k) == [kind |-> "register", of |-> n, nth |-> k]
\* The HostUpdate of a slave that has lost its master.
Rally(n)       == [kind |-> "rally", of |-> n, nth |-> 0]
Tell(c, h)     == [kind |-> "tell", of |-> c.of, nth |-> c.nth, to |-> h]

\* All names; None is not one.
Calls ==
    [kind : {"ask", "forward", "push"}, of : Reqs]
    \cup [kind : {"register", "rally"}, of : Nodes, nth : Nat]
    \cup [kind : {"tell"}, of : Nodes, nth : Nat, to : Nodes]
ASSUME NoneAssumption == \A r \in Reqs : None \notin {Ask(r), Forward(r), Push(r)}

Serving(n) == phase[n] = "serving"
NoHosts    == [h \in {} |-> 0]
Merge(f, g) ==
    [h \in DOMAIN f \cup DOMAIN g |-> IF h \in DOMAIN f THEN f[h] ELSE g[h]]
Host(n)    == [h \in {n} |-> counter[n]]

\* GetHosts: what an instance tells about itself, and a master about others.
StateOf(n) ==
    [isMaster |-> isMaster[n], master |-> master[n],
     hosts |-> IF isMaster[n] THEN remotes[n] ELSE Host(n)]

Init ==
    /\ phase = [n \in Nodes |-> IF n = Primary THEN "serving" ELSE "down"]
    /\ isMaster = [n \in Nodes |-> n = Primary]
    /\ master = [n \in Nodes |-> Primary]
    /\ counter = [n \in Nodes |-> 1]
    /\ remotes = [n \in Nodes |-> NoHosts]
    /\ lastslave = [n \in Nodes |-> None]
    /\ queue = [n \in Nodes |-> <<>>]
    /\ call = <<>>
    /\ acts = [r \in Reqs |-> "none"]
    /\ applied = [r \in Reqs |-> 0]
    /\ masters = {Primary} /\ started = {Primary} /\ crashed = {}

-------------------------------------------------------------------------------
\* A call as its receiver gets it: conn is what the sender sees of it (open, ok,
\* error, cut or notfound), run what has become of it (queued, busy when it has
\* a thread, done).  A call to an instance that does not serve fails at once.
NewCall(n, hosts) ==
    [to |-> n, conn |-> IF Serving(n) THEN "open" ELSE "error",
     run |-> IF Serving(n) THEN "queued" ELSE "done",
     sub |-> None,    \* the call its handler waits for
     todo |-> {},     \* the instances its HostUpdate has still to tell
     msg |-> hosts,   \* what it says about instances
     reply |-> None]  \* and what its answer does

Sent(cs, c, n, hosts) == Merge([d \in {c} |-> NewCall(n, hosts)], cs)
Queued(q, c, n) == IF Serving(n) THEN [q EXCEPT ![n] = Append(@, c)] ELSE q

\* The handler of c answers v, if anyone still listens, and frees its thread.
Answered(cs, c, v, reply) ==
    [cs EXCEPT ![c].run = "done", ![c].sub = None, ![c].todo = {},
               ![c].msg = NoHosts,
               ![c].conn = IF @ = "open" THEN v ELSE @,
               ![c].reply = IF cs[c].conn = "open" THEN reply ELSE @]

\* The sender has taken notice of the answer to d, and nothing is left of the call
\* but a handler that is yet to run.
Forgotten(cs, d) ==
    IF cs[d].run = "done" THEN Restrict(cs, DOMAIN cs \ {d}) ELSE cs

Waits(c, d)  == call[c].run = "busy" /\ call[c].sub = d
IsSettled(d) == d \in DOMAIN call /\ call[d].conn # "open"
Free(n)      == Cardinality({c \in DOMAIN call :
                               call[c].to = n /\ call[c].run = "busy"}) < Threads

\* A thread of n takes c; the handler then goes on with the calls cs.
Taken(n, c) ==
    /\ queue[n] # <<>> /\ c = Head(queue[n])
    /\ Free(n)
Busy(c)  == [call EXCEPT ![c].run = "busy"]
Popped(n) == [queue EXCEPT ![n] = Tail(@)]

-------------------------------------------------------------------------------
\* A client calls an endpoint the way the help text describes it.  What its
\* content makes the handler refuse is decided here.
ClientCalls(r, n) ==
    /\ Serving(n) /\ Ask(r) \notin DOMAIN call
    /\ \E e \in Endpoints :
         \/ /\ Found(e, MarksLeft(MarksSent(e)))
            /\ \/ acts' = [acts EXCEPT ![r] = e.acts]
               \/ e.refuses # {} /\ acts' = [acts EXCEPT ![r] = "nothing"]
            /\ call' = Sent(call, Ask(r), n, NoHosts)
            /\ queue' = Queued(queue, Ask(r), n)
         \/ /\ ~Found(e, MarksLeft(MarksSent(e)))
            /\ acts' = [acts EXCEPT ![r] = e.acts]
            /\ call' = [Sent(call, Ask(r), n, NoHosts) EXCEPT
                          ![Ask(r)].conn = "notfound", ![Ask(r)].run = "done"]
            /\ UNCHANGED queue
    /\ UNCHANGED <<roles, tables, hist>>

\* The action on the master.  It refuses; or CommitLog fails, with the id taken;
\* or CommitData fails, and the record stays in the log, where slaves read it; or
\* both are done: Commit then pushes to lastslave, and the handler answers when
\* that is over.  The effect of a call is that its record is in the log.
Act(n, c, r) ==
    \/ /\ call' = Answered(call, c, "error", None)
       /\ queue' = Popped(n)
       /\ \/ UNCHANGED <<counter, applied>>
          \/ /\ counter' = [counter EXCEPT ![n] = @ + 1]
             /\ applied' \in {applied, [applied EXCEPT ![r] = @ + 1]}
    \/ /\ applied' = [applied EXCEPT ![r] = @ + 1]
       /\ counter' = [counter EXCEPT ![n] = @ + 1]
       /\ IF lastslave[n] = None
          THEN call' = Busy(c) /\ queue' = Popped(n)
          ELSE /\ call' = Sent([Busy(c) EXCEPT ![c].sub = Push(r)],
                               Push(r), lastslave[n], NoHosts)
               /\ queue' = Queued(Popped(n), Push(r), lastslave[n])

\* The handler of a client's call: it refuses, acts here, acts as the master,
\* or forwards to the master.
HandleAsk(n, r) ==
    /\ Taken(n, Ask(r))
    /\ \/ /\ acts[r] \in {"nothing", "here"}
          /\ call' = Answered(call, Ask(r), "error", None)
          /\ queue' = Popped(n)
          /\ UNCHANGED <<counter, applied>>
       \/ /\ acts[r] = "here"
          /\ applied' = [applied EXCEPT ![r] = @ + 1]
          /\ call' = Busy(Ask(r))
          /\ queue' = Popped(n)
          /\ UNCHANGED counter
       \/ acts[r] = "master" /\ isMaster[n] /\ Act(n, Ask(r), r)
       \/ /\ acts[r] = "master" /\ ~isMaster[n]
          /\ call' = Sent([Busy(Ask(r)) EXCEPT ![Ask(r)].sub = Forward(r)],
                          Forward(r), master[n], NoHosts)
          /\ queue' = Queued(Popped(n), Forward(r), master[n])
          /\ UNCHANGED <<counter, applied>>
    /\ UNCHANGED <<roles, remotes, lastslave, acts, masters, started, crashed>>

\* The master endpoint.
HandleForward(n, r) ==
    /\ Taken(n, Forward(r))
    /\ \/ isMaster[n] /\ Act(n, Forward(r), r)
       \/ /\ ~isMaster[n]
          /\ call' = Answered(call, Forward(r), "error", None)
          /\ queue' = Popped(n)
          /\ UNCHANGED <<counter, applied>>
    /\ UNCHANGED <<roles, remotes, lastslave, acts, masters, started, crashed>>

\* R_BUFFTRANS: what it puts into transactions is never used (SyncServer).
HandlePush(n, r) ==
    /\ Taken(n, Push(r))
    /\ call' = Answered(call, Push(r), IF isMaster[n] THEN "error" ELSE "ok", None)
    /\ queue' = Popped(n)
    /\ UNCHANGED <<roles, tables, acts, hist>>

\* Mutant of HandleRegister: the caller is added with the counter of the master.
HandleRegisterOwn(n, c) ==
    /\ c.kind = "register" /\ Taken(n, c)
    /\ queue' = Popped(n)
    /\ IF isMaster[n]
       THEN LET hosts == Merge([h \in {c.of} |-> counter[n]], remotes[n])
            IN  /\ remotes' = [remotes EXCEPT ![n] = hosts]
                /\ call' = [Busy(c) EXCEPT ![c].todo = DOMAIN hosts, ![c].msg = hosts]
       ELSE call' = Answered(call, c, "ok", StateOf(n)) /\ UNCHANGED remotes
    /\ UNCHANGED <<roles, counter, lastslave, acts, hist>>

\* R_REGISTER: a master adds the caller and starts a HostUpdate.
HandleRegister(n, c) ==
    /\ c.kind = "register" /\ Taken(n, c)
    /\ queue' = Popped(n)
    /\ IF isMaster[n]
       THEN LET hosts == Merge(call[c].msg, remotes[n])
            IN  /\ remotes' = [remotes EXCEPT ![n] = hosts]
                /\ call' = [Busy(c) EXCEPT ![c].todo = DOMAIN hosts, ![c].msg = hosts]
       ELSE call' = Answered(call, c, "ok", StateOf(n)) /\ UNCHANGED remotes
    /\ UNCHANGED <<roles, counter, lastslave, acts, hist>>

\* R_SETINFO: SetHosts, whoever sent it.
HandleTell(n, c) ==
    /\ c.kind = "tell" /\ Taken(n, c)
    /\ queue' = Popped(n)
    /\ remotes' = [remotes EXCEPT ![n] = Merge(call[c].msg, @)]
    /\ call' = Answered(call, c, "ok",
                        [StateOf(n) EXCEPT !.hosts = IF isMaster[n] THEN remotes'[n]
                                                                    ELSE @])
    /\ UNCHANGED <<roles, counter, lastslave, acts, hist>>

-------------------------------------------------------------------------------
(* A handler goes on when the call it waits for is answered or cut.        *)

\* Mutant of Forwarded: the status of SendToMaster is not looked at.
ForwardedUnchecked(n, r) ==
    /\ Ask(r) \in DOMAIN call /\ call[Ask(r)].to = n
    /\ Waits(Ask(r), Forward(r)) /\ IsSettled(Forward(r))
    /\ call' = Answered(call, Ask(r), "ok", None)
    /\ UNCHANGED <<roles, tables, queue, acts, hist>>

Forwarded(n, r) ==
    /\ Ask(r) \in DOMAIN call /\ call[Ask(r)].to = n
    /\ Waits(Ask(r), Forward(r)) /\ IsSettled(Forward(r))
    /\ call' = Answered(call, Ask(r),
                        IF call[Forward(r)].conn = "ok" THEN "ok" ELSE "error", None)
    /\ UNCHANGED <<roles, tables, queue, acts, hist>>

\* A push that failed is the last one to that slave.
Pushed(n, r) ==
    \E c \in {Ask(r), Forward(r)} \cap DOMAIN call :
        /\ call[c].to = n
        /\ Waits(c, Push(r)) /\ IsSettled(Push(r))
        /\ lastslave' = [lastslave EXCEPT ![n] =
                            IF call[Push(r)].conn = "ok" THEN @ ELSE None]
        /\ call' = Forgotten([call EXCEPT ![c].sub = None], Push(r))
        /\ UNCHANGED <<roles, counter, remotes, queue, acts, hist>>

\* The action is done, or an exception of AddToCache, the last step of Commit,
\* makes an error of it.
Respond(n, r) ==
    \E c \in {Ask(r), Forward(r)} \cap DOMAIN call :
        /\ call[c].to = n /\ Waits(c, None)
        /\ \/ call' = Answered(call, c, "ok", None)
           \/ acts[r] = "master" /\ call' = Answered(call, c, "error", None)
        /\ UNCHANGED <<roles, tables, queue, acts, hist>>

\* HostUpdate: the next instance is told,
TellNext(n, c) ==
    /\ c.kind \in {"register", "rally"} /\ call[c].to = n /\ Waits(c, None)
    /\ \E h \in call[c].todo :
         /\ call' = Sent([call EXCEPT ![c].sub = Tell(c, h), ![c].todo = @ \ {h}],
                         Tell(c, h), h, call[c].msg)
         /\ queue' = Queued(queue, Tell(c, h), h)
    /\ UNCHANGED <<roles, tables, acts, hist>>

\* and its answer, parsed into the same message, is what the one after it is told.
Told(n, c) ==
    LET d == call[c].sub
    IN  /\ call[c].to = n /\ call[c].run = "busy"
        /\ d # None /\ d.kind = "tell" /\ IsSettled(d)
        /\ call' = Forgotten([call EXCEPT ![c].sub = None,
                       ![c].msg = IF call[d].conn = "ok" THEN call[d].reply.hosts
                                                         ELSE @], d)
        /\ UNCHANGED <<roles, tables, queue, acts, hist>>

TellDone(n, c) ==
    /\ c.kind \in {"register", "rally"}
    /\ call[c].to = n /\ Waits(c, None) /\ call[c].todo = {}
    /\ call' = Answered(call, c, "ok", IF c.kind = "register" THEN StateOf(n) ELSE None)
    /\ UNCHANGED <<roles, tables, queue, acts, hist>>

-------------------------------------------------------------------------------
(* Instances.                                                              *)

\* Mutant of StopAt: calls that wait for a thread outlive the process.
StopAtKeepsQueue(n) ==
    /\ phase' = [phase EXCEPT ![n] = "down"]
    /\ isMaster' = [isMaster EXCEPT ![n] = FALSE]
    /\ remotes' = [remotes EXCEPT ![n] = NoHosts]
    /\ lastslave' = [lastslave EXCEPT ![n] = None]
    /\ call' = [c \in DOMAIN call |->
                  IF call[c].to = n /\ call[c].run # "done"
                  THEN Answered(call, c, "cut", None)[c] ELSE call[c]]
    /\ UNCHANGED <<queue, master, counter, acts, applied, masters, started>>

\* The process ends: its handlers are gone, and the connections to it.
StopAt(n) ==
    /\ phase' = [phase EXCEPT ![n] = "down"]
    /\ isMaster' = [isMaster EXCEPT ![n] = FALSE]
    /\ remotes' = [remotes EXCEPT ![n] = NoHosts]
    /\ lastslave' = [lastslave EXCEPT ![n] = None]
    /\ queue' = [queue EXCEPT ![n] = <<>>]
    /\ call' = [c \in DOMAIN call |->
                  IF call[c].to = n /\ call[c].run # "done"
                  THEN Answered(call, c, "cut", None)[c] ELSE call[c]]
    /\ UNCHANGED <<master, counter, acts, applied, masters, started>>

Crash(n) ==
    /\ phase[n] # "down"
    /\ n \in Mortal \ crashed /\ crashed' = crashed \cup {n}
    /\ StopAt(n)

InSync(m, n) ==
    lastslave' = [lastslave EXCEPT ![m] = IF @ = None THEN n ELSE @]

\* Started with --master=m, an instance copies the log of m and registers.
StartSlave(n, m) ==
    /\ n \notin started /\ n # m /\ Serving(m)
    /\ started' = started \cup {n}
    /\ phase' = [phase EXCEPT ![n] = "joining"]
    /\ master' = [master EXCEPT ![n] = m]
    /\ counter' = [counter EXCEPT ![n] = counter[m]]
    /\ InSync(m, n)
    /\ call' = Sent(call, Register(n, 1), m, [h \in {n} |-> counter[m]])
    /\ queue' = Queued(queue, Register(n, 1), m)
    /\ UNCHANGED <<isMaster, remotes, acts, applied, masters, crashed>>

\* Mutant of Joined: whoever answers is taken for the master.
JoinedAnyone(n, k) ==
    /\ phase[n] = "joining"
    /\ Register(n, k) \in DOMAIN call /\ Register(n, k + 1) \notin DOMAIN call
    /\ call[Register(n, k)].conn = "ok"
    /\ phase' = [phase EXCEPT ![n] = "looping"]
    /\ UNCHANGED <<isMaster, master, tables, queue, call, acts, hist>>

\* R_REGISTER is answered: by the master, or by an instance that names its own,
\* at most twice; any other outcome ends the process.
Joined(n, k) ==
    LET c == Register(n, k)
        reply == call[c].reply
        isOk == call[c].conn = "ok" /\ k <= 2
    IN  /\ phase[n] = "joining"
        /\ c \in DOMAIN call /\ Register(n, k + 1) \notin DOMAIN call
        /\ IsSettled(c)
        /\ \/ /\ isOk /\ reply.isMaster
              /\ remotes' = [remotes EXCEPT ![n] = Merge(reply.hosts, @)]
              /\ phase' = [phase EXCEPT ![n] = "looping"]
              /\ call' = Forgotten(call, c)
              /\ UNCHANGED <<isMaster, master, counter, lastslave, queue, acts, hist>>
           \/ /\ isOk /\ ~reply.isMaster
              /\ master' = [master EXCEPT ![n] = reply.master]
              /\ call' = Sent(Forgotten(call, c), Register(n, k + 1), reply.master, Host(n))
              /\ queue' = Queued(queue, Register(n, k + 1), reply.master)
              /\ UNCHANGED <<phase, isMaster, tables, acts, hist>>
           \/ ~isOk /\ StopAt(n) /\ UNCHANGED crashed

Looping(n) ==
    /\ phase[n] = "looping"
    /\ Rally(n) \in DOMAIN call => call[Rally(n)].run = "done"

\* R_TRANSLOG is answered: the instance gets on, as far as the chunk or the next
\* hole in the log, or is found to be in sync.
Poll(n) ==
    LET m == master[n]
    IN  /\ Looping(n) /\ Serving(m)
        /\ \/ /\ \E k \in counter[n] + 1 .. counter[m] :
                   counter' = [counter EXCEPT ![n] = k]
              /\ UNCHANGED lastslave
           \/ /\ counter[n] = counter[m] /\ lastslave[m] = None
              /\ InSync(m, n)
              /\ UNCHANGED counter
        /\ UNCHANGED <<roles, remotes, queue, call, acts, hist>>

\* The polls of an instance fail: its master is gone, or each is cut by a timer.
PollsFail(n) == n \in Flaky \/ ~Serving(master[n])

\* The tenth failed poll: HostUpdate, on the thread of the loop.
LoseMaster(n) ==
    /\ Looping(n) /\ PollsFail(n) /\ Rally(n) \notin DOMAIN call
    /\ call' = Merge([c \in {Rally(n)} |->
                        [to |-> n, conn |-> "open", run |-> "busy", sub |-> None,
                         todo |-> DOMAIN remotes[n], msg |-> Host(n), reply |-> None]],
                     call)
    /\ UNCHANGED <<roles, tables, queue, acts, hist>>

\* The twentieth: MasterUpdate.  It elects this instance where the clocks of the
\* hosts agree (SyncServer says why).
Elect(n) ==
    /\ Looping(n) /\ PollsFail(n) /\ Rally(n) \in DOMAIN call
    /\ phase' = [phase EXCEPT ![n] = "serving"]
    /\ isMaster' = [isMaster EXCEPT ![n] = TRUE]
    /\ lastslave' = [lastslave EXCEPT ![n] = None]
    /\ masters' = masters \cup {n}
    /\ UNCHANGED <<master, counter, remotes, queue, call, acts, applied, started, crashed>>

\* An exception ends the loop; the servers are started and the instance serves.
LoopEnds(n) ==
    /\ Looping(n)
    /\ phase' = [phase EXCEPT ![n] = "serving"]
    /\ UNCHANGED <<isMaster, master, tables, queue, call, acts, hist>>

\* Mutant of Timeout: only connections of clients have a timer.
TimeoutClients(c) ==
    /\ call[c].conn = "open" /\ c.kind = "ask"
    /\ call' = [call EXCEPT ![c].conn = "cut"]
    /\ UNCHANGED <<roles, tables, queue, acts, hist>>

\* The content timer of a connection fires.
Timeout(c) ==
    /\ call[c].conn = "open" /\ c.kind # "rally"
    /\ call' = [call EXCEPT ![c].conn = "cut"]
    /\ UNCHANGED <<roles, tables, queue, acts, hist>>

-------------------------------------------------------------------------------
\* What the threads of an instance do.
Step(n) ==
    \/ \E r \in Reqs : \/ HandleAsk(n, r) \/ HandleForward(n, r) \/ HandlePush(n, r)
                       \/ Forwarded(n, r) \/ Pushed(n, r) \/ Respond(n, r)
    \/ \E c \in DOMAIN call : \/ HandleRegister(n, c) \/ HandleTell(n, c)
                             \/ TellNext(n, c) \/ Told(n, c) \/ TellDone(n, c)
    \/ \E k \in 1 .. 3 : Joined(n, k)

Timeouts == \E c \in DOMAIN call : Timeout(c)

Next ==
    \/ \E n \in Nodes :
         \/ \E r \in Reqs : ClientCalls(r, n)
         \/ Step(n)
         \/ Crash(n)
         \/ \E m \in Nodes : StartSlave(n, m)
         \/ Poll(n) \/ LoseMaster(n) \/ Elect(n) \/ LoopEnds(n)
    \/ Timeouts

Spec == Init /\ [][Next]_vars

\* As long as a thread can run or a timer can fire, something of the kind happens.
\* Nothing is assumed of clients, operators and the loops of slaves.
FairSpec == Spec /\ WF_vars((\E n \in Nodes : Step(n)) \/ Timeouts)

-------------------------------------------------------------------------------
IsHosts(f) == DOMAIN f \subseteq Nodes /\ \A h \in DOMAIN f : f[h] \in Nat

IsReply(a) ==
    /\ DOMAIN a = {"isMaster", "master", "hosts"}
    /\ a.isMaster \in BOOLEAN /\ a.master \in Nodes /\ IsHosts(a.hosts)

IsCall(c) ==
    /\ call[c].to \in Nodes
    /\ call[c].conn \in {"open", "ok", "error", "cut", "notfound"}
    /\ call[c].run \in {"queued", "busy", "done"}
    /\ call[c].sub = None \/ (call[c].run = "busy" /\ call[c].sub \in DOMAIN call)
    /\ call[c].todo \subseteq Nodes
    /\ IsHosts(call[c].msg)
    /\ call[c].reply # None => IsReply(call[c].reply)

\* The types of the variables.  A handler waits for a call that was sent, and a
\* call is in the queue of the instance it was sent to, once, exactly while it
\* has no thread.
TypeOK ==
    /\ phase \in [Nodes -> Phases]
    /\ isMaster \in [Nodes -> BOOLEAN] /\ master \in [Nodes -> Nodes]
    /\ counter \in [Nodes -> Nat]
    /\ DOMAIN remotes = Nodes /\ \A n \in Nodes : IsHosts(remotes[n])
    /\ lastslave \in [Nodes -> Nodes \cup {None}]
    /\ \A c \in DOMAIN call : IsCall(c)
    /\ DOMAIN queue = Nodes
    /\ \A n \in Nodes :
         /\ IsInjective(queue[n])
         /\ Range(queue[n]) = {c \in DOMAIN call :
                                 call[c].to = n /\ call[c].run = "queued"}
    /\ acts \in [Reqs -> {"none", "nothing", "here", "master"}]
    /\ applied \in [Reqs -> Nat]
    /\ masters \subseteq Nodes /\ started \subseteq Nodes /\ crashed \subseteq Mortal

\* The table of an instance says nothing about another that was never true: a
\* counter in it is one that instance has had, though most of what arrives was
\* sent on by others, and HostUpdate sends on whatever the last one answered.
TablesAreTrue ==
    \A n \in Nodes : \A h \in DOMAIN remotes[n] : remotes[n][h] <= counter[h]

\* An instance that has joined, or come to serve, forwards its writes to one
\* that is or was a master, whoever it was pointed at when it was started.
FollowsAMaster ==
    \A n \in Nodes : phase[n] \in {"looping", "serving"} => master[n] \in masters

\* Every endpoint is found by the calls that the help text describes ("GET
\* .../requestToken?{params}").
DocumentedCallIsFound ==
    \A r \in Reqs : Ask(r) \in DOMAIN call => call[Ask(r)].conn # "notfound"

\* What a client knows of its call.
Outcome(r) ==
    IF Ask(r) \notin DOMAIN call THEN "idle"
    ELSE CASE call[Ask(r)].conn = "open" -> "asked"
           [] call[Ask(r)].conn = "ok" -> "ok"
           [] call[Ask(r)].conn = "notfound" -> "refused"
           [] call[Ask(r)].conn = "cut" -> "lost"
           [] call[Ask(r)].conn = "error" ->
                IF Forward(r) \in DOMAIN call /\ call[Forward(r)].conn = "cut"
                THEN "lost" ELSE "failed"

\* Whichever instance is asked, and whatever is cut, fails, crashes or changes its
\* role on the way, a client's call takes effect at most once, an ok means that it
\* has, and after an error it will not any more, unless the error is that of a
\* forward whose connection was lost.
Abstract == INSTANCE ClientCalls WITH
    state  <- [r \in Reqs |-> Outcome(r)],
    effect <- applied
ImplementsClientCalls == Abstract!Spec

-------------------------------------------------------------------------------
(* What the safety properties rest on: the parts of an inductive invariant. *)

\* The shape of the variables the other parts speak of.
Shape ==
    /\ DOMAIN call \subseteq Calls
    /\ \A c \in DOMAIN call :
         DOMAIN call[c] = {"to", "conn", "run", "sub", "todo", "msg", "reply"}
    /\ queue \in [Nodes -> Seq(Calls)]
    /\ phase \in [Nodes -> Phases] /\ isMaster \in [Nodes -> BOOLEAN]
    /\ master \in [Nodes -> Nodes] /\ DOMAIN remotes = Nodes
    /\ counter \in [Nodes -> Nat \ {0}]
    /\ \A n \in Nodes \ started : counter[n] = 1
    /\ started \subseteq Nodes
    /\ \A n \in Nodes : isMaster[n] \/ phase[n] # "down" => n \in started
    /\ applied \in [Reqs -> {0, 1}]

\* A client's call, a forward and a registration wait for a thread of the instance
\* they were sent to, once.
Single(c) == c.kind \in {"ask", "forward", "register"}
QueuedOnce ==
    \A n \in Nodes : \A i \in 1 .. Len(queue[n]) :
        LET c == queue[n][i]
        IN  Single(c) => /\ c \in DOMAIN call
                         /\ call[c].to = n /\ call[c].run = "queued"
                         /\ \A j \in 1 .. Len(queue[n]) : j # i => queue[n][j] # c

\* How far a client's call has come, and whether its action is done.
AskIsTrue(r) ==
    IF Ask(r) \notin DOMAIN call
    THEN Forward(r) \notin DOMAIN call /\ applied[r] = 0
    ELSE LET a == call[Ask(r)]
             forwarded == Forward(r) \in DOMAIN call
         IN  \/ /\ a.run = "queued" /\ a.conn \in {"open", "cut"}
                /\ a.sub = None /\ ~forwarded /\ applied[r] = 0
             \/ /\ a.run = "busy" /\ a.conn \in {"open", "cut"}
                /\ IF forwarded THEN a.sub = Forward(r)
                   ELSE a.sub \in {None, Push(r)} /\ applied[r] = 1
             \/ /\ a.run = "done"
                /\ \/ a.conn = "cut"
                   \/ a.conn = "ok" /\ applied[r] = 1
                   \/ a.conn = "notfound" /\ ~forwarded /\ applied[r] = 0
                   \/ /\ a.conn = "error"
                      /\ forwarded => call[Forward(r)].conn \in {"error", "cut"}

\* The same of a forward.
ForwardIsTrue(r) ==
    Forward(r) \in DOMAIN call =>
      LET f == call[Forward(r)]
      IN  \/ /\ f.run = "queued" /\ f.conn \in {"open", "cut"}
             /\ f.sub = None /\ applied[r] = 0
          \/ /\ f.run = "busy" /\ f.conn \in {"open", "cut"} /\ applied[r] = 1
             /\ f.sub \in {None, Push(r)}
          \/ /\ f.run = "done"
             /\ \/ f.conn = "cut"
                \/ f.conn = "ok" /\ applied[r] = 1
                \/ f.conn = "error"

\* A registration is sent to the instance the caller takes for the master, and
\* answered as by a master only by one.
RegistrationsAreTrue ==
    /\ \A n \in Nodes : isMaster[n] => n \in masters
    /\ \A c \in DOMAIN call : c.kind = "register" =>
         /\ c.of \in started
         /\ phase[c.of] = "joining" => call[c].to = master[c.of]
         /\ call[c].conn = "ok" =>
              /\ call[c].run = "done" /\ call[c].reply.master \in Nodes
              /\ call[c].reply.isMaster => call[c].to \in masters
         /\ \A d \in DOMAIN call : d.kind = "register" /\ d.of = c.of => d = c

\* What calls and answers say about instances was once true.
HostsAreTrue(f) ==
    \A h \in DOMAIN f : h \in Nodes /\ f[h] \in Nat /\ f[h] <= counter[h]
MessagesAreTrue ==
    /\ \A n \in Nodes : HostsAreTrue(remotes[n])
    /\ \A c \in DOMAIN call :
         /\ HostsAreTrue(call[c].msg) /\ call[c].todo \subseteq Nodes
         /\ c.kind \in {"register", "tell"} /\ call[c].conn = "ok" =>
              HostsAreTrue(call[c].reply.hosts)

IInv == /\ Shape /\ QueuedOnce /\ RegistrationsAreTrue /\ FollowsAMaster
        /\ MessagesAreTrue /\ \A r \in Reqs : AskIsTrue(r) /\ ForwardIsTrue(r)

\* TypeOK needs that no name is used again while its call is there, which would
\* replace it in its queue.  The calls a handler waits for are named after its own,
Owns(c, d) ==
    \/ c.kind = "ask" /\ d \in {Forward(c.of), Push(c.of)}
    \/ c.kind = "forward" /\ d = Push(c.of)
    \/ c.kind \in {"register", "rally"} /\ \E h \in Nodes : d = Tell(c, h)
SubsAreOwn ==
    \A c \in DOMAIN call : call[c].sub # None => Owns(c, call[c].sub)

\* the action of a client's call, which is done once, makes its push,
PushesAreNew == \A r \in Reqs : Push(r) \in DOMAIN call => applied[r] = 1

\* and whoever was told by a HostUpdate is not among those it has still to tell,
\* also when it was that of an earlier registration.
TellsAreNew ==
    /\ \A c \in DOMAIN call : /\ c.kind = "register" => c.nth > 0
                              /\ c.kind = "rally" => c.nth = 0
    /\ \A d \in DOMAIN call : d.kind = "tell" =>
         /\ d.nth = 0 => Rally(d.of) \in DOMAIN call
         /\ d.nth # 0 => d.of \in started
         /\ \A c \in DOMAIN call : c.kind \in {"register", "rally"} /\ c.of = d.of =>
              /\ c.kind = "register" => d.nth <= c.nth
              /\ c.nth = d.nth => call[c].run # "queued" /\ d.to \notin call[c].todo

NamesInv == IInv /\ TypeOK /\ SubsAreOwn /\ PushesAreNew /\ TellsAreNew

-------------------------------------------------------------------------------
Occupied(n) ==
    \/ phase[n] = "joining"
    \/ \E c \in DOMAIN call : call[c].to = n /\ call[c].run # "done"

\* The instances come to the end of what they were asked, and of their
\* registrations, although threads wait for calls to instances whose threads wait
\* for calls: the content timers untie them.  (There are finitely many calls, and
\* an instance is not kept busy by new ones for ever.)
NothingHangs ==
    (\E n \in Nodes : Occupied(n)) ~> (\A n \in Nodes : ~Occupied(n))

===============================================================================
