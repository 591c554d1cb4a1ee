---------------------------- MODULE ClusterProofs ----------------------------
(***************************************************************************)
(* Proofs about Cluster, for any number of instances, threads and clients: *)
(* the instances together keep what ClientCalls promises, tables say only  *)
(* what was true, and every instance follows one that is or was a master;  *)
(* and names of calls are not used again while their calls are there.      *)
(***************************************************************************)
EXTENDS Cluster, TLAPS

Fields == {"to", "conn", "run", "sub", "todo", "msg", "reply"}

-------------------------------------------------------------------------------
(* What the operators on calls do.                                         *)

LEMMA NewCallIs ==
    ASSUME NEW n, NEW hosts
    PROVE  /\ DOMAIN NewCall(n, hosts) = Fields
           /\ NewCall(n, hosts).to = n /\ NewCall(n, hosts).sub = None
           /\ NewCall(n, hosts).todo = {} /\ NewCall(n, hosts).msg = hosts
           /\ IF Serving(n)
              THEN NewCall(n, hosts).conn = "open" /\ NewCall(n, hosts).run = "queued"
              ELSE NewCall(n, hosts).conn = "error" /\ NewCall(n, hosts).run = "done"
BY DEF NewCall, Fields

LEMMA AnsweredIs ==
    ASSUME NEW cs, NEW c, NEW v, NEW reply,
           c \in DOMAIN cs, DOMAIN cs[c] = Fields
    PROVE  LET a == Answered(cs, c, v, reply)
           IN  /\ DOMAIN a = DOMAIN cs /\ DOMAIN a[c] = Fields
               /\ \A d \in DOMAIN cs : d # c => a[d] = cs[d]
               /\ a[c].to = cs[c].to /\ a[c].run = "done"
               /\ a[c].todo = {} /\ a[c].msg = NoHosts
               /\ a[c].conn = IF cs[c].conn = "open" THEN v ELSE cs[c].conn
               /\ a[c].reply = IF cs[c].conn = "open" THEN reply ELSE cs[c].reply
BY DEF Answered, Fields

LEMMA BusyIs ==
    ASSUME NEW c, c \in DOMAIN call, DOMAIN call[c] = Fields
    PROVE  /\ DOMAIN Busy(c) = DOMAIN call /\ DOMAIN Busy(c)[c] = Fields
           /\ \A d \in DOMAIN call : d # c => Busy(c)[d] = call[d]
           /\ Busy(c)[c].run = "busy"
           /\ \A x \in Fields \ {"run"} : Busy(c)[c][x] = call[c][x]
BY DEF Busy, Fields

-------------------------------------------------------------------------------
(* Queues.  QueuedOnce, of the queues q and the calls cs.                  *)

QueueIn(q, cs) ==
    \A n \in Nodes : \A i \in 1 .. Len(q[n]) :
        Single(q[n][i]) => /\ q[n][i] \in DOMAIN cs
                           /\ cs[q[n][i]].to = n /\ cs[q[n][i]].run = "queued"
                           /\ \A j \in 1 .. Len(q[n]) : j # i => q[n][j] # q[n][i]

\* The calls ds keep the single ones of cs that wait for a thread, but for c.
Keeps(cs, ds, c) ==
    \A d \in DOMAIN cs : Single(d) /\ cs[d].run = "queued" /\ d # c =>
        d \in DOMAIN ds /\ ds[d].to = cs[d].to /\ ds[d].run = "queued"

LEMMA QueueStays ==
    ASSUME NEW q, NEW cs, NEW ds, QueueIn(q, cs), NEW c, Keeps(cs, ds, c),
           c \in DOMAIN cs => (Single(c) => cs[c].run # "queued")
    PROVE  QueueIn(q, ds)
BY DEF QueueIn, Keeps

LEMMA QueueIsPopped ==
    ASSUME NEW q \in [Nodes -> Seq(Calls)], NEW cs, NEW ds, QueueIn(q, cs),
           NEW n \in Nodes, q[n] # <<>>, Keeps(cs, ds, Head(q[n]))
    PROVE  /\ QueueIn([q EXCEPT ![n] = Tail(@)], ds)
           /\ [q EXCEPT ![n] = Tail(@)] \in [Nodes -> Seq(Calls)]
<1> DEFINE p == [q EXCEPT ![n] = Tail(@)]
<1>1. /\ Tail(q[n]) \in Seq(Calls) /\ Len(q[n]) \in Nat /\ Len(q[n]) > 0
      /\ Len(Tail(q[n])) = Len(q[n]) - 1
      /\ \A i \in 1 .. Len(q[n]) - 1 : Tail(q[n])[i] = q[n][i + 1]
      /\ Head(q[n]) = q[n][1]
    OBVIOUS
<1>2. p \in [Nodes -> Seq(Calls)]
    BY <1>1
<1>3. p[n] = Tail(q[n]) /\ \A m \in Nodes : m # n => p[m] = q[m]
    OBVIOUS
<1> HIDE DEF p
<1>4. ASSUME NEW i \in 1 .. Len(p[n]), Single(p[n][i])
      PROVE  /\ p[n][i] \in DOMAIN ds
             /\ ds[p[n][i]].to = n /\ ds[p[n][i]].run = "queued"
             /\ \A j \in 1 .. Len(p[n]) : j # i => p[n][j] # p[n][i]
    <2>1. i + 1 \in 1 .. Len(q[n]) /\ p[n][i] = q[n][i + 1] /\ 1 \in 1 .. Len(q[n]) /\ i + 1 # 1
        BY <1>1, <1>3
    <2>2. \A j \in 1 .. Len(p[n]) : j + 1 \in 1 .. Len(q[n]) /\ p[n][j] = q[n][j + 1]
        BY <1>1, <1>3
    <2>3. /\ q[n][i + 1] \in DOMAIN cs
          /\ cs[q[n][i + 1]].to = n /\ cs[q[n][i + 1]].run = "queued"
          /\ \A j \in 1 .. Len(q[n]) : j # i + 1 => q[n][j] # q[n][i + 1]
        BY <1>4, <2>1 DEF QueueIn
    <2>4. q[n][i + 1] # Head(q[n])
        BY <1>1, <2>1, <2>3
    <2>5. \A j \in 1 .. Len(p[n]) : j # i => j + 1 # i + 1
        OBVIOUS
    <2> QED BY <1>4, <2>1, <2>2, <2>3, <2>4, <2>5 DEF Keeps
<1>5. ASSUME NEW m \in Nodes, m # n, NEW i \in 1 .. Len(q[m]), Single(q[m][i])
      PROVE  /\ q[m][i] \in DOMAIN ds
             /\ ds[q[m][i]].to = m /\ ds[q[m][i]].run = "queued"
             /\ \A j \in 1 .. Len(q[m]) : j # i => q[m][j] # q[m][i]
    <2>1. /\ q[m][i] \in DOMAIN cs /\ cs[q[m][i]].to = m /\ cs[q[m][i]].run = "queued"
          /\ \A j \in 1 .. Len(q[m]) : j # i => q[m][j] # q[m][i]
        BY <1>5 DEF QueueIn
    <2>2. q[m][i] # Head(q[n])
        BY <1>1, <1>5, <2>1 DEF QueueIn
    <2> QED BY <1>5, <2>1, <2>2 DEF Keeps
<1>6. QueueIn(p, ds)
    <2> SUFFICES ASSUME NEW m \in Nodes, NEW i \in 1 .. Len(p[m]), Single(p[m][i])
                 PROVE  /\ p[m][i] \in DOMAIN ds
                        /\ ds[p[m][i]].to = m /\ ds[p[m][i]].run = "queued"
                        /\ \A j \in 1 .. Len(p[m]) : j # i => p[m][j] # p[m][i]
        BY DEF QueueIn
    <2>1. CASE m = n
        BY <1>4, <2>1
    <2>2. CASE m # n
        <3>1. p[m] = q[m]
            BY <1>3, <2>2
        <3>2. i \in 1 .. Len(q[m]) /\ Single(q[m][i])
            BY <3>1
        <3> QED BY <1>5, <2>2, <3>1, <3>2
    <2> QED BY <2>1, <2>2
<1> QED BY <1>2, <1>6 DEF p

LEMMA QueueIsLonger ==
    ASSUME NEW q \in [Nodes -> Seq(Calls)], NEW cs, NEW ds, NEW m, NEW c \in Calls, NEW p,
           QueueIn(q, cs), Keeps(cs, ds, c),
           Single(c) => (/\ c \notin DOMAIN cs /\ c \in DOMAIN ds
                         /\ ds[c].to = m /\ ds[c].run = "queued"),
           m \in Nodes => p[m] = Append(q[m], c),
           \A n \in Nodes : n # m => p[n] = q[n]
    PROVE  QueueIn(p, ds)
<1>2. m \in Nodes => /\ p[m] = Append(q[m], c) /\ Len(q[m]) \in Nat
                     /\ Len(Append(q[m], c)) = Len(q[m]) + 1
                     /\ \A i \in 1 .. Len(q[m]) : Append(q[m], c)[i] = q[m][i]
                     /\ Append(q[m], c)[Len(q[m]) + 1] = c
    OBVIOUS
<1>4. ASSUME NEW n \in Nodes, NEW i \in 1 .. Len(q[n]), Single(q[n][i])
      PROVE  /\ q[n][i] \in DOMAIN ds /\ q[n][i] # c
             /\ ds[q[n][i]].to = n /\ ds[q[n][i]].run = "queued"
             /\ \A j \in 1 .. Len(q[n]) : j # i => q[n][j] # q[n][i]
    <2>1. /\ q[n][i] \in DOMAIN cs /\ cs[q[n][i]].to = n /\ cs[q[n][i]].run = "queued"
          /\ \A j \in 1 .. Len(q[n]) : j # i => q[n][j] # q[n][i]
        BY <1>4 DEF QueueIn
    <2> QED BY <1>4, <2>1 DEF Keeps
<1>5. ASSUME m \in Nodes, NEW i \in 1 .. Len(p[m]), Single(p[m][i])
      PROVE  /\ p[m][i] \in DOMAIN ds
             /\ ds[p[m][i]].to = m /\ ds[p[m][i]].run = "queued"
             /\ \A j \in 1 .. Len(p[m]) : j # i => p[m][j] # p[m][i]
    <2>1. CASE i = Len(q[m]) + 1
        <3>1. p[m][i] = c
            BY <1>2, <1>5, <2>1
        <3>2. \A j \in 1 .. Len(p[m]) : j # i => j \in 1 .. Len(q[m]) /\ p[m][j] = q[m][j]
            BY <1>2, <1>5, <2>1
        <3>3. \A j \in 1 .. Len(q[m]) : q[m][j] # c
            BY <1>4, <1>5, <3>1
        <3> QED BY <1>5, <3>1, <3>2, <3>3
    <2>2. CASE i # Len(q[m]) + 1
        <3>1. i \in 1 .. Len(q[m]) /\ p[m][i] = q[m][i]
            BY <1>2, <1>5, <2>2
        <3>2. \A j \in 1 .. Len(p[m]) :
                \/ j \in 1 .. Len(q[m]) /\ p[m][j] = q[m][j]
                \/ p[m][j] = c
            BY <1>2, <1>5
        <3> QED BY <1>4, <1>5, <3>1, <3>2
    <2> QED BY <2>1, <2>2
<1>6. QueueIn(p, ds)
    BY <1>4, <1>5 DEF QueueIn
<1> QED BY <1>6

-------------------------------------------------------------------------------
(* What a step leaves alone.                                               *)

\* The step changes, sends or forgets only calls of S.
Touches(S) ==
    \A d : d \notin S => /\ d \in DOMAIN call' <=> d \in DOMAIN call
                         /\ d \in DOMAIN call => call'[d] = call[d]

\* What it makes of one of them says nothing false,
TrueThen(f) ==
    \A h \in DOMAIN f : h \in Nodes /\ f[h] \in Nat /\ f[h] <= counter'[h]
SaysTrue(c) ==
    /\ DOMAIN call'[c] = Fields
    /\ TrueThen(call'[c].msg) /\ call'[c].todo \subseteq Nodes
    /\ c.kind \in {"register", "tell"} /\ call'[c].conn = "ok" =>
         TrueThen(call'[c].reply.hosts)

LEMMA TrueStays ==
    ASSUME counter \in [Nodes -> Nat \ {0}], counter' \in [Nodes -> Nat \ {0}],
           \A n \in Nodes : counter[n] <= counter'[n], NEW f, HostsAreTrue(f)
    PROVE  TrueThen(f)
<1> SUFFICES ASSUME NEW h \in DOMAIN f
             PROVE  h \in Nodes /\ f[h] \in Nat /\ f[h] <= counter'[h]
    BY DEF TrueThen
<1>1. h \in Nodes /\ f[h] \in Nat /\ f[h] <= counter[h]
    BY DEF HostsAreTrue
<1>2. counter[h] \in Nat /\ counter'[h] \in Nat /\ counter[h] <= counter'[h]
    BY <1>1
<1> QED BY <1>1, <1>2

\* and if it is a registration, it is one that was there, and answered as by a
\* master only by one.
RegistersTrue(c) ==
    c.kind = "register" =>
      /\ c \in DOMAIN call /\ call'[c].to = call[c].to
      /\ call'[c].conn = "ok" =>
           \/ /\ call[c].conn = "ok" /\ call'[c].run = call[c].run
              /\ call'[c].reply = call[c].reply
           \/ /\ call'[c].run = "done" /\ call'[c].reply.master \in Nodes
              /\ call'[c].reply.isMaster => call[c].to \in masters

LEMMA RegistrationsStay ==
    ASSUME RegistrationsAreTrue, FollowsAMaster, NEW S, Touches(S),
           UNCHANGED <<roles, masters, started>>,
           \A c \in S \cap DOMAIN call' : RegistersTrue(c)
    PROVE  RegistrationsAreTrue' /\ FollowsAMaster'
<1>1. FollowsAMaster'
    BY DEF FollowsAMaster, roles
<1>2. \A c \in DOMAIN call' : RegistersTrue(c)
    <2> SUFFICES ASSUME NEW c \in DOMAIN call', c \notin S PROVE RegistersTrue(c)
        OBVIOUS
    <2>1. c \in DOMAIN call /\ call'[c] = call[c]
        BY DEF Touches
    <2> QED BY <2>1 DEF RegistersTrue
<1>3. RegistrationsAreTrue'
    BY <1>2 DEF RegistrationsAreTrue, RegistersTrue, roles
<1> QED BY <1>1, <1>3

\* The client's call of r and its forward are as they were.
LEMMA ClientStays ==
    ASSUME NEW r \in Reqs, NEW S, Touches(S), Ask(r) \notin S, Forward(r) \notin S,
           applied'[r] = applied[r]
    PROVE  /\ AskIsTrue(r) => AskIsTrue(r)'
           /\ ForwardIsTrue(r) => ForwardIsTrue(r)'
           /\ Outcome(r)' = Outcome(r)
<1>1. /\ Ask(r) \in DOMAIN call' <=> Ask(r) \in DOMAIN call
      /\ Ask(r) \in DOMAIN call => call'[Ask(r)] = call[Ask(r)]
      /\ Forward(r) \in DOMAIN call' <=> Forward(r) \in DOMAIN call
      /\ Forward(r) \in DOMAIN call => call'[Forward(r)] = call[Forward(r)]
    BY DEF Touches
<1>2. AskIsTrue(r) => AskIsTrue(r)'
    BY <1>1 DEF AskIsTrue
<1>3. ForwardIsTrue(r) => ForwardIsTrue(r)'
    BY <1>1 DEF ForwardIsTrue
<1>4. Outcome(r)' = Outcome(r)
    <2>1. CASE Ask(r) \notin DOMAIN call
        BY <1>1, <2>1 DEF Outcome
    <2>2. CASE Ask(r) \in DOMAIN call
        <3> DEFINE a == call[Ask(r)]
                   f == Forward(r) \in DOMAIN call /\ call[Forward(r)].conn = "cut"
                   Of(conn, lost) == CASE conn = "open" -> "asked"
                                       [] conn = "ok" -> "ok"
                                       [] conn = "notfound" -> "refused"
                                       [] conn = "cut" -> "lost"
                                       [] conn = "error" -> IF lost THEN "lost" ELSE "failed"
        <3>1. Outcome(r) = Of(call[Ask(r)].conn, f)
            BY <2>2 DEF Outcome
        <3>2. Outcome(r)' = Of(call'[Ask(r)].conn, f')
            BY <1>1, <2>2 DEF Outcome
        <3>3. f' = f
            BY <1>1
        <3> HIDE DEF Of, f
        <3> QED BY <1>1, <2>2, <3>1, <3>2, <3>3
    <2> QED BY <2>1, <2>2
<1> QED BY <1>2, <1>3, <1>4

\* With what the step makes of S, the counters, the tables and the queues, that is
\* all there is to show.
LEMMA Frame ==
    ASSUME IInv, NEW S, S \subseteq Calls, Touches(S),
           phase' \in [Nodes -> Phases], isMaster' \in [Nodes -> BOOLEAN],
           master' \in [Nodes -> Nodes], started' \subseteq Nodes,
           \A n \in Nodes : isMaster'[n] \/ phase'[n] # "down" => n \in started',
           counter' \in [Nodes -> Nat \ {0}],
           \A n \in Nodes : counter[n] <= counter'[n],
           \A n \in Nodes \ started' : counter'[n] = 1,
           DOMAIN remotes' = Nodes, \A n \in Nodes : TrueThen(remotes'[n]),
           queue' \in [Nodes -> Seq(Calls)], QueueIn(queue', call'),
           applied' \in [Reqs -> {0, 1}],
           RegistrationsAreTrue', FollowsAMaster',
           \A c \in S \cap DOMAIN call' : SaysTrue(c),
           \A r \in Reqs : Ask(r) \in S \/ Forward(r) \in S \/ applied'[r] # applied[r]
                             => AskIsTrue(r)' /\ ForwardIsTrue(r)'
    PROVE  IInv'
<1>1. \A f : HostsAreTrue(f) => TrueThen(f)
    BY TrueStays DEF IInv, Shape
<1>2. \A c \in DOMAIN call' :
        /\ c \in Calls /\ SaysTrue(c)
    <2> SUFFICES ASSUME NEW c \in DOMAIN call', c \notin S PROVE c \in Calls /\ SaysTrue(c)
        OBVIOUS
    <2>1. c \in DOMAIN call /\ call'[c] = call[c]
        BY DEF Touches
    <2>2. /\ DOMAIN call[c] = Fields /\ HostsAreTrue(call[c].msg) /\ call[c].todo \subseteq Nodes
          /\ c.kind \in {"register", "tell"} /\ call[c].conn = "ok" =>
               HostsAreTrue(call[c].reply.hosts)
          /\ c \in Calls
        BY <2>1 DEF IInv, Shape, MessagesAreTrue, Fields
    <2> QED BY <1>1, <2>1, <2>2 DEF SaysTrue
<1>3. Shape'
    BY <1>2 DEF Shape, SaysTrue, Fields
<1>4. QueuedOnce'
    BY DEF QueuedOnce, QueueIn
<1>5. MessagesAreTrue'
    BY <1>2 DEF MessagesAreTrue, SaysTrue, HostsAreTrue, TrueThen
<1>6. ASSUME NEW r \in Reqs PROVE AskIsTrue(r)' /\ ForwardIsTrue(r)'
    BY ClientStays DEF IInv
<1> QED BY <1>3, <1>4, <1>5, <1>6 DEF IInv

-------------------------------------------------------------------------------
(* What a step may do to what ClientCalls speaks of.                       *)

Promise(r) ==
    \/ Outcome(r)' = Outcome(r) /\ applied'[r] = applied[r]
    \/ /\ Outcome(r) \in {"asked", "lost"} /\ applied[r] = 0
       /\ applied'[r] = 1 /\ Outcome(r)' = Outcome(r)
    \/ /\ applied'[r] = applied[r]
       /\ \/ Outcome(r) = "idle" /\ Outcome(r)' = "asked"
          \/ Outcome(r) = "asked" /\ applied[r] = 1 /\ Outcome(r)' = "ok"
          \/ Outcome(r) = "idle" /\ Outcome(r)' = "refused"
          \/ Outcome(r) = "asked" /\ Outcome(r)' = "lost"
    \/ /\ Outcome(r) = "asked" /\ Outcome(r)' = "failed"
       /\ applied'[r] \in {applied[r], 1}

Promised == [Abstract!Next]_(Abstract!vars)

\* A step by the call of one client.
LEMMA OneIsPromised ==
    ASSUME NEW r \in Reqs, Promise(r),
           applied \in [Reqs -> {0, 1}], applied' \in [Reqs -> {0, 1}],
           \A q \in Reqs : q # r => Outcome(q)' = Outcome(q) /\ applied'[q] = applied[q]
    PROVE  Promised
<1> DEFINE state == [q \in Reqs |-> Outcome(q)]
<1>1. state' = [state EXCEPT ![r] = Outcome(r)']
    OBVIOUS
<1>2. applied' = [applied EXCEPT ![r] = applied'[r]]
    OBVIOUS
<1>3. state[r] = Outcome(r)
    OBVIOUS
<1>4. state \in [Reqs -> {state[q] : q \in Reqs}]
    OBVIOUS
<1>5. CASE Outcome(r)' = Outcome(r) /\ applied'[r] = applied[r]
    BY <1>1, <1>2, <1>3, <1>5 DEF Promised, Abstract!vars
<1>6. CASE /\ Outcome(r) \in {"asked", "lost"} /\ applied[r] = 0
           /\ applied'[r] = 1 /\ Outcome(r)' = Outcome(r)
    <2>1. Abstract!TakeEffect(r)
        BY <1>1, <1>2, <1>3, <1>6 DEF Abstract!TakeEffect
    <2> QED BY <2>1 DEF Promised, Abstract!Next
<1>7. CASE applied'[r] = applied[r] /\ Outcome(r) = "idle" /\ Outcome(r)' = "asked"
    <2>1. Abstract!Ask(r)
        BY <1>1, <1>2, <1>3, <1>7 DEF Abstract!Ask, Abstract!Become
    <2> QED BY <2>1 DEF Promised, Abstract!Next
<1>8. CASE /\ applied'[r] = applied[r] /\ Outcome(r) = "asked" /\ applied[r] = 1
           /\ Outcome(r)' = "ok"
    <2>1. Abstract!AnswerOk(r)
        BY <1>1, <1>2, <1>3, <1>8 DEF Abstract!AnswerOk, Abstract!Become
    <2> QED BY <2>1 DEF Promised, Abstract!Next
<1>9. CASE applied'[r] = applied[r] /\ Outcome(r) = "idle" /\ Outcome(r)' = "refused"
    <2>1. Abstract!Refuse(r)
        BY <1>1, <1>2, <1>3, <1>9 DEF Abstract!Refuse, Abstract!Become
    <2> QED BY <2>1 DEF Promised, Abstract!Next
<1>10. CASE applied'[r] = applied[r] /\ Outcome(r) = "asked" /\ Outcome(r)' = "lost"
    <2>1. Abstract!Lose({r})
        BY <1>1, <1>2, <1>3, <1>10 DEF Abstract!Lose
    <2> QED BY <2>1 DEF Promised, Abstract!Next
<1>11. CASE /\ Outcome(r) = "asked" /\ Outcome(r)' = "failed"
            /\ applied'[r] \in {applied[r], 1}
    <2>1. applied' \in {applied, [applied EXCEPT ![r] = 1]}
        BY <1>2, <1>11
    <2>2. Abstract!Fail(r)
        BY <1>1, <1>3, <1>11, <2>1 DEF Abstract!Fail
    <2> QED BY <2>2 DEF Promised, Abstract!Next
<1> QED BY <1>5, <1>6, <1>7, <1>8, <1>9, <1>10, <1>11 DEF Promise

\* A step that loses calls, or does nothing to any.
LEMMA LossIsPromised ==
    ASSUME applied' = applied,
           \A q \in Reqs : \/ Outcome(q)' = Outcome(q)
                           \/ Outcome(q) = "asked" /\ Outcome(q)' = "lost"
    PROVE  Promised
<1> DEFINE state == [q \in Reqs |-> Outcome(q)]
           lost == {q \in Reqs : Outcome(q) = "asked" /\ Outcome(q)' = "lost"}
<1>1. \A q \in lost : state[q] = "asked"
    OBVIOUS
<1>2. state' = [q \in Reqs |-> IF q \in lost THEN "lost" ELSE state[q]]
    OBVIOUS
<1>3. lost \in SUBSET Reqs
    OBVIOUS
<1> HIDE DEF lost
<1>4. Abstract!Lose(lost)
    BY <1>1, <1>2 DEF Abstract!Lose
<1> QED BY <1>3, <1>4 DEF Promised, Abstract!Next

LEMMA FrameIsPromised ==
    ASSUME IInv, NEW S, Touches(S), applied' = applied,
           \A q \in Reqs : Ask(q) \notin S /\ Forward(q) \notin S
    PROVE  Promised
<1>1. \A q \in Reqs : Outcome(q)' = Outcome(q)
    BY ClientStays
<1> QED BY <1>1, LossIsPromised

-------------------------------------------------------------------------------
(* The names of calls.                                                     *)

LEMMA Names ==
    /\ \A r \in Reqs : /\ {Ask(r), Forward(r), Push(r)} \subseteq Calls
                       /\ Ask(r).kind = "ask" /\ Forward(r).kind = "forward"
                       /\ Push(r).kind = "push"
                       /\ Single(Ask(r)) /\ Single(Forward(r)) /\ ~Single(Push(r))
    /\ \A r, q \in Reqs : /\ Ask(r) = Ask(q) => r = q
                          /\ Forward(r) = Forward(q) => r = q
BY DEF Ask, Forward, Push, Calls, Single

-------------------------------------------------------------------------------
(* Steps of handlers, as far as calls and queues go.                       *)

LEMMA TakenIs ==
    ASSUME IInv, NEW n \in Nodes, NEW c, Taken(n, c)
    PROVE  /\ c \in Calls
           /\ Single(c) => c \in DOMAIN call /\ call[c].to = n /\ call[c].run = "queued"
           /\ c \in DOMAIN call => DOMAIN call[c] = Fields
<1>1. queue[n] \in Seq(Calls) /\ queue[n] # <<>> /\ c = Head(queue[n])
    BY DEF IInv, Shape, Taken
<1>2. 1 \in 1 .. Len(queue[n]) /\ c = queue[n][1]
    BY <1>1
<1>3. c \in Calls
    BY <1>1
<1>4. Single(c) => c \in DOMAIN call /\ call[c].to = n /\ call[c].run = "queued"
    BY <1>2 DEF IInv, QueuedOnce
<1>5. c \in DOMAIN call => DOMAIN call[c] = Fields
    BY DEF IInv, Shape, Fields
<1> QED BY <1>3, <1>4, <1>5

LEMMA AnswerPops ==
    ASSUME IInv, NEW n \in Nodes, NEW c, Taken(n, c), NEW v, NEW reply,
           call' = Answered(call, c, v, reply), queue' = Popped(n)
    PROVE  /\ Touches({c}) /\ DOMAIN call' = DOMAIN call
           /\ queue' \in [Nodes -> Seq(Calls)] /\ QueueIn(queue', call')
<1>1. /\ DOMAIN call' = DOMAIN call
      /\ \A d \in DOMAIN call : d # c => call'[d] = call[d]
    BY DEF Answered
<1>2. Keeps(call, call', c) /\ QueueIn(queue, call)
    BY <1>1 DEF Keeps, IInv, QueuedOnce, QueueIn
<1>3. /\ queue[n] # <<>> /\ c = Head(queue[n])
      /\ queue \in [Nodes -> Seq(Calls)]
    BY DEF Taken, IInv, Shape
<1>4. queue' \in [Nodes -> Seq(Calls)] /\ QueueIn(queue', call')
    BY <1>2, <1>3, QueueIsPopped DEF Popped
<1> QED BY <1>1, <1>4 DEF Touches

\* A handler starts and answers nothing yet.
LEMMA BusyPops ==
    ASSUME IInv, NEW n \in Nodes, NEW c, Taken(n, c), c \in DOMAIN call,
           call' = Busy(c), queue' = Popped(n)
    PROVE  /\ Touches({c}) /\ DOMAIN call' = DOMAIN call
           /\ DOMAIN call'[c] = Fields
           /\ call'[c].run = "busy"
           /\ \A x \in Fields \ {"run"} : call'[c][x] = call[c][x]
           /\ queue' \in [Nodes -> Seq(Calls)] /\ QueueIn(queue', call')
<1>1. /\ DOMAIN call' = DOMAIN call /\ DOMAIN call'[c] = Fields
      /\ \A d \in DOMAIN call : d # c => call'[d] = call[d]
      /\ call'[c].run = "busy"
      /\ \A x \in Fields \ {"run"} : call'[c][x] = call[c][x]
    BY TakenIs, BusyIs
<1>2. Keeps(call, call', c) /\ QueueIn(queue, call)
    BY <1>1 DEF Keeps, IInv, QueuedOnce, QueueIn
<1>3. /\ queue[n] # <<>> /\ c = Head(queue[n])
      /\ queue \in [Nodes -> Seq(Calls)]
    BY DEF Taken, IInv, Shape
<1>4. queue' \in [Nodes -> Seq(Calls)] /\ QueueIn(queue', call')
    BY <1>2, <1>3, QueueIsPopped DEF Popped
<1> QED BY <1>1, <1>4 DEF Touches

\* A call is sent.
LEMMA SendQueues ==
    ASSUME NEW q \in [Nodes -> Seq(Calls)], NEW cs, QueueIn(q, cs),
           NEW e \in Calls, Single(e) => e \notin DOMAIN cs, NEW m, NEW hosts,
           call' = Sent(cs, e, m, hosts), queue' = Queued(q, e, m)
    PROVE  /\ DOMAIN call' = DOMAIN cs \cup {e} /\ call'[e] = NewCall(m, hosts)
           /\ \A d \in DOMAIN cs : d # e => call'[d] = cs[d]
           /\ queue' \in [Nodes -> Seq(Calls)] /\ QueueIn(queue', call')
<1>1. /\ DOMAIN call' = DOMAIN cs \cup {e} /\ call'[e] = NewCall(m, hosts)
      /\ \A d \in DOMAIN cs : d # e => call'[d] = cs[d]
    BY DEF Sent, Merge
<1>2. Keeps(cs, call', e)
    BY <1>1 DEF Keeps
<1>3. CASE Serving(m)
    <2>1. call'[e].to = m /\ call'[e].run = "queued"
        BY <1>1, <1>3, NewCallIs
    <2>2. queue' = [q EXCEPT ![m] = Append(@, e)]
        BY <1>3 DEF Queued
    <2>3. m \in Nodes => Append(q[m], e) \in Seq(Calls)
        OBVIOUS
    <2>4. /\ queue' \in [Nodes -> Seq(Calls)]
          /\ m \in Nodes => queue'[m] = Append(q[m], e)
          /\ \A k \in Nodes : k # m => queue'[k] = q[k]
        BY <2>2, <2>3
    <2>5. Single(e) => (/\ e \notin DOMAIN cs /\ e \in DOMAIN call'
                       /\ call'[e].to = m /\ call'[e].run = "queued")
        BY <1>1, <2>1
    <2>6. QueueIn(queue', call')
        BY <1>2, <2>4, <2>5, QueueIsLonger
    <2> QED BY <1>1, <2>4, <2>6
<1>4. CASE ~Serving(m)
    <2>1. queue' = q
        BY <1>4 DEF Queued
    <2>2. QueueIn(queue', call')
        <3>1. \A d \in DOMAIN cs : Single(d) => d # e
            OBVIOUS
        <3>2. QueueIn(q, call')
            BY <1>2, <3>1, QueueStays
        <3> QED BY <2>1, <3>2
    <2> QED BY <1>1, <2>1, <2>2
<1> QED BY <1>3, <1>4

\* A handler starts and calls another instance.
LEMMA SendPops ==
    ASSUME IInv, NEW n \in Nodes, NEW c, Taken(n, c), c \in DOMAIN call,
           NEW e \in Calls, e # c, Single(e) => e \notin DOMAIN call, NEW m,
           call' = Sent([Busy(c) EXCEPT ![c].sub = e], e, m, NoHosts),
           queue' = Queued(Popped(n), e, m)
    PROVE  /\ Touches({c, e}) /\ DOMAIN call' = DOMAIN call \cup {e}
           /\ call'[e] = NewCall(m, NoHosts)
           /\ DOMAIN call'[c] = Fields
           /\ call'[c].run = "busy" /\ call'[c].sub = e
           /\ \A x \in Fields \ {"run", "sub"} : call'[c][x] = call[c][x]
           /\ queue' \in [Nodes -> Seq(Calls)] /\ QueueIn(queue', call')
<1> DEFINE mid == [Busy(c) EXCEPT ![c].sub = e]
<1>1. /\ DOMAIN mid = DOMAIN call /\ DOMAIN mid[c] = Fields
      /\ \A d \in DOMAIN call : d # c => mid[d] = call[d]
      /\ mid[c].run = "busy" /\ mid[c].sub = e
      /\ \A x \in Fields \ {"run", "sub"} : mid[c][x] = call[c][x]
    <2> DEFINE bs == Busy(c)
    <2>1. /\ DOMAIN bs = DOMAIN call /\ DOMAIN bs[c] = Fields
          /\ \A d \in DOMAIN call : d # c => bs[d] = call[d]
          /\ bs[c].run = "busy"
          /\ \A x \in Fields \ {"run"} : bs[c][x] = call[c][x]
        BY TakenIs, BusyIs
    <2> HIDE DEF bs
    <2>2. mid = [bs EXCEPT ![c].sub = e]
        BY DEF bs
    <2>3. /\ DOMAIN mid = DOMAIN call /\ \A d \in DOMAIN call : d # c => mid[d] = call[d]
          /\ mid[c] = [bs[c] EXCEPT !.sub = e]
        BY <2>1, <2>2
    <2> HIDE DEF mid
    <2>4. /\ DOMAIN mid[c] = Fields /\ mid[c].run = "busy" /\ mid[c].sub = e
          /\ \A x \in Fields \ {"run", "sub"} : mid[c][x] = call[c][x]
        BY <2>1, <2>3 DEF Fields
    <2> QED BY <2>3, <2>4
<1>0. call' = Sent(mid, e, m, NoHosts)
    OBVIOUS
<1> HIDE DEF mid
<1>3. /\ queue[n] # <<>> /\ c = Head(queue[n])
      /\ queue \in [Nodes -> Seq(Calls)] /\ QueueIn(queue, call)
    BY DEF Taken, IInv, Shape, QueuedOnce, QueueIn
<1>4. Keeps(call, mid, c)
    BY <1>1 DEF Keeps
<1>5. Popped(n) \in [Nodes -> Seq(Calls)] /\ QueueIn(Popped(n), mid)
    BY <1>3, <1>4, QueueIsPopped DEF Popped
<1>6. /\ DOMAIN call' = DOMAIN mid \cup {e} /\ call'[e] = NewCall(m, NoHosts)
      /\ \A d \in DOMAIN mid : d # e => call'[d] = mid[d]
      /\ queue' \in [Nodes -> Seq(Calls)] /\ QueueIn(queue', call')
    <2> DEFINE rest == Popped(n)
    <2>1. rest \in [Nodes -> Seq(Calls)] /\ QueueIn(rest, mid) /\ queue' = Queued(rest, e, m)
        BY <1>5
    <2>2. Single(e) => e \notin DOMAIN mid
        BY <1>1
    <2> HIDE DEF rest
    <2> QED BY <1>0, <2>1, <2>2, SendQueues
<1>7. Touches({c, e})
    BY <1>1, <1>6 DEF Touches
<1> QED BY <1>1, <1>6, <1>7

-------------------------------------------------------------------------------
(* The calls of clients.                                                   *)

\* A call that the step makes tell no one more than before.
Quiet(c) ==
    /\ DOMAIN call'[c] = Fields
    /\ \/ call'[c].msg = NoHosts /\ call'[c].todo = {}
       \/ c \in DOMAIN call /\ call'[c].msg = call[c].msg /\ call'[c].todo = call[c].todo

\* A step of the call of r, when it is one of no interest to the roles.
LEMMA ClientStep ==
    ASSUME IInv, NEW r \in Reqs,
           UNCHANGED <<roles, remotes, masters, started>>,
           counter' \in [Nodes -> Nat \ {0}],
           \A n \in Nodes : counter[n] <= counter'[n] /\ (n \notin started => counter'[n] = 1),
           queue' \in [Nodes -> Seq(Calls)], QueueIn(queue', call'),
           NEW S, S \subseteq {Ask(r), Forward(r), Push(r)}, Touches(S),
           \A c \in S \cap DOMAIN call' : Quiet(c),
           applied' \in [Reqs -> {0, 1}],
           \A q \in Reqs : q # r => applied'[q] = applied[q],
           AskIsTrue(r)', ForwardIsTrue(r)', Promise(r)
    PROVE  IInv' /\ Promised
<1>0. \A f : HostsAreTrue(f) => TrueThen(f)
    BY TrueStays DEF IInv, Shape
<1>1. S \subseteq Calls /\ \A c \in S : c.kind \notin {"register", "tell"}
    BY Names
<1>2. \A q \in Reqs : q # r => Ask(q) \notin S /\ Forward(q) \notin S
    BY Names
<1>3. \A c \in S \cap DOMAIN call' : SaysTrue(c) /\ RegistersTrue(c)
    BY <1>1, <1>0 DEF SaysTrue, RegistersTrue, Quiet, TrueThen, NoHosts, IInv, MessagesAreTrue
<1>4. RegistrationsAreTrue' /\ FollowsAMaster'
    BY <1>3, RegistrationsStay DEF IInv
<1>5. \A n \in Nodes : TrueThen(remotes'[n])
    BY <1>0 DEF IInv, MessagesAreTrue
<1>6. \A q \in Reqs : Ask(q) \in S \/ Forward(q) \in S \/ applied'[q] # applied[q]
                        => AskIsTrue(q)' /\ ForwardIsTrue(q)'
    BY <1>2
<1>7. /\ phase' \in [Nodes -> Phases] /\ isMaster' \in [Nodes -> BOOLEAN]
      /\ master' \in [Nodes -> Nodes] /\ started' \subseteq Nodes /\ DOMAIN remotes' = Nodes
      /\ \A n \in Nodes : isMaster'[n] \/ phase'[n] # "down" => n \in started'
      /\ \A n \in Nodes \ started' : counter'[n] = 1
    BY DEF IInv, Shape, roles
<1>8. IInv'
    BY <1>1, <1>3, <1>4, <1>5, <1>6, <1>7, Frame
<1>9. \A q \in Reqs : q # r => Outcome(q)' = Outcome(q)
    BY <1>2, ClientStays
<1>10. Promised
    BY <1>9, OneIsPromised DEF IInv, Shape
<1> QED BY <1>8, <1>10

LEMMA AskTaken ==
    ASSUME IInv, NEW r \in Reqs, Ask(r) \in DOMAIN call, call[Ask(r)].run = "queued"
    PROVE  /\ call[Ask(r)].conn \in {"open", "cut"} /\ call[Ask(r)].sub = None
           /\ Forward(r) \notin DOMAIN call /\ applied[r] = 0
BY DEF IInv, AskIsTrue

LEMMA ForwardTaken ==
    ASSUME IInv, NEW r \in Reqs, Forward(r) \in DOMAIN call, call[Forward(r)].run = "queued"
    PROVE  /\ call[Forward(r)].conn \in {"open", "cut"} /\ call[Forward(r)].sub = None
           /\ applied[r] = 0
           /\ Ask(r) \in DOMAIN call
           /\ \/ /\ call[Ask(r)].run = "busy" /\ call[Ask(r)].sub = Forward(r)
                 /\ call[Ask(r)].conn \in {"open", "cut"}
              \/ call[Ask(r)].run = "done" /\ call[Ask(r)].conn = "cut"
              \/ /\ call[Ask(r)].run = "done" /\ call[Ask(r)].conn = "error"
                 /\ call[Forward(r)].conn = "cut"
<1>1. ForwardIsTrue(r) /\ AskIsTrue(r)
    BY DEF IInv
<1>2. /\ call[Forward(r)].conn \in {"open", "cut"} /\ call[Forward(r)].sub = None
      /\ applied[r] = 0
    BY <1>1 DEF ForwardIsTrue
<1>3. Ask(r) \in DOMAIN call
    BY <1>1 DEF AskIsTrue
<1> QED BY <1>1, <1>2, <1>3 DEF AskIsTrue

\* What a client sees of its call, once it has been made.
LEMMA OutcomeIs ==
    ASSUME NEW r \in Reqs, Ask(r) \in DOMAIN call
    PROVE  /\ call[Ask(r)].conn = "open" => Outcome(r) = "asked"
           /\ call[Ask(r)].conn = "ok" => Outcome(r) = "ok"
           /\ call[Ask(r)].conn = "notfound" => Outcome(r) = "refused"
           /\ call[Ask(r)].conn = "cut" => Outcome(r) = "lost"
           /\ call[Ask(r)].conn = "error" =>
                Outcome(r) = IF Forward(r) \in DOMAIN call /\ call[Forward(r)].conn = "cut"
                             THEN "lost" ELSE "failed"
BY DEF Outcome

LEMMA OutcomeWillBe ==
    ASSUME NEW r \in Reqs, Ask(r) \in DOMAIN call'
    PROVE  /\ call'[Ask(r)].conn = "open" => Outcome(r)' = "asked"
           /\ call'[Ask(r)].conn = "ok" => Outcome(r)' = "ok"
           /\ call'[Ask(r)].conn = "notfound" => Outcome(r)' = "refused"
           /\ call'[Ask(r)].conn = "cut" => Outcome(r)' = "lost"
           /\ call'[Ask(r)].conn = "error" =>
                Outcome(r)' = IF Forward(r) \in DOMAIN call' /\ call'[Forward(r)].conn = "cut"
                              THEN "lost" ELSE "failed"
BY DEF Outcome

LEMMA CountersStay ==
    ASSUME IInv, UNCHANGED counter, UNCHANGED applied
    PROVE  /\ counter' \in [Nodes -> Nat \ {0}] /\ applied' \in [Reqs -> {0, 1}]
           /\ \A n \in Nodes : counter[n] <= counter'[n] /\ (n \notin started => counter'[n] = 1)
BY DEF IInv, Shape

\* The handler of a client's call answers an error at once, with or without the
\* effect.
LEMMA AskFails ==
    ASSUME IInv, NEW n \in Nodes, NEW r \in Reqs, Taken(n, Ask(r)),
           call' = Answered(call, Ask(r), "error", None), queue' = Popped(n),
           UNCHANGED <<roles, remotes, masters, started>>,
           applied' \in {applied, [applied EXCEPT ![r] = @ + 1]},
           counter' \in [Nodes -> Nat \ {0}],
           \A m \in Nodes : counter[m] <= counter'[m] /\ (m \notin started => counter'[m] = 1)
    PROVE  IInv' /\ Promised
<1> DEFINE c == Ask(r)
<1>1. c \in DOMAIN call /\ call[c].run = "queued" /\ DOMAIN call[c] = Fields
    BY Names, TakenIs
<1>2. /\ call[c].conn \in {"open", "cut"} /\ Forward(r) \notin DOMAIN call /\ applied[r] = 0
    BY <1>1, AskTaken
<1>3. /\ Touches({c}) /\ DOMAIN call' = DOMAIN call
      /\ queue' \in [Nodes -> Seq(Calls)] /\ QueueIn(queue', call')
    BY AnswerPops
<1>4. /\ DOMAIN call'[c] = Fields /\ call'[c].run = "done"
      /\ call'[c].todo = {} /\ call'[c].msg = NoHosts
      /\ call'[c].conn = IF call[c].conn = "open" THEN "error" ELSE call[c].conn
    BY <1>1, AnsweredIs
<1>5. \A d \in {c} \cap DOMAIN call' : Quiet(d)
    BY <1>4 DEF Quiet
<1> HIDE DEF c
<1>8. /\ applied' \in [Reqs -> {0, 1}] /\ applied'[r] \in {0, 1}
      /\ \A q \in Reqs : q # r => applied'[q] = applied[q]
    <2>0. applied \in [Reqs -> {0, 1}] /\ applied[r] = 0
        BY <1>2 DEF IInv, Shape
    <2>1. CASE applied' = applied
        BY <2>0, <2>1
    <2>2. CASE applied' = [applied EXCEPT ![r] = @ + 1]
        BY <2>0, <2>2
    <2> QED BY <2>1, <2>2
<1>6. AskIsTrue(r)' /\ ForwardIsTrue(r)'
    BY <1>1, <1>2, <1>3, <1>4, <1>8 DEF AskIsTrue, ForwardIsTrue, c
<1>7. Promise(r)
    <2>1. CASE call[c].conn = "open"
        BY <1>1, <1>2, <1>3, <1>4, <1>8, <2>1, OutcomeIs, OutcomeWillBe DEF Promise, c
    <2>2. CASE call[c].conn = "cut"
        <3>1. Outcome(r) = "lost" /\ Outcome(r)' = "lost"
            BY <1>1, <1>3, <1>4, <2>2, OutcomeIs, OutcomeWillBe DEF c
        <3> QED BY <1>2, <1>8, <3>1 DEF Promise
    <2> QED BY <1>2, <2>1, <2>2
<1> QED BY <1>3, <1>5, <1>6, <1>7, <1>8, ClientStep DEF c

\* The handler of a client's call acts here: it holds its thread until it answers,
\* or until a push is answered first.
LEMMA AskApplied ==
    ASSUME IInv, NEW r \in Reqs, Ask(r) \in DOMAIN call, call[Ask(r)].run = "queued",
           NEW S, S \subseteq {Ask(r), Push(r)}, Touches(S),
           \A c \in S \cap DOMAIN call' : Quiet(c),
           Ask(r) \in DOMAIN call', call'[Ask(r)].run = "busy",
           call'[Ask(r)].conn = call[Ask(r)].conn,
           call'[Ask(r)].sub \in {None, Push(r)},
           applied' = [applied EXCEPT ![r] = @ + 1],
           UNCHANGED <<roles, remotes, masters, started>>,
           counter' \in [Nodes -> Nat \ {0}],
           \A n \in Nodes : counter[n] <= counter'[n] /\ (n \notin started => counter'[n] = 1),
           queue' \in [Nodes -> Seq(Calls)], QueueIn(queue', call')
    PROVE  IInv' /\ Promised
<1>1. /\ call[Ask(r)].conn \in {"open", "cut"}
      /\ Forward(r) \notin DOMAIN call /\ applied[r] = 0
    BY AskTaken
<1>2. Forward(r) \notin S
    BY Names
<1>3. Forward(r) \notin DOMAIN call'
    BY <1>1, <1>2 DEF Touches
<1>4. /\ applied' \in [Reqs -> {0, 1}] /\ applied'[r] = 1
      /\ \A q \in Reqs : q # r => applied'[q] = applied[q]
    BY <1>1 DEF IInv, Shape
<1>5. AskIsTrue(r)' /\ ForwardIsTrue(r)'
    BY <1>1, <1>3, <1>4 DEF AskIsTrue, ForwardIsTrue
<1>6. Promise(r)
    BY <1>1, <1>4, OutcomeIs, OutcomeWillBe DEF Promise
<1>7. S \subseteq {Ask(r), Forward(r), Push(r)}
    OBVIOUS
<1> QED BY <1>4, <1>5, <1>6, <1>7, ClientStep

\* The same of a forward.
LEMMA ForwardApplied ==
    ASSUME IInv, NEW r \in Reqs, Forward(r) \in DOMAIN call,
           call[Forward(r)].run = "queued",
           NEW S, S \subseteq {Forward(r), Push(r)}, Touches(S),
           \A c \in S \cap DOMAIN call' : Quiet(c),
           Forward(r) \in DOMAIN call', call'[Forward(r)].run = "busy",
           call'[Forward(r)].conn = call[Forward(r)].conn,
           call'[Forward(r)].sub \in {None, Push(r)},
           applied' = [applied EXCEPT ![r] = @ + 1],
           UNCHANGED <<roles, remotes, masters, started>>,
           counter' \in [Nodes -> Nat \ {0}],
           \A n \in Nodes : counter[n] <= counter'[n] /\ (n \notin started => counter'[n] = 1),
           queue' \in [Nodes -> Seq(Calls)], QueueIn(queue', call')
    PROVE  IInv' /\ Promised
<1> DEFINE a == call[Ask(r)]
           f == call[Forward(r)]
<1>1. /\ f.conn \in {"open", "cut"} /\ applied[r] = 0 /\ Ask(r) \in DOMAIN call
      /\ \/ a.run = "busy" /\ a.sub = Forward(r) /\ a.conn \in {"open", "cut"}
         \/ a.run = "done" /\ a.conn = "cut"
         \/ a.run = "done" /\ a.conn = "error" /\ f.conn = "cut"
    BY ForwardTaken
<1>2. Ask(r) \notin S
    BY Names
<1>3. Ask(r) \in DOMAIN call' /\ call'[Ask(r)] = a
    BY <1>1, <1>2 DEF Touches
<1>4. /\ applied' \in [Reqs -> {0, 1}] /\ applied'[r] = 1
      /\ \A q \in Reqs : q # r => applied'[q] = applied[q]
    BY <1>1 DEF IInv, Shape
<1>5. AskIsTrue(r)'
    BY <1>1, <1>3 DEF AskIsTrue
<1>6. ForwardIsTrue(r)'
    BY <1>1, <1>4 DEF ForwardIsTrue
<1>7. Outcome(r) \in {"asked", "lost"} /\ Outcome(r)' = Outcome(r)
    BY <1>1, <1>3, OutcomeIs, OutcomeWillBe
<1>8. Promise(r)
    BY <1>1, <1>4, <1>7 DEF Promise
<1>9. S \subseteq {Ask(r), Forward(r), Push(r)}
    OBVIOUS
<1> QED BY <1>4, <1>5, <1>6, <1>8, <1>9, ClientStep

LEMMA ForwardFails ==
    ASSUME IInv, NEW n \in Nodes, NEW r \in Reqs, Taken(n, Forward(r)),
           call' = Answered(call, Forward(r), "error", None), queue' = Popped(n),
           UNCHANGED <<roles, remotes, masters, started>>,
           applied' \in {applied, [applied EXCEPT ![r] = @ + 1]},
           counter' \in [Nodes -> Nat \ {0}],
           \A m \in Nodes : counter[m] <= counter'[m] /\ (m \notin started => counter'[m] = 1)
    PROVE  IInv' /\ Promised
<1> DEFINE a == call[Ask(r)]
           c == Forward(r)
<1>1. c \in DOMAIN call /\ call[c].run = "queued" /\ DOMAIN call[c] = Fields
    BY Names, TakenIs
<1>2. /\ call[c].conn \in {"open", "cut"} /\ applied[r] = 0 /\ Ask(r) \in DOMAIN call
      /\ \/ a.run = "busy" /\ a.sub = c /\ a.conn \in {"open", "cut"}
         \/ a.run = "done" /\ a.conn = "cut"
         \/ a.run = "done" /\ a.conn = "error" /\ call[c].conn = "cut"
    BY <1>1, ForwardTaken
<1>3. /\ Touches({c}) /\ DOMAIN call' = DOMAIN call
      /\ queue' \in [Nodes -> Seq(Calls)] /\ QueueIn(queue', call')
    BY AnswerPops
<1>4. /\ DOMAIN call'[c] = Fields /\ call'[c].run = "done"
      /\ call'[c].todo = {} /\ call'[c].msg = NoHosts
      /\ call'[c].conn = IF call[c].conn = "open" THEN "error" ELSE call[c].conn
    BY <1>1, AnsweredIs
<1>5. \A d \in {c} \cap DOMAIN call' : Quiet(d)
    BY <1>4 DEF Quiet
<1>6. Ask(r) # c
    BY Names
<1>7. Ask(r) \in DOMAIN call' /\ call'[Ask(r)] = a /\ c \in DOMAIN call'
    BY <1>1, <1>2, <1>3, <1>6 DEF Touches
<1>8. AskIsTrue(r)'
    BY <1>2, <1>4, <1>7 DEF AskIsTrue
<1>9. ForwardIsTrue(r)'
    BY <1>2, <1>4, <1>7 DEF ForwardIsTrue
<1>12. /\ applied' \in [Reqs -> {0, 1}] /\ applied'[r] \in {0, 1}
       /\ \A q \in Reqs : q # r => applied'[q] = applied[q]
    <2>0. applied \in [Reqs -> {0, 1}] /\ applied[r] = 0
        BY <1>2 DEF IInv, Shape
    <2>1. CASE applied' = applied
        BY <2>0, <2>1
    <2>2. CASE applied' = [applied EXCEPT ![r] = @ + 1]
        BY <2>0, <2>2
    <2> QED BY <2>1, <2>2
<1>10. Outcome(r) \in {"asked", "lost"} /\ Outcome(r)' = Outcome(r)
    BY <1>1, <1>2, <1>4, <1>7, OutcomeIs, OutcomeWillBe
<1>11. Promise(r)
    BY <1>2, <1>10, <1>12 DEF Promise
<1>13. {c} \subseteq {Ask(r), Forward(r), Push(r)}
    OBVIOUS
<1> HIDE DEF c
<1> QED BY <1>3, <1>5, <1>8, <1>9, <1>11, <1>12, <1>13, ClientStep

\* The action on the master, if c is a client's call or its forward.
LEMMA ActIs ==
    ASSUME IInv, NEW n \in Nodes, NEW r \in Reqs, NEW c \in {Ask(r), Forward(r)},
           Taken(n, c), isMaster[n], Act(n, c, r),
           UNCHANGED <<roles, remotes, masters, started>>
    PROVE  IInv' /\ Promised
<1>1. /\ c \in DOMAIN call /\ call[c].run = "queued" /\ DOMAIN call[c] = Fields
      /\ call[c].sub = None
    BY Names, TakenIs, AskTaken, ForwardTaken
<1>2. CASE /\ call' = Answered(call, c, "error", None) /\ queue' = Popped(n)
           /\ \/ UNCHANGED <<counter, applied>>
              \/ /\ counter' = [counter EXCEPT ![n] = @ + 1]
                 /\ applied' \in {applied, [applied EXCEPT ![r] = @ + 1]}
    <2>1. /\ counter' \in [Nodes -> Nat \ {0}]
          /\ \A m \in Nodes : /\ counter[m] <= counter'[m]
                              /\ m \notin started => counter'[m] = 1
        BY <1>2 DEF IInv, Shape
    <2>2. applied' \in {applied, [applied EXCEPT ![r] = @ + 1]}
        BY <1>2
    <2> QED BY <1>2, <2>1, <2>2, AskFails, ForwardFails
<1>3. CASE /\ applied' = [applied EXCEPT ![r] = @ + 1]
           /\ counter' = [counter EXCEPT ![n] = @ + 1]
           /\ IF lastslave[n] = None
              THEN call' = Busy(c) /\ queue' = Popped(n)
              ELSE /\ call' = Sent([Busy(c) EXCEPT ![c].sub = Push(r)],
                                   Push(r), lastslave[n], NoHosts)
                   /\ queue' = Queued(Popped(n), Push(r), lastslave[n])
    <2>1. /\ counter' \in [Nodes -> Nat \ {0}]
          /\ \A m \in Nodes : /\ counter[m] <= counter'[m]
                              /\ m \notin started => counter'[m] = 1
        BY <1>3 DEF IInv, Shape
    <2>2. CASE lastslave[n] = None
        <3>1. /\ Touches({c}) /\ DOMAIN call' = DOMAIN call
              /\ DOMAIN call'[c] = Fields /\ call'[c].run = "busy"
              /\ \A x \in Fields \ {"run"} : call'[c][x] = call[c][x]
              /\ queue' \in [Nodes -> Seq(Calls)] /\ QueueIn(queue', call')
            BY <1>1, <1>3, <2>2, BusyPops
        <3>2. /\ call'[c].conn = call[c].conn /\ call'[c].sub = None
              /\ \A d \in {c} \cap DOMAIN call' : Quiet(d)
            BY <1>1, <3>1 DEF Quiet, Fields
        <3>3. CASE c = Ask(r)
            BY <1>1, <1>3, <2>1, <3>1, <3>2, <3>3, AskApplied
        <3>4. CASE c = Forward(r)
            BY <1>1, <1>3, <2>1, <3>1, <3>2, <3>4, ForwardApplied
        <3> QED BY <3>3, <3>4
    <2>3. CASE lastslave[n] # None
        <3>1. Push(r) \in Calls /\ Push(r) # c /\ ~Single(Push(r))
            BY Names
        <3>2. /\ Touches({c, Push(r)}) /\ DOMAIN call' = DOMAIN call \cup {Push(r)}
              /\ call'[Push(r)] = NewCall(lastslave[n], NoHosts)
              /\ DOMAIN call'[c] = Fields
              /\ call'[c].run = "busy" /\ call'[c].sub = Push(r)
              /\ \A x \in Fields \ {"run", "sub"} : call'[c][x] = call[c][x]
              /\ queue' \in [Nodes -> Seq(Calls)] /\ QueueIn(queue', call')
            BY <1>1, <1>3, <2>3, <3>1, SendPops
        <3>3. call'[c].conn = call[c].conn /\ Quiet(c)
            BY <1>1, <3>2 DEF Quiet, Fields
        <3>4. Quiet(Push(r))
            BY <3>2, NewCallIs DEF Quiet
        <3>5. CASE c = Ask(r)
            BY <1>1, <1>3, <2>1, <3>2, <3>3, <3>4, <3>5, AskApplied
        <3>6. CASE c = Forward(r)
            BY <1>1, <1>3, <2>1, <3>2, <3>3, <3>4, <3>6, ForwardApplied
        <3> QED BY <3>5, <3>6
    <2> QED BY <2>2, <2>3
<1> QED BY <1>2, <1>3 DEF Act

\* The handler of a client's call forwards it.
LEMMA AskForwarded ==
    ASSUME IInv, NEW n \in Nodes, NEW r \in Reqs, Taken(n, Ask(r)), NEW m,
           call' = Sent([Busy(Ask(r)) EXCEPT ![Ask(r)].sub = Forward(r)],
                        Forward(r), m, NoHosts),
           queue' = Queued(Popped(n), Forward(r), m),
           UNCHANGED <<roles, remotes, masters, started, counter, applied>>
    PROVE  IInv' /\ Promised
<1> DEFINE c == Ask(r)
           f == Forward(r)
<1>1. c \in DOMAIN call /\ call[c].run = "queued" /\ DOMAIN call[c] = Fields
    BY Names, TakenIs
<1>2. /\ call[c].conn \in {"open", "cut"} /\ f \notin DOMAIN call /\ applied[r] = 0
    BY <1>1, AskTaken
<1>3. f \in Calls /\ f # c
    BY Names
<1>4. /\ Touches({c, f}) /\ DOMAIN call' = DOMAIN call \cup {f}
      /\ call'[f] = NewCall(m, NoHosts)
      /\ DOMAIN call'[c] = Fields
      /\ call'[c].run = "busy" /\ call'[c].sub = f
      /\ \A x \in Fields \ {"run", "sub"} : call'[c][x] = call[c][x]
      /\ queue' \in [Nodes -> Seq(Calls)] /\ QueueIn(queue', call')
    BY <1>1, <1>2, <1>3, SendPops
<1>5. call'[c].conn = call[c].conn /\ Quiet(c)
    BY <1>1, <1>4 DEF Quiet, Fields
<1>6. /\ Quiet(f) /\ call'[f].sub = None
      /\ \/ call'[f].run = "queued" /\ call'[f].conn = "open"
         \/ call'[f].run = "done" /\ call'[f].conn = "error"
    <2> DEFINE new == NewCall(m, NoHosts)
    <2>1. /\ DOMAIN new = Fields /\ new.msg = NoHosts /\ new.todo = {} /\ new.sub = None
          /\ \/ new.run = "queued" /\ new.conn = "open"
             \/ new.run = "done" /\ new.conn = "error"
        BY NewCallIs
    <2> QED BY <1>4, <2>1 DEF Quiet
<1>7. AskIsTrue(r)'
    BY <1>1, <1>2, <1>4, <1>5 DEF AskIsTrue
<1>8. ForwardIsTrue(r)'
    BY <1>2, <1>4, <1>6 DEF ForwardIsTrue
<1>9. Outcome(r)' = Outcome(r)
    BY <1>1, <1>2, <1>4, <1>5, OutcomeIs, OutcomeWillBe
<1>10. Promise(r)
    BY <1>9 DEF Promise
<1>11. /\ counter' \in [Nodes -> Nat \ {0}] /\ applied' \in [Reqs -> {0, 1}]
       /\ \A k \in Nodes : counter[k] <= counter'[k] /\ (k \notin started => counter'[k] = 1)
    BY DEF IInv, Shape
<1>12. {c, f} \subseteq {Ask(r), Forward(r), Push(r)}
    OBVIOUS
<1> HIDE DEF c, f
<1> QED BY <1>4, <1>5, <1>6, <1>7, <1>8, <1>10, <1>11, <1>12, ClientStep

LEMMA HandleAskIs ==
    ASSUME IInv, NEW n \in Nodes, NEW r \in Reqs, HandleAsk(n, r)
    PROVE  IInv' /\ Promised
<1>1. Taken(n, Ask(r)) /\ UNCHANGED <<roles, remotes, masters, started>>
    BY DEF HandleAsk
<1>2. CASE /\ call' = Answered(call, Ask(r), "error", None) /\ queue' = Popped(n)
           /\ UNCHANGED <<counter, applied>>
    BY <1>1, <1>2, CountersStay, AskFails
<1>3. CASE /\ applied' = [applied EXCEPT ![r] = @ + 1]
           /\ call' = Busy(Ask(r)) /\ queue' = Popped(n) /\ UNCHANGED counter
    <2> DEFINE c == Ask(r)
    <2>1. c \in DOMAIN call /\ call[c].run = "queued" /\ call[c].sub = None
        BY <1>1, Names, TakenIs, AskTaken
    <2>2. /\ Touches({c}) /\ DOMAIN call' = DOMAIN call
          /\ DOMAIN call'[c] = Fields /\ call'[c].run = "busy"
          /\ \A x \in Fields \ {"run"} : call'[c][x] = call[c][x]
          /\ queue' \in [Nodes -> Seq(Calls)] /\ QueueIn(queue', call')
        BY <1>1, <1>3, <2>1, BusyPops
    <2>3. /\ call'[c].conn = call[c].conn /\ call'[c].sub = None
          /\ \A d \in {c} \cap DOMAIN call' : Quiet(d)
        BY <2>1, <2>2 DEF Quiet, Fields
    <2>4. /\ counter' \in [Nodes -> Nat \ {0}]
          /\ \A m \in Nodes : /\ counter[m] <= counter'[m]
                              /\ m \notin started => counter'[m] = 1
        BY <1>3 DEF IInv, Shape
    <2>5. {c} \subseteq {Ask(r), Push(r)} /\ c \in DOMAIN call'
        BY <2>1, <2>2
    <2> QED BY <1>1, <1>3, <2>1, <2>2, <2>3, <2>4, <2>5, AskApplied
<1>4. CASE isMaster[n] /\ Act(n, Ask(r), r)
    BY <1>1, <1>4, ActIs
<1>5. CASE /\ call' = Sent([Busy(Ask(r)) EXCEPT ![Ask(r)].sub = Forward(r)],
                           Forward(r), master[n], NoHosts)
           /\ queue' = Queued(Popped(n), Forward(r), master[n])
           /\ UNCHANGED <<counter, applied>>
    BY <1>1, <1>5, AskForwarded
<1> QED BY <1>2, <1>3, <1>4, <1>5 DEF HandleAsk

LEMMA HandleForwardIs ==
    ASSUME IInv, NEW n \in Nodes, NEW r \in Reqs, HandleForward(n, r)
    PROVE  IInv' /\ Promised
<1>1. Taken(n, Forward(r)) /\ UNCHANGED <<roles, remotes, masters, started>>
    BY DEF HandleForward
<1>2. CASE isMaster[n] /\ Act(n, Forward(r), r)
    BY <1>1, <1>2, ActIs
<1>3. CASE /\ call' = Answered(call, Forward(r), "error", None) /\ queue' = Popped(n)
           /\ UNCHANGED <<counter, applied>>
    BY <1>1, <1>3, CountersStay, ForwardFails
<1> QED BY <1>2, <1>3 DEF HandleForward

-------------------------------------------------------------------------------
(* Handlers that wait.                                                     *)

LEMMA QueueUnmoved ==
    ASSUME IInv, UNCHANGED queue, NEW S, Touches(S),
           \A c \in S \cap DOMAIN call : Single(c) /\ call[c].run = "queued" =>
              c \in DOMAIN call' /\ call'[c].to = call[c].to /\ call'[c].run = "queued"
    PROVE  queue' \in [Nodes -> Seq(Calls)] /\ QueueIn(queue', call')
<1>1. queue' \in [Nodes -> Seq(Calls)] /\ QueueIn(queue, call)
    BY DEF IInv, Shape, QueuedOnce, QueueIn
<1>2. \A c \in DOMAIN call : Single(c) /\ call[c].run = "queued" =>
         c \in DOMAIN call' /\ call'[c].to = call[c].to /\ call'[c].run = "queued"
    BY DEF Touches
<1>3. QueueIn(queue', call')
    BY <1>1, <1>2 DEF QueueIn
<1> QED BY <1>1, <1>3

LEMMA ForwardedIs ==
    ASSUME IInv, NEW n \in Nodes, NEW r \in Reqs, Forwarded(n, r)
    PROVE  IInv' /\ Promised
<1> DEFINE c == Ask(r)
           f == Forward(r)
<1>1. /\ c \in DOMAIN call /\ call[c].run = "busy" /\ call[c].sub = f
      /\ f \in DOMAIN call /\ call[f].conn # "open" /\ DOMAIN call[c] = Fields
      /\ call' = Answered(call, c, IF call[f].conn = "ok" THEN "ok" ELSE "error", None)
      /\ UNCHANGED <<roles, remotes, masters, started, counter, applied, queue>>
    BY DEF Forwarded, Waits, IsSettled, IInv, Shape, Fields, tables, hist
<1>2. /\ call[c].conn \in {"open", "cut"} /\ f # c
      /\ \/ call[f].conn = "cut"
         \/ call[f].conn = "ok" /\ applied[r] = 1
         \/ call[f].conn = "error"
    BY <1>1, Names DEF IInv, AskIsTrue, ForwardIsTrue
<1>3. /\ DOMAIN call' = DOMAIN call /\ DOMAIN call'[c] = Fields
      /\ \A d \in DOMAIN call : d # c => call'[d] = call[d]
      /\ call'[c].run = "done" /\ call'[c].todo = {} /\ call'[c].msg = NoHosts
      /\ call'[c].conn = IF call[c].conn = "open"
                         THEN IF call[f].conn = "ok" THEN "ok" ELSE "error"
                         ELSE call[c].conn
    BY <1>1, AnsweredIs
<1>4. Touches({c}) /\ \A d \in {c} \cap DOMAIN call' : Quiet(d)
    BY <1>3 DEF Touches, Quiet
<1>5. queue' \in [Nodes -> Seq(Calls)] /\ QueueIn(queue', call')
    BY <1>1, <1>4, QueueUnmoved
<1>6. AskIsTrue(r)'
    BY <1>1, <1>2, <1>3 DEF AskIsTrue
<1>7. ForwardIsTrue(r)'
    BY <1>1, <1>2, <1>3 DEF IInv, ForwardIsTrue
<1>8. Promise(r)
    <2>1. CASE call[c].conn = "cut"
        BY <1>1, <1>3, <2>1, OutcomeIs, OutcomeWillBe DEF Promise
    <2>2. CASE call[c].conn = "open"
        <3>1. Outcome(r) = "asked" /\ applied'[r] = applied[r]
            BY <1>1, <2>2, OutcomeIs
        <3>2. c \in DOMAIN call' /\ f \in DOMAIN call' /\ call'[f] = call[f]
            BY <1>1, <1>2, <1>3
        <3>3. CASE call[f].conn = "ok" /\ applied[r] = 1
            BY <1>3, <2>2, <3>1, <3>2, <3>3, OutcomeWillBe DEF Promise
        <3>4. CASE call[f].conn = "error"
            BY <1>3, <2>2, <3>1, <3>2, <3>4, OutcomeWillBe DEF Promise
        <3>5. CASE call[f].conn = "cut"
            BY <1>3, <2>2, <3>1, <3>2, <3>5, OutcomeWillBe DEF Promise
        <3> QED BY <1>2, <3>3, <3>4, <3>5
    <2> QED BY <1>2, <2>1, <2>2
<1>9. {c} \subseteq {Ask(r), Forward(r), Push(r)}
    OBVIOUS
<1> HIDE DEF c, f
<1> QED BY <1>1, <1>4, <1>5, <1>6, <1>7, <1>8, <1>9, CountersStay, ClientStep

\* The handler of a client's call or a forward answers when its action is done.
LEMMA RespondIs ==
    ASSUME IInv, NEW n \in Nodes, NEW r \in Reqs, Respond(n, r)
    PROVE  IInv' /\ Promised
<1>1. PICK c \in {Ask(r), Forward(r)} \cap DOMAIN call :
         /\ call[c].to = n /\ Waits(c, None)
         /\ \E v \in {"ok", "error"} : call' = Answered(call, c, v, None)
         /\ UNCHANGED <<roles, tables, queue, acts, hist>>
    BY DEF Respond
<1>0. PICK v \in {"ok", "error"} : call' = Answered(call, c, v, None)
    BY <1>1
<1>2. /\ call[c].run = "busy" /\ call[c].sub = None /\ DOMAIN call[c] = Fields
      /\ UNCHANGED <<roles, remotes, masters, started, counter, applied, queue>>
    BY <1>1 DEF Waits, IInv, Shape, Fields, tables, hist
<1>3. /\ DOMAIN call' = DOMAIN call /\ DOMAIN call'[c] = Fields
      /\ \A d \in DOMAIN call : d # c => call'[d] = call[d]
      /\ call'[c].run = "done" /\ call'[c].todo = {} /\ call'[c].msg = NoHosts
      /\ call'[c].conn = IF call[c].conn = "open" THEN v ELSE call[c].conn
    BY <1>0, <1>2, AnsweredIs
<1>4. Touches({c}) /\ \A d \in {c} \cap DOMAIN call' : Quiet(d)
    BY <1>3 DEF Touches, Quiet
<1>5. queue' \in [Nodes -> Seq(Calls)] /\ QueueIn(queue', call')
    BY <1>2, <1>4, QueueUnmoved
<1>6. AskIsTrue(r) /\ ForwardIsTrue(r) /\ Ask(r) # Forward(r) /\ Forward(r) # None
    BY Names, NoneAssumption DEF IInv
<1>7. AskIsTrue(r)' /\ ForwardIsTrue(r)' /\ Promise(r)
    <2>1. CASE c = Ask(r)
        <3>1. /\ Ask(r) \in DOMAIN call /\ call[c].conn \in {"open", "cut"}
              /\ Forward(r) \notin DOMAIN call /\ applied[r] = 1
            BY <1>1, <1>2, <1>6, <2>1 DEF AskIsTrue
        <3>2. AskIsTrue(r)' /\ ForwardIsTrue(r)'
            BY <1>2, <1>3, <2>1, <3>1 DEF AskIsTrue, ForwardIsTrue
        <3>3. Promise(r)
            BY <1>2, <1>3, <2>1, <3>1, OutcomeIs, OutcomeWillBe DEF Promise
        <3> QED BY <3>2, <3>3
    <2>2. CASE c = Forward(r)
        <3> DEFINE a == call[Ask(r)]
        <3>1. /\ call[c].conn \in {"open", "cut"} /\ applied[r] = 1
              /\ Ask(r) \in DOMAIN call
            BY <1>1, <1>2, <1>6, <2>2 DEF AskIsTrue, ForwardIsTrue
        <3>2. /\ Ask(r) \in DOMAIN call' /\ call'[Ask(r)] = a /\ c \in DOMAIN call'
              /\ \/ a.conn \in {"open", "ok", "cut"}
                 \/ a.conn = "error" /\ call[c].conn = "cut"
            BY <1>1, <1>2, <1>3, <1>6, <2>2, <3>1 DEF AskIsTrue, ForwardIsTrue
        <3>3. AskIsTrue(r)'
            BY <1>2, <1>3, <1>6, <2>2, <3>1, <3>2 DEF AskIsTrue
        <3>4. ForwardIsTrue(r)'
            BY <1>2, <1>3, <2>2, <3>1 DEF ForwardIsTrue
        <3>5. Outcome(r)' = Outcome(r)
            BY <1>1, <1>3, <2>2, <3>1, <3>2, OutcomeIs, OutcomeWillBe
        <3> QED BY <1>2, <3>3, <3>4, <3>5 DEF Promise
    <2> QED BY <2>1, <2>2
<1>8. {c} \subseteq {Ask(r), Forward(r), Push(r)}
    OBVIOUS
<1> QED BY <1>2, <1>4, <1>5, <1>7, <1>8, CountersStay, ClientStep

LEMMA PushedIs ==
    ASSUME IInv, NEW n \in Nodes, NEW r \in Reqs, Pushed(n, r)
    PROVE  IInv' /\ Promised
<1> DEFINE p == Push(r)
<1>1. PICK c \in {Ask(r), Forward(r)} \cap DOMAIN call :
         /\ Waits(c, p) /\ IsSettled(p)
         /\ call' = Forgotten([call EXCEPT ![c].sub = None], p)
         /\ UNCHANGED <<roles, counter, remotes, queue, acts, hist>>
    BY DEF Pushed
<1>2. /\ call[c].run = "busy" /\ call[c].sub = p /\ DOMAIN call[c] = Fields
      /\ p \in DOMAIN call /\ p # c /\ ~Single(p) /\ DOMAIN call[p] = Fields
      /\ UNCHANGED <<roles, remotes, masters, started, counter, applied, queue>>
    BY <1>1, Names DEF Waits, IsSettled, IInv, Shape, Fields, hist
<1> DEFINE cs == [call EXCEPT ![c].sub = None]
<1>3. /\ DOMAIN cs = DOMAIN call /\ \A d \in DOMAIN call : d # c => cs[d] = call[d]
      /\ DOMAIN cs[c] = Fields /\ cs[c].sub = None
      /\ \A x \in Fields \ {"sub"} : cs[c][x] = call[c][x]
    <2>1. /\ DOMAIN cs = DOMAIN call /\ \A d \in DOMAIN call : d # c => cs[d] = call[d]
          /\ cs[c] = [call[c] EXCEPT !.sub = None]
        BY <1>1
    <2> HIDE DEF cs
    <2>2. /\ DOMAIN cs[c] = Fields /\ cs[c].sub = None
          /\ \A x \in Fields \ {"sub"} : cs[c][x] = call[c][x]
        BY <1>2, <2>1 DEF Fields
    <2> QED BY <2>1, <2>2
<1>4. call' = Forgotten(cs, p)
    BY <1>1
<1> HIDE DEF cs
<1>5. /\ \A d \in DOMAIN call : d # p => d \in DOMAIN call' /\ call'[d] = cs[d]
      /\ DOMAIN call' \subseteq DOMAIN call
      /\ p \in DOMAIN call' => call'[p] = call[p]
    <2>1. /\ DOMAIN call' = DOMAIN cs \ {p} \/ DOMAIN call' = DOMAIN cs
          /\ \A d \in DOMAIN call' : call'[d] = cs[d]
        BY <1>4 DEF Forgotten, Restrict
    <2> HIDE DEF p
    <2> QED BY <1>2, <1>3, <2>1
<1>6. /\ c \in DOMAIN call' /\ DOMAIN call'[c] = Fields /\ call'[c].sub = None
      /\ \A x \in Fields \ {"sub"} : call'[c][x] = call[c][x]
    BY <1>1, <1>2, <1>3, <1>5
<1>7. /\ call'[c].to = call[c].to /\ call'[c].run = "busy"
      /\ call'[c].conn = call[c].conn
      /\ Quiet(c)
      /\ p \in DOMAIN call' => Quiet(p)
    BY <1>1, <1>2, <1>5, <1>6 DEF Quiet, Fields
<1>8. Touches({c, p})
    BY <1>3, <1>5 DEF Touches
<1>9. queue' \in [Nodes -> Seq(Calls)] /\ QueueIn(queue', call')
    BY <1>2, <1>8, QueueUnmoved
<1>10. AskIsTrue(r) /\ ForwardIsTrue(r) /\ Ask(r) # Forward(r) /\ p # Forward(r) /\ p # Ask(r)
       /\ Forward(r) # None
    BY Names, NoneAssumption DEF IInv
<1>11. AskIsTrue(r)' /\ ForwardIsTrue(r)' /\ Outcome(r)' = Outcome(r)
    <2>1. CASE c = Ask(r)
        <3>1. /\ Ask(r) \in DOMAIN call /\ call[c].conn \in {"open", "cut"}
              /\ Forward(r) \notin DOMAIN call /\ applied[r] = 1
            BY <1>1, <1>2, <1>10, <2>1 DEF AskIsTrue
        <3>2. Forward(r) \notin DOMAIN call'
            BY <1>5, <3>1
        <3>3. AskIsTrue(r)' /\ ForwardIsTrue(r)'
            BY <1>2, <1>6, <1>7, <2>1, <3>1, <3>2 DEF AskIsTrue, ForwardIsTrue
        <3>4. Outcome(r)' = Outcome(r)
            BY <1>6, <1>7, <2>1, <3>1, OutcomeIs, OutcomeWillBe
        <3> QED BY <3>3, <3>4
    <2>2. CASE c = Forward(r)
        <3> DEFINE a == call[Ask(r)]
        <3>1. /\ call[c].conn \in {"open", "cut"} /\ applied[r] = 1
              /\ Ask(r) \in DOMAIN call
            BY <1>1, <1>2, <1>10, <2>2 DEF AskIsTrue, ForwardIsTrue
        <3>2. Ask(r) \in DOMAIN call' /\ call'[Ask(r)] = a
            BY <1>3, <1>5, <1>10, <2>2, <3>1
        <3>3. AskIsTrue(r)'
            BY <1>2, <1>6, <1>7, <1>10, <2>2, <3>1, <3>2 DEF AskIsTrue
        <3>4. ForwardIsTrue(r)'
            BY <1>2, <1>6, <1>7, <2>2, <3>1 DEF ForwardIsTrue
        <3>5. a.conn \in {"open", "ok", "cut", "error", "notfound"}
            BY <1>10, <3>1 DEF AskIsTrue
        <3>6. /\ Forward(r) \in DOMAIN call /\ Forward(r) \in DOMAIN call'
              /\ call'[Forward(r)].conn = call[Forward(r)].conn
            BY <1>1, <1>6, <1>7, <2>2
        <3>7. Outcome(r)' = Outcome(r)
            BY <3>1, <3>2, <3>5, <3>6, OutcomeIs, OutcomeWillBe
        <3> QED BY <3>3, <3>4, <3>7
    <2> QED BY <2>1, <2>2
<1>12. Promise(r)
    BY <1>2, <1>11 DEF Promise
<1>13. {c, p} \subseteq {Ask(r), Forward(r), Push(r)} /\ \A d \in {c, p} \cap DOMAIN call' : Quiet(d)
    BY <1>7
<1> HIDE DEF p
<1> QED BY <1>2, <1>8, <1>9, <1>11, <1>12, <1>13, CountersStay, ClientStep

LEMMA HandlePushIs ==
    ASSUME IInv, NEW n \in Nodes, NEW r \in Reqs, HandlePush(n, r)
    PROVE  IInv' /\ Promised
<1> DEFINE p == Push(r)
<1>1. PICK v : call' = Answered(call, p, v, None)
    BY DEF HandlePush
<1>2. /\ Taken(n, p) /\ queue' = Popped(n) /\ p \in Calls
      /\ UNCHANGED <<roles, remotes, masters, started, counter, applied>>
    BY Names DEF HandlePush, tables, hist
<1>3. /\ Touches({p}) /\ DOMAIN call' = DOMAIN call
      /\ queue' \in [Nodes -> Seq(Calls)] /\ QueueIn(queue', call')
    BY <1>1, <1>2, AnswerPops
<1>4. \A d \in {p} \cap DOMAIN call' : Quiet(d)
    <2> SUFFICES ASSUME p \in DOMAIN call PROVE Quiet(p)
        BY <1>3
    <2>1. DOMAIN call[p] = Fields
        BY DEF IInv, Shape, Fields
    <2> QED BY <1>1, <2>1, AnsweredIs DEF Quiet
<1>5. p # Ask(r) /\ p # Forward(r)
    BY Names
<1> HIDE DEF p
<1>6. AskIsTrue(r)' /\ ForwardIsTrue(r)' /\ Outcome(r)' = Outcome(r)
    BY <1>2, <1>3, <1>5, ClientStays DEF IInv
<1>7. Promise(r)
    BY <1>2, <1>6 DEF Promise
<1>8. {p} \subseteq {Ask(r), Forward(r), Push(r)}
    BY DEF p
<1> QED BY <1>2, <1>3, <1>4, <1>6, <1>7, <1>8, CountersStay, ClientStep

LEMMA ClientCallsIs ==
    ASSUME IInv, NEW n \in Nodes, NEW r \in Reqs, ClientCalls(r, n)
    PROVE  IInv' /\ Promised
<1> DEFINE c == Ask(r)
           cs == Sent(call, c, n, NoHosts)
<1>1. /\ c \notin DOMAIN call /\ Serving(n)
      /\ UNCHANGED <<roles, remotes, masters, started, counter, applied>>
      /\ \/ call' = cs /\ queue' = Queued(queue, c, n)
         \/ /\ call' = [cs EXCEPT ![c].conn = "notfound", ![c].run = "done"]
            /\ UNCHANGED queue
    BY DEF ClientCalls, tables, hist
<1>2. c \in Calls /\ c # Forward(r) /\ Forward(r) \notin DOMAIN call /\ applied[r] = 0
      /\ Outcome(r) = "idle"
    BY <1>1, Names DEF IInv, AskIsTrue, Outcome
<1>3. /\ DOMAIN cs = DOMAIN call \cup {c} /\ cs[c] = NewCall(n, NoHosts)
      /\ \A d \in DOMAIN call : d # c => cs[d] = call[d]
    BY DEF Sent, Merge
<1>4. /\ DOMAIN cs[c] = Fields /\ cs[c].sub = None /\ cs[c].msg = NoHosts
      /\ cs[c].todo = {} /\ cs[c].conn = "open" /\ cs[c].run = "queued"
    BY <1>1, <1>3, NewCallIs
<1>5. CASE call' = cs /\ queue' = Queued(queue, c, n)
    <2>1. queue' \in [Nodes -> Seq(Calls)] /\ QueueIn(queue', call')
        <3>1. queue \in [Nodes -> Seq(Calls)] /\ QueueIn(queue, call)
            BY DEF IInv, Shape, QueuedOnce, QueueIn
        <3> QED BY <1>1, <1>2, <1>5, <3>1, SendQueues
    <2> HIDE DEF cs
    <2>2. Touches({c}) /\ Quiet(c)
        BY <1>3, <1>4, <1>5 DEF Touches, Quiet
    <2>3. /\ AskIsTrue(r)' /\ ForwardIsTrue(r)'
        BY <1>1, <1>2, <1>3, <1>4, <1>5 DEF AskIsTrue, ForwardIsTrue
    <2>4. Promise(r)
        BY <1>1, <1>2, <1>3, <1>4, <1>5, OutcomeWillBe DEF Promise
    <2>5. {c} \subseteq {Ask(r), Forward(r), Push(r)}
        OBVIOUS
    <2> HIDE DEF c
    <2> QED BY <1>1, <2>1, <2>2, <2>3, <2>4, <2>5, CountersStay, ClientStep
<1>6. CASE /\ call' = [cs EXCEPT ![c].conn = "notfound", ![c].run = "done"]
           /\ UNCHANGED queue
    <2> HIDE DEF cs
    <2>1. /\ DOMAIN call' = DOMAIN call \cup {c}
          /\ \A d \in DOMAIN call : d # c => call'[d] = call[d]
          /\ DOMAIN call'[c] = Fields /\ call'[c].sub = None /\ call'[c].msg = NoHosts
          /\ call'[c].todo = {} /\ call'[c].conn = "notfound" /\ call'[c].run = "done"
        BY <1>3, <1>4, <1>6 DEF Fields
    <2>2. Touches({c}) /\ Quiet(c)
        BY <2>1 DEF Touches, Quiet
    <2>3. queue' \in [Nodes -> Seq(Calls)] /\ QueueIn(queue', call')
        BY <1>1, <1>6, <2>2, QueueUnmoved
    <2>4. /\ AskIsTrue(r)' /\ ForwardIsTrue(r)'
        BY <1>1, <1>2, <2>1 DEF AskIsTrue, ForwardIsTrue
    <2>5. Promise(r)
        BY <1>1, <1>2, <2>1, OutcomeWillBe DEF Promise
    <2>6. {c} \subseteq {Ask(r), Forward(r), Push(r)}
        OBVIOUS
    <2> HIDE DEF c
    <2> QED BY <1>1, <2>2, <2>3, <2>4, <2>5, <2>6, CountersStay, ClientStep
<1> QED BY <1>1, <1>5, <1>6

-------------------------------------------------------------------------------
(* Steps that are not of a client's call, and leave the roles alone.       *)

LEMMA OtherStep ==
    ASSUME IInv, UNCHANGED <<roles, counter, applied, masters, started>>,
           NEW S, S \subseteq Calls, Touches(S),
           \A r \in Reqs : Ask(r) \notin S /\ Forward(r) \notin S,
           \A c \in S \cap DOMAIN call' : SaysTrue(c) /\ RegistersTrue(c),
           queue' \in [Nodes -> Seq(Calls)], QueueIn(queue', call'),
           DOMAIN remotes' = Nodes, \A n \in Nodes : TrueThen(remotes'[n])
    PROVE  IInv' /\ Promised
<1>1. Promised
    BY FrameIsPromised
<1>2. RegistrationsAreTrue' /\ FollowsAMaster'
    BY RegistrationsStay DEF IInv
<1>3. /\ phase' \in [Nodes -> Phases] /\ isMaster' \in [Nodes -> BOOLEAN]
      /\ master' \in [Nodes -> Nodes] /\ started' \subseteq Nodes
      /\ \A n \in Nodes : isMaster'[n] \/ phase'[n] # "down" => n \in started'
      /\ counter' \in [Nodes -> Nat \ {0}] /\ applied' \in [Reqs -> {0, 1}]
      /\ \A n \in Nodes : counter[n] <= counter'[n]
      /\ \A n \in Nodes \ started' : counter'[n] = 1
    BY DEF IInv, Shape, roles
<1>4. IInv'
    BY <1>2, <1>3, Frame
<1> QED BY <1>1, <1>4

\* What was true is, while the counters are as they were.
LEMMA TrueIsTrue ==
    ASSUME IInv, UNCHANGED counter
    PROVE  /\ \A f : HostsAreTrue(f) => TrueThen(f)
           /\ \A n \in Nodes : TrueThen(remotes[n])
           /\ \A n \in Nodes : TrueThen(StateOf(n).hosts)
<1>1. \A f : HostsAreTrue(f) => TrueThen(f)
    BY DEF HostsAreTrue, TrueThen
<1>2. \A n \in Nodes : TrueThen(remotes[n])
    BY <1>1 DEF IInv, MessagesAreTrue
<1>3. ASSUME NEW n \in Nodes PROVE TrueThen(StateOf(n).hosts)
    <2>1. CASE isMaster[n]
        BY <1>2, <2>1 DEF StateOf
    <2>2. CASE ~isMaster[n]
        <3>1. StateOf(n).hosts = Host(n)
            BY <2>2 DEF StateOf
        <3>2. DOMAIN Host(n) = {n} /\ Host(n)[n] = counter[n]
            BY DEF Host
        <3>3. counter'[n] \in Nat /\ counter'[n] = counter[n]
            BY DEF IInv, Shape
        <3> QED BY <3>1, <3>2, <3>3 DEF TrueThen
    <2> QED BY <2>1, <2>2
<1> QED BY <1>1, <1>2, <1>3

LEMMA MergeIsTrue ==
    ASSUME NEW f, NEW g, TrueThen(f), TrueThen(g)
    PROVE  TrueThen(Merge(f, g))
<1> DEFINE m == Merge(f, g)
<1>1. /\ DOMAIN m = DOMAIN f \cup DOMAIN g
      /\ \A h \in DOMAIN m : m[h] = IF h \in DOMAIN f THEN f[h] ELSE g[h]
    BY DEF Merge
<1> HIDE DEF m
<1>2. TrueThen(m)
    BY <1>1 DEF TrueThen
<1> QED BY <1>2 DEF m

\* A call as the invariant has it.
LEMMA CallIs ==
    ASSUME IInv, NEW c \in DOMAIN call
    PROVE  /\ c \in Calls /\ DOMAIN call[c] = Fields
           /\ HostsAreTrue(call[c].msg) /\ call[c].todo \subseteq Nodes
           /\ c.kind \in {"register", "tell"} /\ call[c].conn = "ok" =>
                HostsAreTrue(call[c].reply.hosts)
           /\ c.kind = "register" /\ call[c].run # "done" => call[c].conn # "ok"
BY DEF IInv, Shape, MessagesAreTrue, RegistrationsAreTrue, Fields

LEMMA NoClient ==
    ASSUME NEW c, c.kind \notin {"ask", "forward"}
    PROVE  \A r \in Reqs : Ask(r) # c /\ Forward(r) # c
BY Names

LEMMA TimeoutIs ==
    ASSUME IInv, NEW c \in DOMAIN call, Timeout(c)
    PROVE  IInv' /\ Promised
<1>1. /\ call[c].conn = "open" /\ c.kind # "rally"
      /\ UNCHANGED <<roles, remotes, masters, started, counter, applied, queue>>
    BY DEF Timeout, tables, hist
<1>2. /\ c \in Calls /\ DOMAIN call[c] = Fields
      /\ HostsAreTrue(call[c].msg) /\ call[c].todo \subseteq Nodes
    BY CallIs
<1>3. /\ DOMAIN call' = DOMAIN call /\ \A d \in DOMAIN call : d # c => call'[d] = call[d]
      /\ call'[c] = [call[c] EXCEPT !.conn = "cut"]
    BY DEF Timeout
<1>4. /\ DOMAIN call'[c] = Fields /\ call'[c].conn = "cut"
      /\ call'[c].run = call[c].run /\ call'[c].to = call[c].to /\ call'[c].sub = call[c].sub
      /\ call'[c].msg = call[c].msg /\ call'[c].todo = call[c].todo
    BY <1>2, <1>3 DEF Fields
<1>5. Touches({c}) /\ Quiet(c)
    BY <1>3, <1>4 DEF Touches, Quiet
<1>6. queue' \in [Nodes -> Seq(Calls)] /\ QueueIn(queue', call')
    <2>1. \A d \in {c} \cap DOMAIN call : Single(d) /\ call[d].run = "queued" =>
             d \in DOMAIN call' /\ call'[d].to = call[d].to /\ call'[d].run = "queued"
        BY <1>3, <1>4
    <2> QED BY <1>1, <1>5, <2>1, QueueUnmoved
<1>7. CASE c.kind \notin {"ask", "forward"}
    <2>1. \A r \in Reqs : Ask(r) \notin {c} /\ Forward(r) \notin {c}
        BY <1>7, NoClient
    <2>2. SaysTrue(c) /\ RegistersTrue(c)
        BY <1>1, <1>2, <1>4, TrueIsTrue DEF SaysTrue, RegistersTrue
    <2>3. DOMAIN remotes' = Nodes /\ \A n \in Nodes : TrueThen(remotes'[n])
        BY <1>1, TrueIsTrue DEF IInv, Shape
    <2> QED BY <1>1, <1>2, <1>5, <1>6, <2>1, <2>2, <2>3, OtherStep
<1>8. ASSUME NEW r \in Reqs, c = Ask(r) PROVE IInv' /\ Promised
    <2>1. AskIsTrue(r) /\ ForwardIsTrue(r) /\ c # Forward(r)
        BY <1>8, Names DEF IInv
    <2>2. AskIsTrue(r)'
        BY <1>1, <1>3, <1>4, <1>8, <2>1 DEF AskIsTrue
    <2>3. ForwardIsTrue(r)'
        BY <1>1, <1>3, <2>1 DEF ForwardIsTrue
    <2>4. Promise(r)
        BY <1>1, <1>3, <1>4, <1>8, OutcomeIs, OutcomeWillBe DEF Promise
    <2>5. {c} \subseteq {Ask(r), Forward(r), Push(r)}
        BY <1>8
    <2> QED BY <1>1, <1>5, <1>6, <2>2, <2>3, <2>4, <2>5, CountersStay, ClientStep
<1>9. ASSUME NEW r \in Reqs, c = Forward(r) PROVE IInv' /\ Promised
    <2> DEFINE a == call[Ask(r)]
    <2>1. AskIsTrue(r) /\ ForwardIsTrue(r) /\ c # Ask(r)
        BY <1>9, Names DEF IInv
    <2>2. /\ Ask(r) \in DOMAIN call /\ call'[Ask(r)] = a
          /\ a.conn \in {"open", "ok", "cut"}
        BY <1>1, <1>3, <1>9, <2>1 DEF AskIsTrue
    <2>3. AskIsTrue(r)'
        BY <1>1, <1>3, <1>4, <1>9, <2>1, <2>2 DEF AskIsTrue
    <2>4. ForwardIsTrue(r)'
        BY <1>1, <1>3, <1>4, <1>9, <2>1 DEF ForwardIsTrue
    <2>5. Outcome(r)' = Outcome(r)
        BY <1>3, <2>2, OutcomeIs, OutcomeWillBe
    <2>6. Promise(r) /\ {c} \subseteq {Ask(r), Forward(r), Push(r)}
        BY <1>1, <1>9, <2>5 DEF Promise
    <2> QED BY <1>1, <1>5, <1>6, <2>3, <2>4, <2>6, CountersStay, ClientStep
<1>10. CASE c.kind \in {"ask", "forward"}
    <2>1. PICK r \in Reqs : c = Ask(r) \/ c = Forward(r)
        <3>1. c \in [kind : {"ask", "forward", "push"}, of : Reqs]
            BY <1>2, <1>10 DEF Calls
        <3>2. c.of \in Reqs /\ c = [kind |-> c.kind, of |-> c.of]
            BY <3>1
        <3> QED BY <1>10, <3>2 DEF Ask, Forward
    <2> QED BY <1>8, <1>9, <2>1
<1> QED BY <1>7, <1>10

-------------------------------------------------------------------------------
(* Registrations and HostUpdate.                                           *)

LEMMA TablesStay ==
    ASSUME IInv, NEW n \in Nodes, NEW f, TrueThen(f), UNCHANGED counter,
           remotes' = [remotes EXCEPT ![n] = f] \/ remotes' = remotes
    PROVE  DOMAIN remotes' = Nodes /\ \A m \in Nodes : TrueThen(remotes'[m])
<1>1. DOMAIN remotes = Nodes /\ \A m \in Nodes : TrueThen(remotes[m])
    BY TrueIsTrue DEF IInv, Shape
<1>2. /\ DOMAIN remotes' = Nodes
      /\ \A m \in Nodes : remotes'[m] = remotes[m] \/ (m = n /\ remotes'[m] = f)
    BY <1>1
<1> QED BY <1>1, <1>2

LEMMA HandleRegisterIs ==
    ASSUME IInv, NEW n \in Nodes, NEW c \in DOMAIN call, HandleRegister(n, c)
    PROVE  IInv' /\ Promised
<1>1. /\ c.kind = "register" /\ Taken(n, c) /\ queue' = Popped(n)
      /\ UNCHANGED <<roles, masters, started, counter, applied>>
    BY DEF HandleRegister, hist
<1>2. /\ c \in Calls /\ DOMAIN call[c] = Fields /\ call[c].conn # "ok"
      /\ HostsAreTrue(call[c].msg) /\ call[c].run = "queued" /\ call[c].to = n
    BY <1>1, CallIs, TakenIs DEF Single
<1>3. \A r \in Reqs : Ask(r) \notin {c} /\ Forward(r) \notin {c}
    BY <1>1, NoClient
<1>4. CASE ~isMaster[n]
    <2>1. call' = Answered(call, c, "ok", StateOf(n)) /\ UNCHANGED remotes
        BY <1>4 DEF HandleRegister
    <2>2. /\ Touches({c}) /\ DOMAIN call' = DOMAIN call
          /\ queue' \in [Nodes -> Seq(Calls)] /\ QueueIn(queue', call')
        BY <1>1, <2>1, AnswerPops
    <2>3. /\ DOMAIN call'[c] = Fields /\ call'[c].to = call[c].to /\ call'[c].run = "done"
          /\ call'[c].todo = {} /\ call'[c].msg = NoHosts
          /\ call'[c].conn = IF call[c].conn = "open" THEN "ok" ELSE call[c].conn
          /\ call[c].conn = "open" => call'[c].reply = StateOf(n)
        BY <1>2, <2>1, AnsweredIs
    <2>4. /\ StateOf(n).isMaster = FALSE /\ StateOf(n).master \in Nodes
          /\ TrueThen(StateOf(n).hosts)
        <3>1. isMaster[n] = FALSE /\ master[n] \in Nodes
            BY <1>4 DEF IInv, Shape
        <3> QED BY <1>1, <3>1, TrueIsTrue DEF StateOf
    <2>5. SaysTrue(c) /\ RegistersTrue(c)
        BY <1>2, <2>3, <2>4 DEF SaysTrue, RegistersTrue, TrueThen, NoHosts
    <2>6. DOMAIN remotes' = Nodes /\ \A m \in Nodes : TrueThen(remotes'[m])
        BY <1>1, <2>1, TrueIsTrue DEF IInv, Shape
    <2> QED BY <1>1, <1>2, <1>3, <2>2, <2>5, <2>6, OtherStep
<1>5. CASE isMaster[n]
    <2> DEFINE hosts == Merge(call[c].msg, remotes[n])
               bs == Busy(c)
    <2>1. /\ remotes' = [remotes EXCEPT ![n] = hosts]
          /\ call' = [bs EXCEPT ![c].todo = DOMAIN hosts, ![c].msg = hosts]
        BY <1>5 DEF HandleRegister
    <2>2. TrueThen(hosts)
        BY <1>1, <1>2, TrueIsTrue, MergeIsTrue
    <2>3. /\ DOMAIN bs = DOMAIN call /\ DOMAIN bs[c] = Fields
          /\ \A d \in DOMAIN call : d # c => bs[d] = call[d]
          /\ bs[c].run = "busy"
          /\ \A x \in Fields \ {"run"} : bs[c][x] = call[c][x]
        BY <1>2, BusyIs
    <2> HIDE DEF hosts, bs
    <2>4. /\ DOMAIN call' = DOMAIN call /\ \A d \in DOMAIN call : d # c => call'[d] = call[d]
          /\ call'[c] = [bs[c] EXCEPT !.todo = DOMAIN hosts, !.msg = hosts]
        BY <2>1, <2>3
    <2>5. /\ DOMAIN call'[c] = Fields /\ call'[c].run = "busy"
          /\ call'[c].to = call[c].to /\ call'[c].conn = call[c].conn
          /\ call'[c].todo = DOMAIN hosts /\ call'[c].msg = hosts
        BY <2>3, <2>4 DEF Fields
    <2>6. Touches({c}) /\ Keeps(call, call', c)
        BY <2>4 DEF Touches, Keeps
    <2>7. queue' \in [Nodes -> Seq(Calls)] /\ QueueIn(queue', call')
        <3>1. /\ queue[n] # <<>> /\ c = Head(queue[n])
              /\ queue \in [Nodes -> Seq(Calls)] /\ QueueIn(queue, call)
            BY <1>1 DEF Taken, IInv, Shape, QueuedOnce, QueueIn
        <3> QED BY <1>1, <2>6, <3>1, QueueIsPopped DEF Popped
    <2>8. SaysTrue(c) /\ RegistersTrue(c)
        BY <1>2, <2>2, <2>5 DEF SaysTrue, RegistersTrue, TrueThen
    <2>9. DOMAIN remotes' = Nodes /\ \A m \in Nodes : TrueThen(remotes'[m])
        BY <1>1, <2>1, <2>2, TablesStay
    <2> QED BY <1>1, <1>2, <1>3, <2>6, <2>7, <2>8, <2>9, OtherStep
<1> QED BY <1>4, <1>5

LEMMA HandleTellIs ==
    ASSUME IInv, NEW n \in Nodes, NEW c \in DOMAIN call, HandleTell(n, c)
    PROVE  IInv' /\ Promised
<1> DEFINE hosts == Merge(call[c].msg, remotes[n])
           reply == [StateOf(n) EXCEPT !.hosts = IF isMaster[n] THEN remotes'[n] ELSE @]
<1>1. /\ c.kind = "tell" /\ Taken(n, c) /\ queue' = Popped(n)
      /\ remotes' = [remotes EXCEPT ![n] = hosts]
      /\ call' = Answered(call, c, "ok", reply)
      /\ UNCHANGED <<roles, masters, started, counter, applied>>
    BY DEF HandleTell, hist
<1>2. /\ c \in Calls /\ DOMAIN call[c] = Fields /\ HostsAreTrue(call[c].msg)
      /\ call[c].conn = "ok" => HostsAreTrue(call[c].reply.hosts)
    BY <1>1, CallIs
<1>3. \A r \in Reqs : Ask(r) \notin {c} /\ Forward(r) \notin {c}
    BY <1>1, NoClient
<1>4. TrueThen(hosts)
    BY <1>1, <1>2, TrueIsTrue, MergeIsTrue
<1> HIDE DEF hosts
<1>5. DOMAIN remotes' = Nodes /\ \A m \in Nodes : TrueThen(remotes'[m])
    BY <1>1, <1>4, TablesStay
<1>6. TrueThen(reply.hosts)
    <2>1. reply.hosts = IF isMaster[n] THEN remotes'[n] ELSE StateOf(n).hosts
        BY DEF StateOf
    <2> QED BY <1>1, <1>5, <2>1, TrueIsTrue
<1> HIDE DEF reply
<1>7. /\ Touches({c}) /\ DOMAIN call' = DOMAIN call
      /\ queue' \in [Nodes -> Seq(Calls)] /\ QueueIn(queue', call')
    BY <1>1, AnswerPops
<1>8. /\ DOMAIN call'[c] = Fields /\ call'[c].todo = {} /\ call'[c].msg = NoHosts
      /\ call'[c].conn = IF call[c].conn = "open" THEN "ok" ELSE call[c].conn
      /\ call'[c].reply = IF call[c].conn = "open" THEN reply ELSE call[c].reply
    BY <1>1, <1>2, AnsweredIs
<1>9. SaysTrue(c) /\ RegistersTrue(c)
    <2>1. TrueThen(call'[c].msg) /\ call'[c].todo \subseteq Nodes
        BY <1>8 DEF TrueThen, NoHosts
    <2>2. call'[c].conn = "ok" => TrueThen(call'[c].reply.hosts)
        BY <1>1, <1>2, <1>6, <1>8, TrueIsTrue
    <2> QED BY <1>1, <1>8, <2>1, <2>2 DEF SaysTrue, RegistersTrue
<1> QED BY <1>1, <1>2, <1>3, <1>5, <1>7, <1>9, OtherStep

LEMMA TellDoneIs ==
    ASSUME IInv, NEW n \in Nodes, NEW c \in DOMAIN call, TellDone(n, c)
    PROVE  IInv' /\ Promised
<1>1. /\ c.kind \in {"register", "rally"} /\ call[c].to = n /\ call[c].run = "busy"
      /\ call' = Answered(call, c, "ok", IF c.kind = "register" THEN StateOf(n) ELSE None)
      /\ UNCHANGED <<roles, masters, started, counter, applied, queue, remotes>>
    BY DEF TellDone, Waits, tables, hist
<1>2. /\ c \in Calls /\ DOMAIN call[c] = Fields
      /\ c.kind = "register" => call[c].conn # "ok"
    BY <1>1, CallIs
<1>3. \A r \in Reqs : Ask(r) \notin {c} /\ Forward(r) \notin {c}
    BY <1>1, NoClient
<1>4. /\ DOMAIN call' = DOMAIN call
      /\ \A d \in DOMAIN call : d # c => call'[d] = call[d]
      /\ DOMAIN call'[c] = Fields /\ call'[c].to = call[c].to /\ call'[c].run = "done"
      /\ call'[c].todo = {} /\ call'[c].msg = NoHosts
      /\ call'[c].conn = IF call[c].conn = "open" THEN "ok" ELSE call[c].conn
      /\ call[c].conn = "open" /\ c.kind = "register" => call'[c].reply = StateOf(n)
    BY <1>1, <1>2, AnsweredIs
<1>5. Touches({c})
    BY <1>4 DEF Touches
<1>6. queue' \in [Nodes -> Seq(Calls)] /\ QueueIn(queue', call')
    BY <1>1, <1>5, QueueUnmoved
<1>7. SaysTrue(c)
    BY <1>1, <1>2, <1>4, TrueIsTrue DEF SaysTrue, TrueThen, NoHosts
<1>8. RegistersTrue(c)
    <2>1. (StateOf(n).isMaster => n \in masters) /\ StateOf(n).master \in Nodes
        BY DEF StateOf, IInv, Shape, RegistrationsAreTrue
    <2> QED BY <1>1, <1>2, <1>4, <2>1 DEF RegistersTrue
<1>9. DOMAIN remotes' = Nodes /\ \A m \in Nodes : TrueThen(remotes'[m])
    BY <1>1, TrueIsTrue DEF IInv, Shape
<1> QED BY <1>1, <1>2, <1>3, <1>5, <1>6, <1>7, <1>8, <1>9, OtherStep

LEMMA TellNextIs ==
    ASSUME IInv, NEW n \in Nodes, NEW c \in DOMAIN call, TellNext(n, c)
    PROVE  IInv' /\ Promised
<1>1. /\ c.kind \in {"register", "rally"} /\ call[c].run = "busy"
      /\ UNCHANGED <<roles, masters, started, counter, applied, remotes>>
    BY DEF TellNext, Waits, tables, hist
<1>2. /\ c \in Calls /\ DOMAIN call[c] = Fields /\ HostsAreTrue(call[c].msg)
      /\ c.kind = "register" => call[c].conn # "ok"
      /\ call[c].todo \subseteq Nodes
    BY <1>1, CallIs
<1>3. PICK h \in call[c].todo :
        /\ call' = Sent([call EXCEPT ![c].sub = Tell(c, h), ![c].todo = @ \ {h}],
                        Tell(c, h), h, call[c].msg)
        /\ queue' = Queued(queue, Tell(c, h), h)
    BY DEF TellNext
<1> DEFINE e == Tell(c, h)
           cs == [call EXCEPT ![c].sub = e, ![c].todo = @ \ {h}]
<1>4. /\ e \in Calls /\ e.kind = "tell" /\ ~Single(e) /\ e # c
    <2>1. c \in [kind : {"register", "rally"}, of : Nodes, nth : Nat]
        BY <1>1, <1>2 DEF Calls
    <2>2. c.of \in Nodes /\ c.nth \in Nat /\ h \in Nodes
        BY <1>2, <2>1
    <2>3. e \in [kind : {"tell"}, of : Nodes, nth : Nat, to : Nodes]
        BY <2>2 DEF Tell
    <2> QED BY <1>1, <2>3 DEF Calls, Tell, Single
<1>5. call' = Sent(cs, e, h, call[c].msg) /\ queue' = Queued(queue, e, h)
    BY <1>3
<1>6. /\ DOMAIN cs = DOMAIN call /\ \A d \in DOMAIN call : d # c => cs[d] = call[d]
      /\ cs[c] = [call[c] EXCEPT !.sub = e, !.todo = @ \ {h}]
    OBVIOUS
<1> HIDE DEF cs, e
<1>7. /\ DOMAIN cs[c] = Fields /\ cs[c].run = "busy" /\ cs[c].to = call[c].to
      /\ cs[c].conn = call[c].conn /\ cs[c].msg = call[c].msg
      /\ cs[c].reply = call[c].reply /\ cs[c].todo = call[c].todo \ {h}
    BY <1>1, <1>2, <1>6 DEF Fields
<1>8. /\ queue \in [Nodes -> Seq(Calls)] /\ QueueIn(queue, cs)
    <2>1. /\ queue \in [Nodes -> Seq(Calls)] /\ QueueIn(queue, call)
        BY DEF IInv, Shape, QueuedOnce, QueueIn
    <2>2. Keeps(call, cs, c)
        BY <1>6 DEF Keeps
    <2> QED BY <1>1, <2>1, <2>2, QueueStays
<1>9. /\ DOMAIN call' = DOMAIN call \cup {e} /\ call'[e] = NewCall(h, call[c].msg)
      /\ \A d \in DOMAIN call : d # e => call'[d] = cs[d]
      /\ queue' \in [Nodes -> Seq(Calls)] /\ QueueIn(queue', call')
    <2> DEFINE msg == call[c].msg
    <2>1. call' = Sent(cs, e, h, msg)
        BY <1>5
    <2> HIDE DEF msg
    <2>2. /\ DOMAIN call' = DOMAIN cs \cup {e} /\ call'[e] = NewCall(h, msg)
          /\ \A d \in DOMAIN cs : d # e => call'[d] = cs[d]
          /\ queue' \in [Nodes -> Seq(Calls)] /\ QueueIn(queue', call')
        BY <1>4, <1>5, <1>8, <2>1, SendQueues
    <2> QED BY <1>6, <2>2 DEF msg
<1>10. Touches({c, e})
    BY <1>6, <1>9 DEF Touches
<1>11. /\ DOMAIN call'[e] = Fields /\ call'[e].todo = {} /\ call'[e].msg = call[c].msg
       /\ call'[e].conn # "ok"
    BY <1>9, NewCallIs
<1>12. SaysTrue(e) /\ RegistersTrue(e)
    BY <1>1, <1>2, <1>4, <1>11, TrueIsTrue DEF SaysTrue, RegistersTrue
<1>13. SaysTrue(c) /\ RegistersTrue(c)
    BY <1>1, <1>2, <1>4, <1>7, <1>9, TrueIsTrue DEF SaysTrue, RegistersTrue
<1>14. \A r \in Reqs : Ask(r) \notin {c, e} /\ Forward(r) \notin {c, e}
    BY <1>1, <1>4, NoClient
<1>15. DOMAIN remotes' = Nodes /\ \A m \in Nodes : TrueThen(remotes'[m])
    BY <1>1, TrueIsTrue DEF IInv, Shape
<1> QED BY <1>1, <1>2, <1>4, <1>9, <1>10, <1>12, <1>13, <1>14, <1>15, OtherStep

LEMMA ToldIs ==
    ASSUME IInv, NEW n \in Nodes, NEW c \in DOMAIN call, Told(n, c)
    PROVE  IInv' /\ Promised
<1> DEFINE d == call[c].sub
           said == IF call[d].conn = "ok" THEN call[d].reply.hosts ELSE call[c].msg
           cs == [call EXCEPT ![c].sub = None, ![c].msg = said]
<1>1. /\ call[c].run = "busy" /\ d.kind = "tell" /\ d \in DOMAIN call
      /\ call' = Forgotten(cs, d)
      /\ UNCHANGED <<roles, masters, started, counter, applied, queue, remotes>>
    BY DEF Told, IsSettled, tables, hist
<1>2. /\ c \in Calls /\ DOMAIN call[c] = Fields /\ call[c].todo \subseteq Nodes
      /\ c.kind = "register" => call[c].conn # "ok"
      /\ c.kind = "tell" /\ call[c].conn = "ok" => HostsAreTrue(call[c].reply.hosts)
      /\ HostsAreTrue(call[c].msg)
    BY <1>1, CallIs
<1>3. /\ d \in Calls /\ DOMAIN call[d] = Fields /\ call[d].todo \subseteq Nodes
      /\ HostsAreTrue(call[d].msg) /\ ~Single(d)
      /\ call[d].conn = "ok" => HostsAreTrue(call[d].reply.hosts)
    BY <1>1, CallIs DEF Single
<1>4. HostsAreTrue(said)
    BY <1>2, <1>3
<1>5. /\ DOMAIN cs = DOMAIN call /\ \A x \in DOMAIN call : x # c => cs[x] = call[x]
      /\ cs[c] = [call[c] EXCEPT !.sub = None, !.msg = said]
    OBVIOUS
<1>6. /\ DOMAIN call' = DOMAIN cs \ {d} \/ DOMAIN call' = DOMAIN cs
      /\ \A x \in DOMAIN call' : call'[x] = cs[x]
    BY <1>1 DEF Forgotten, Restrict
<1>7. \A r \in Reqs : c # Ask(r) /\ c # Forward(r)
    <2> SUFFICES ASSUME NEW r \in Reqs, c = Ask(r) \/ c = Forward(r) PROVE FALSE
        OBVIOUS
    <2>1. /\ Ask(r).kind = "ask" /\ Forward(r).kind = "forward" /\ Push(r).kind = "push"
          /\ AskIsTrue(r) /\ ForwardIsTrue(r)
        BY Names DEF IInv
    <2>2. d \in {None, Push(r), Forward(r)}
        BY <1>1, <2>1 DEF AskIsTrue, ForwardIsTrue
    <2>3. d # None
        BY DEF Told
    <2> QED BY <1>1, <2>1, <2>2, <2>3
<1> HIDE DEF cs, said, d
<1>8. /\ DOMAIN cs[c] = Fields /\ cs[c].run = "busy" /\ cs[c].to = call[c].to
      /\ cs[c].conn = call[c].conn /\ cs[c].msg = said
      /\ cs[c].reply = call[c].reply /\ cs[c].todo = call[c].todo
    BY <1>1, <1>2, <1>5 DEF Fields
<1>9. Touches({c, d})
    BY <1>5, <1>6 DEF Touches
<1>10. queue' \in [Nodes -> Seq(Calls)] /\ QueueIn(queue', call')
    BY <1>1, <1>3, <1>9, QueueUnmoved
<1>11. c \in DOMAIN call' => SaysTrue(c) /\ RegistersTrue(c)
    BY <1>1, <1>2, <1>4, <1>6, <1>8, TrueIsTrue DEF SaysTrue, RegistersTrue
<1>12. d \in DOMAIN call' /\ d # c => SaysTrue(d) /\ RegistersTrue(d)
    <2> SUFFICES ASSUME d \in DOMAIN call', d # c PROVE SaysTrue(d) /\ RegistersTrue(d)
        OBVIOUS
    <2>1. call'[d] = call[d]
        BY <1>1, <1>5, <1>6
    <2> QED BY <1>1, <1>3, <2>1, TrueIsTrue DEF SaysTrue, RegistersTrue
<1>13. \A r \in Reqs : Ask(r) \notin {c, d} /\ Forward(r) \notin {c, d}
    BY <1>1, <1>7, NoClient
<1>14. DOMAIN remotes' = Nodes /\ \A m \in Nodes : TrueThen(remotes'[m])
    BY <1>1, TrueIsTrue DEF IInv, Shape
<1>15. {c, d} \subseteq Calls /\ \A x \in {c, d} \cap DOMAIN call' : SaysTrue(x) /\ RegistersTrue(x)
    BY <1>2, <1>3, <1>11, <1>12
<1> QED BY <1>1, <1>9, <1>10, <1>13, <1>14, <1>15, OtherStep

-------------------------------------------------------------------------------
(* Instances that follow, and instances that change what they are.         *)

\* No call is touched.
LEMMA NoCallStep ==
    ASSUME IInv, UNCHANGED <<call, queue, applied, remotes, master, started>>,
           phase' \in [Nodes -> Phases], isMaster' \in [Nodes -> BOOLEAN],
           \A n \in Nodes : isMaster'[n] \/ phase'[n] # "down" => n \in started,
           counter' \in [Nodes -> Nat \ {0}], \A n \in Nodes : counter[n] <= counter'[n],
           \A n \in Nodes \ started : counter'[n] = 1,
           RegistrationsAreTrue', FollowsAMaster'
    PROVE  IInv' /\ Promised
<1>1. Touches({}) /\ {} \subseteq Calls
    BY DEF Touches
<1>2. Promised
    BY <1>1, FrameIsPromised
<1>3. /\ queue' \in [Nodes -> Seq(Calls)] /\ QueueIn(queue', call')
      /\ DOMAIN remotes' = Nodes /\ master' \in [Nodes -> Nodes] /\ started' \subseteq Nodes
      /\ applied' \in [Reqs -> {0, 1}]
    BY DEF IInv, Shape, QueuedOnce, QueueIn
<1>4. \A n \in Nodes : TrueThen(remotes'[n])
    BY TrueStays DEF IInv, Shape, MessagesAreTrue
<1>5. IInv'
    BY <1>1, <1>3, <1>4, Frame
<1> QED BY <1>2, <1>5

LEMMA PollIs ==
    ASSUME IInv, NEW n \in Nodes, Poll(n)
    PROVE  IInv' /\ Promised
<1>1. /\ UNCHANGED <<call, queue, applied, remotes, roles, masters, started>>
      /\ phase[n] = "looping"
      /\ \/ \E k \in counter[n] + 1 .. counter[master[n]] :
              counter' = [counter EXCEPT ![n] = k]
         \/ UNCHANGED counter
    BY DEF Poll, Looping, hist
<1>2. RegistrationsAreTrue' /\ FollowsAMaster'
    <2>1. Touches({})
        BY <1>1 DEF Touches
    <2> QED BY <1>1, <2>1, RegistrationsStay DEF IInv
<1>3. counter \in [Nodes -> Nat \ {0}] /\ master[n] \in Nodes /\ n \in started
    BY <1>1 DEF IInv, Shape
<1>4. counter' \in [Nodes -> Nat \ {0}] /\ \A m \in Nodes : counter[m] <= counter'[m]
    <2>1. CASE UNCHANGED counter
        BY <1>3, <2>1
    <2>2. ASSUME NEW k \in counter[n] + 1 .. counter[master[n]],
                 counter' = [counter EXCEPT ![n] = k]
          PROVE  counter' \in [Nodes -> Nat \ {0}] /\ \A m \in Nodes : counter[m] <= counter'[m]
        <3>1. counter[n] \in Nat /\ counter[master[n]] \in Nat
            BY <1>3
        <3>2. k \in Nat \ {0} /\ counter[n] <= k
            BY <3>1
        <3> QED BY <1>3, <2>2, <3>2
    <2> QED BY <1>1, <2>1, <2>2
<1>5. \A m \in Nodes \ started : counter'[m] = 1
    BY <1>1, <1>3 DEF IInv, Shape
<1>6. /\ phase' \in [Nodes -> Phases] /\ isMaster' \in [Nodes -> BOOLEAN]
      /\ \A m \in Nodes : isMaster'[m] \/ phase'[m] # "down" => m \in started
      /\ UNCHANGED master
    BY <1>1 DEF IInv, Shape, roles
<1> QED BY <1>1, <1>2, <1>4, <1>5, <1>6, NoCallStep

LEMMA LoopEndsIs ==
    ASSUME IInv, NEW n \in Nodes, LoopEnds(n)
    PROVE  IInv' /\ Promised
<1>1. /\ UNCHANGED <<call, queue, applied, remotes, isMaster, master, masters, started, counter>>
      /\ phase[n] = "looping" /\ phase' = [phase EXCEPT ![n] = "serving"]
    BY DEF LoopEnds, Looping, hist, tables
<1>2. /\ phase' \in [Nodes -> Phases] /\ \A m \in Nodes : m # n => phase'[m] = phase[m]
      /\ phase'[n] = "serving"
    BY <1>1 DEF IInv, Shape, Phases
<1>3. RegistrationsAreTrue' /\ FollowsAMaster'
    BY <1>1, <1>2 DEF IInv, Shape, RegistrationsAreTrue, FollowsAMaster
<1>4. /\ counter' \in [Nodes -> Nat \ {0}] /\ isMaster' \in [Nodes -> BOOLEAN]
      /\ \A m \in Nodes : isMaster'[m] \/ phase'[m] # "down" => m \in started
      /\ \A m \in Nodes : counter[m] <= counter'[m]
      /\ \A m \in Nodes \ started : counter'[m] = 1
    BY <1>1, <1>2 DEF IInv, Shape
<1> QED BY <1>1, <1>2, <1>3, <1>4, NoCallStep

LEMMA ElectIs ==
    ASSUME IInv, NEW n \in Nodes, Elect(n)
    PROVE  IInv' /\ Promised
<1>1. /\ UNCHANGED <<call, queue, applied, remotes, master, started, counter>>
      /\ phase[n] = "looping" /\ phase' = [phase EXCEPT ![n] = "serving"]
      /\ isMaster' = [isMaster EXCEPT ![n] = TRUE] /\ masters' = masters \cup {n}
    BY DEF Elect, Looping
<1>2. /\ phase' \in [Nodes -> Phases] /\ \A m \in Nodes : m # n => phase'[m] = phase[m]
      /\ phase'[n] = "serving"
      /\ isMaster' \in [Nodes -> BOOLEAN] /\ \A m \in Nodes : m # n => isMaster'[m] = isMaster[m]
    BY <1>1 DEF IInv, Shape, Phases
<1>3. RegistrationsAreTrue' /\ FollowsAMaster'
    BY <1>1, <1>2 DEF IInv, Shape, RegistrationsAreTrue, FollowsAMaster
<1>4. /\ counter' \in [Nodes -> Nat \ {0}]
      /\ \A m \in Nodes : isMaster'[m] \/ phase'[m] # "down" => m \in started
      /\ \A m \in Nodes : counter[m] <= counter'[m]
      /\ \A m \in Nodes \ started : counter'[m] = 1
    BY <1>1, <1>2 DEF IInv, Shape
<1> QED BY <1>1, <1>2, <1>3, <1>4, NoCallStep

LEMMA LoseMasterIs ==
    ASSUME IInv, NEW n \in Nodes, LoseMaster(n)
    PROVE  IInv' /\ Promised
<1> DEFINE c == Rally(n)
           new == [to |-> n, conn |-> "open", run |-> "busy", sub |-> None,
                   todo |-> DOMAIN remotes[n], msg |-> Host(n), reply |-> None]
<1>1. /\ c \notin DOMAIN call /\ call' = Merge([d \in {c} |-> new], call)
      /\ UNCHANGED <<roles, masters, started, counter, applied, remotes, queue>>
    BY DEF LoseMaster, tables, hist
<1>2. c \in Calls /\ c.kind = "rally" /\ ~Single(c)
    <2>1. c \in [kind : {"register", "rally"}, of : Nodes, nth : Nat]
        BY DEF Rally
    <2> QED BY <2>1 DEF Calls, Rally, Single
<1>3. /\ DOMAIN call' = DOMAIN call \cup {c} /\ call'[c] = new
      /\ \A d \in DOMAIN call : d # c => call'[d] = call[d]
    BY <1>1 DEF Merge
<1>4. Touches({c})
    BY <1>3 DEF Touches
<1>5. queue' \in [Nodes -> Seq(Calls)] /\ QueueIn(queue', call')
    BY <1>1, <1>2, <1>4, QueueUnmoved
<1>6. DOMAIN remotes' = Nodes /\ \A m \in Nodes : TrueThen(remotes'[m])
    BY <1>1, TrueIsTrue DEF IInv, Shape
<1>7. SaysTrue(c) /\ RegistersTrue(c)
    <2>1. TrueThen(Host(n))
        BY <1>1 DEF Host, TrueThen, IInv, Shape
    <2>2. DOMAIN remotes[n] \subseteq Nodes
        BY DEF IInv, MessagesAreTrue, HostsAreTrue
    <2>3. DOMAIN new = Fields /\ new.msg = Host(n) /\ new.todo = DOMAIN remotes[n]
        BY DEF Fields
    <2> QED BY <1>2, <1>3, <2>1, <2>2, <2>3 DEF SaysTrue, RegistersTrue
<1>8. \A r \in Reqs : Ask(r) \notin {c} /\ Forward(r) \notin {c}
    BY <1>2, NoClient
<1> HIDE DEF c
<1> QED BY <1>1, <1>2, <1>4, <1>5, <1>6, <1>7, <1>8, OtherStep

LEMMA StartSlaveIs ==
    ASSUME IInv, NEW n \in Nodes, NEW m \in Nodes, StartSlave(n, m)
    PROVE  IInv' /\ Promised
<1> DEFINE c == Register(n, 1)
           hosts == [h \in {n} |-> counter[m]]
<1>1. /\ n \notin started /\ n # m /\ started' = started \cup {n}
      /\ phase' = [phase EXCEPT ![n] = "joining"] /\ master' = [master EXCEPT ![n] = m]
      /\ counter' = [counter EXCEPT ![n] = counter[m]]
      /\ call' = Sent(call, c, m, hosts) /\ queue' = Queued(queue, c, m)
      /\ UNCHANGED <<isMaster, remotes, applied, masters>>
    BY DEF StartSlave
<1>2. c \in Calls /\ c.kind = "register" /\ c.of = n
    <2>1. c \in [kind : {"register", "rally"}, of : Nodes, nth : Nat]
        BY DEF Register
    <2> QED BY <2>1 DEF Calls, Register
<1>3. \A d \in DOMAIN call : d.kind = "register" => d.of # n
    BY <1>1 DEF IInv, RegistrationsAreTrue
<1>4. c \notin DOMAIN call
    BY <1>2, <1>3
<1> HIDE DEF c, hosts
<1>5. /\ DOMAIN call' = DOMAIN call \cup {c} /\ call'[c] = NewCall(m, hosts)
      /\ \A d \in DOMAIN call : d # c => call'[d] = call[d]
      /\ queue' \in [Nodes -> Seq(Calls)] /\ QueueIn(queue', call')
    <2>1. queue \in [Nodes -> Seq(Calls)] /\ QueueIn(queue, call)
        BY DEF IInv, Shape, QueuedOnce, QueueIn
    <2> QED BY <1>1, <1>2, <1>4, <2>1, SendQueues
<1>6. /\ DOMAIN call'[c] = Fields /\ call'[c].to = m /\ call'[c].todo = {}
      /\ call'[c].msg = hosts /\ call'[c].conn # "ok"
    BY <1>5, NewCallIs
<1>7. Touches({c})
    BY <1>5 DEF Touches
<1>8. /\ counter' \in [Nodes -> Nat \ {0}] /\ counter'[n] = counter[m]
      /\ \A k \in Nodes : counter[k] <= counter'[k]
      /\ \A k \in Nodes \ started' : counter'[k] = 1
    <2>1. counter \in [Nodes -> Nat \ {0}] /\ \A k \in Nodes \ started : counter[k] = 1
        BY DEF IInv, Shape
    <2>2. counter[n] = 1 /\ counter[m] \in Nat \ {0}
        BY <1>1, <2>1
    <2>3. \A k \in Nodes : counter'[k] = IF k = n THEN counter[m] ELSE counter[k]
        BY <1>1, <2>1
    <2>4. counter' \in [Nodes -> Nat \ {0}]
        BY <1>1, <2>1
    <2> QED BY <1>1, <2>1, <2>2, <2>3, <2>4
<1>9. /\ phase \in [Nodes -> Phases] /\ phase' \in [Nodes -> Phases]
      /\ isMaster' \in [Nodes -> BOOLEAN]
      /\ master' \in [Nodes -> Nodes] /\ started' \subseteq Nodes
      /\ master'[n] = m /\ phase'[n] = "joining"
      /\ \A k \in Nodes : k # n => phase'[k] = phase[k] /\ master'[k] = master[k]
      /\ \A k \in Nodes : isMaster'[k] \/ phase'[k] # "down" => k \in started'
    BY <1>1 DEF IInv, Shape, Phases
<1>10. FollowsAMaster'
    BY <1>1, <1>9 DEF IInv, FollowsAMaster
<1>11. RegistrationsAreTrue'
    <2> SUFFICES ASSUME NEW d \in DOMAIN call', d.kind = "register"
                 PROVE  /\ d.of \in started'
                        /\ phase'[d.of] = "joining" => call'[d].to = master'[d.of]
                        /\ call'[d].conn = "ok" =>
                             /\ call'[d].run = "done" /\ call'[d].reply.master \in Nodes
                             /\ call'[d].reply.isMaster => call'[d].to \in masters'
                        /\ \A e \in DOMAIN call' : e.kind = "register" /\ e.of = d.of => e = d
        BY <1>1 DEF RegistrationsAreTrue, IInv
    <2>1. CASE d = c
        BY <1>1, <1>2, <1>3, <1>5, <1>6, <1>9, <2>1
    <2>2. CASE d # c
        <3>1. d \in DOMAIN call /\ call'[d] = call[d] /\ d.of # n
            BY <1>3, <1>5, <2>2
        <3>2. d.of \in started /\ d.of \in Nodes
            BY <3>1 DEF IInv, RegistrationsAreTrue, Shape
        <3>3. phase'[d.of] = phase[d.of] /\ master'[d.of] = master[d.of]
            BY <1>9, <3>1, <3>2
        <3> QED BY <1>1, <1>2, <1>5, <3>1, <3>2, <3>3 DEF IInv, RegistrationsAreTrue
    <2> QED BY <2>1, <2>2
<1>12. SaysTrue(c)
    <2>1. DOMAIN hosts = {n} /\ hosts[n] = counter[m]
        BY DEF hosts
    <2>2. TrueThen(hosts)
        BY <1>8, <2>1 DEF TrueThen
    <2> QED BY <1>6, <2>2 DEF SaysTrue
<1>13. \A k \in Nodes : TrueThen(remotes'[k])
    BY <1>1, <1>8, TrueStays DEF IInv, Shape, MessagesAreTrue
<1>14. \A r \in Reqs : Ask(r) \notin {c} /\ Forward(r) \notin {c}
    BY <1>2, NoClient
<1>15. Promised
    BY <1>1, <1>7, <1>14, FrameIsPromised
<1>16. DOMAIN remotes' = Nodes /\ applied' \in [Reqs -> {0, 1}] /\ {c} \subseteq Calls
    BY <1>1, <1>2 DEF IInv, Shape
<1>17. IInv'
    <2>1. \A d \in {c} \cap DOMAIN call' : SaysTrue(d)
        BY <1>12
    <2>2. \A r \in Reqs : Ask(r) \in {c} \/ Forward(r) \in {c} \/ applied'[r] # applied[r]
                            => AskIsTrue(r)' /\ ForwardIsTrue(r)'
        BY <1>1, <1>14
    <2> QED
        BY <1>5, <1>7, <1>8, <1>9, <1>10, <1>11, <1>13, <1>16, <2>1, <2>2, Frame
<1> QED BY <1>15, <1>17

\* The process of n ends.
LEMMA StopIs ==
    ASSUME IInv, NEW n \in Nodes, StopAt(n)
    PROVE  IInv' /\ Promised
<1> DEFINE S == {c \in DOMAIN call : call[c].to = n /\ call[c].run # "done"}
<1>1. /\ phase' = [phase EXCEPT ![n] = "down"] /\ isMaster' = [isMaster EXCEPT ![n] = FALSE]
      /\ remotes' = [remotes EXCEPT ![n] = NoHosts] /\ queue' = [queue EXCEPT ![n] = <<>>]
      /\ UNCHANGED <<master, counter, applied, masters, started>>
    BY DEF StopAt
<1>2. /\ DOMAIN call' = DOMAIN call
      /\ \A c \in DOMAIN call : call'[c] = IF c \in S THEN Answered(call, c, "cut", None)[c]
                                                      ELSE call[c]
    BY DEF StopAt
<1>3. ASSUME NEW c \in S
      PROVE  /\ c \in DOMAIN call /\ call[c].to = n /\ call[c].run # "done"
             /\ DOMAIN call'[c] = Fields /\ call'[c].to = n /\ call'[c].run = "done"
             /\ call'[c].todo = {} /\ call'[c].msg = NoHosts
             /\ call'[c].conn = IF call[c].conn = "open" THEN "cut" ELSE call[c].conn
             /\ call'[c].reply = IF call[c].conn = "open" THEN None ELSE call[c].reply
    <2>1. c \in DOMAIN call /\ DOMAIN call[c] = Fields
        BY CallIs
    <2>2. call'[c] = Answered(call, c, "cut", None)[c]
        BY <1>2, <2>1
    <2> QED BY <2>1, <2>2, AnsweredIs
<1>4. \A c \in DOMAIN call : c \notin S => call'[c] = call[c]
    BY <1>2
<1> HIDE DEF S
<1>5. Touches(S)
    BY <1>2, <1>4 DEF Touches
<1>6. /\ phase' \in [Nodes -> Phases] /\ isMaster' \in [Nodes -> BOOLEAN]
      /\ phase'[n] = "down" /\ isMaster'[n] = FALSE
      /\ \A m \in Nodes : m # n => phase'[m] = phase[m] /\ isMaster'[m] = isMaster[m]
      /\ queue' \in [Nodes -> Seq(Calls)]
      /\ queue'[n] = <<>> /\ \A m \in Nodes : m # n => queue'[m] = queue[m]
      /\ DOMAIN remotes' = Nodes
      /\ remotes'[n] = NoHosts /\ \A m \in Nodes : m # n => remotes'[m] = remotes[m]
      /\ master' \in [Nodes -> Nodes] /\ started' \subseteq Nodes
      /\ counter' \in [Nodes -> Nat \ {0}] /\ applied' \in [Reqs -> {0, 1}]
      /\ \A m \in Nodes : counter[m] <= counter'[m]
      /\ \A m \in Nodes \ started' : counter'[m] = 1
    BY <1>1 DEF IInv, Shape, Phases
<1>7. \A m \in Nodes : isMaster'[m] \/ phase'[m] # "down" => m \in started'
    BY <1>1, <1>6 DEF IInv, Shape
<1>8. QueueIn(queue', call')
    <2> SUFFICES ASSUME NEW m \in Nodes, NEW i \in 1 .. Len(queue'[m]), Single(queue'[m][i])
                 PROVE  /\ queue'[m][i] \in DOMAIN call'
                        /\ call'[queue'[m][i]].to = m /\ call'[queue'[m][i]].run = "queued"
                        /\ \A j \in 1 .. Len(queue'[m]) : j # i => queue'[m][j] # queue'[m][i]
        BY DEF QueueIn
    <2>1. m # n
        BY <1>6
    <2>2. queue'[m] = queue[m]
        BY <1>6, <2>1
    <2> DEFINE c == queue[m][i]
    <2>3. /\ c \in DOMAIN call /\ call[c].to = m /\ call[c].run = "queued"
          /\ \A j \in 1 .. Len(queue[m]) : j # i => queue[m][j] # c
        BY <2>2 DEF IInv, QueuedOnce
    <2>4. c \notin S
        BY <1>3, <2>1, <2>3
    <2> QED BY <1>2, <1>4, <2>2, <2>3, <2>4
<1>9. \A m \in Nodes : TrueThen(remotes'[m])
    BY <1>1, <1>6, TrueIsTrue DEF TrueThen, NoHosts
<1>10. \A c \in S : SaysTrue(c)
    <2> SUFFICES ASSUME NEW c \in S PROVE SaysTrue(c)
        OBVIOUS
    <2>1. c.kind \in {"register", "tell"} /\ call[c].conn = "ok" =>
            HostsAreTrue(call[c].reply.hosts)
        BY <1>3, CallIs
    <2> QED BY <1>1, <1>3, <2>1, TrueIsTrue DEF SaysTrue, TrueThen, NoHosts
<1>11. FollowsAMaster'
    BY <1>1, <1>6 DEF IInv, FollowsAMaster
<1>12. RegistrationsAreTrue'
    <2> SUFFICES ASSUME NEW d \in DOMAIN call', d.kind = "register"
                 PROVE  /\ d.of \in started'
                        /\ phase'[d.of] = "joining" => call'[d].to = master'[d.of]
                        /\ call'[d].conn = "ok" =>
                             /\ call'[d].run = "done" /\ call'[d].reply.master \in Nodes
                             /\ call'[d].reply.isMaster => call'[d].to \in masters'
                        /\ \A e \in DOMAIN call' : e.kind = "register" /\ e.of = d.of => e = d
        BY <1>1, <1>6 DEF RegistrationsAreTrue, IInv
    <2>1. /\ d \in DOMAIN call /\ d.of \in started /\ d.of \in Nodes
          /\ phase[d.of] = "joining" => call[d].to = master[d.of]
          /\ call[d].conn = "ok" =>
               /\ call[d].run = "done" /\ call[d].reply.master \in Nodes
               /\ call[d].reply.isMaster => call[d].to \in masters
          /\ \A e \in DOMAIN call : e.kind = "register" /\ e.of = d.of => e = d
        BY <1>2 DEF IInv, RegistrationsAreTrue, Shape
    <2>2. phase'[d.of] = "joining" => phase[d.of] = "joining"
        BY <1>6, <2>1
    <2>3. CASE d \notin S
        BY <1>1, <1>2, <1>4, <2>1, <2>2, <2>3
    <2>4. CASE d \in S
        <3>1. call'[d].to = call[d].to /\ call'[d].conn # "ok"
            BY <1>3, <2>1, <2>4
        <3> QED BY <1>1, <1>2, <2>1, <2>2, <3>1
    <2> QED BY <2>3, <2>4
<1>13. ASSUME NEW r \in Reqs
       PROVE  /\ AskIsTrue(r)' /\ ForwardIsTrue(r)'
              /\ \/ Outcome(r)' = Outcome(r)
                 \/ Outcome(r) = "asked" /\ Outcome(r)' = "lost"
    <2> DEFINE a == Ask(r)
               f == Forward(r)
    <2>1. AskIsTrue(r) /\ ForwardIsTrue(r)
        BY DEF IInv
    <2>2. CASE a \notin DOMAIN call
        BY <1>1, <1>2, <2>1, <2>2 DEF AskIsTrue, ForwardIsTrue, Outcome
    <2>3. CASE a \in DOMAIN call
        <3>1. /\ a \in DOMAIN call'
              /\ f \in DOMAIN call' <=> f \in DOMAIN call
            BY <1>2, <2>3
        <3>2. \/ call'[a] = call[a]
              \/ /\ call[a].run # "done" /\ call'[a].run = "done"
                 /\ call'[a].conn = IF call[a].conn = "open" THEN "cut" ELSE call[a].conn
            BY <1>3, <1>4, <2>3
        <3>3. f \in DOMAIN call =>
                \/ call'[f] = call[f]
                \/ /\ call[f].run # "done" /\ call'[f].run = "done"
                   /\ call'[f].conn = IF call[f].conn = "open" THEN "cut" ELSE call[f].conn
            BY <1>3, <1>4
        <3>4. f \in DOMAIN call => call[f].conn \in {"open", "ok", "error", "cut"}
            BY <2>1 DEF ForwardIsTrue
        <3>5. ForwardIsTrue(r)'
            BY <1>1, <2>1, <3>1, <3>3 DEF ForwardIsTrue
        <3>6. AskIsTrue(r)'
            BY <1>1, <2>1, <2>3, <3>1, <3>2, <3>3 DEF AskIsTrue
        <3>7. call[a].run # "done" => call[a].conn \in {"open", "cut"}
            BY <2>1, <2>3 DEF AskIsTrue
        <3>8. CASE call'[a] = call[a]
            <4>1. call[a].conn \in {"open", "ok", "cut", "notfound", "error"}
                BY <2>1, <2>3 DEF AskIsTrue
            <4>2. call[a].conn = "error" =>
                    (f \in DOMAIN call /\ call[f].conn = "cut" <=>
                     f \in DOMAIN call' /\ call'[f].conn = "cut")
                BY <2>1, <2>3, <3>1, <3>3 DEF AskIsTrue
            <4>3. Outcome(r)' = Outcome(r)
                BY <2>3, <3>1, <3>8, <4>1, <4>2, OutcomeIs, OutcomeWillBe
            <4> QED BY <3>5, <3>6, <4>3
        <3>9. CASE call'[a] # call[a]
            <4>1. /\ call[a].conn \in {"open", "cut"} /\ call'[a].conn = "cut"
                BY <3>2, <3>7, <3>9
            <4>2. Outcome(r) \in {"asked", "lost"} /\ Outcome(r)' = "lost"
                BY <2>3, <3>1, <4>1, OutcomeIs, OutcomeWillBe
            <4> QED BY <3>5, <3>6, <4>2
        <3> QED BY <3>8, <3>9
    <2> QED BY <2>2, <2>3
<1>14. Promised
    BY <1>1, <1>13, LossIsPromised
<1>15. IInv'
    <2>1. S \subseteq Calls
        BY <1>3, CallIs
    <2> QED BY <1>5, <1>6, <1>7, <1>8, <1>9, <1>10, <1>11, <1>12, <1>13, <2>1, Frame
<1> QED BY <1>14, <1>15

\* A registration that was answered is forgotten: what is left of it.
LEMMA AnswerIsRead ==
    ASSUME IInv, NEW n \in Nodes, NEW c \in DOMAIN call, c.kind = "register", c.of = n,
           call[c].conn = "ok", NEW cs, cs = Forgotten(call, c)
    PROVE  /\ DOMAIN cs = DOMAIN call \ {c} /\ \A d \in DOMAIN cs : cs[d] = call[d]
           /\ call[c].reply.master \in Nodes
           /\ call[c].reply.isMaster => call[c].to \in masters
           /\ TrueThen(call[c].reply.hosts) \/ counter' # counter
           /\ QueueIn(queue, cs)
           /\ \A d \in DOMAIN cs : d.kind = "register" => d.of # n
<1>1. /\ call[c].run = "done" /\ call[c].reply.master \in Nodes
      /\ call[c].reply.isMaster => call[c].to \in masters
      /\ \A d \in DOMAIN call : d.kind = "register" /\ d.of = n => d = c
    BY DEF IInv, RegistrationsAreTrue
<1>2. DOMAIN cs = DOMAIN call \ {c} /\ \A d \in DOMAIN cs : cs[d] = call[d]
    BY <1>1 DEF Forgotten, Restrict
<1>3. TrueThen(call[c].reply.hosts) \/ counter' # counter
    BY CallIs, TrueIsTrue
<1>4. QueueIn(queue, cs)
    <2>1. QueueIn(queue, call) /\ Keeps(call, cs, c)
        BY <1>2 DEF IInv, QueuedOnce, QueueIn, Keeps
    <2>2. c \in DOMAIN call => (Single(c) => call[c].run # "queued")
        BY <1>1
    <2> QED BY <2>1, <2>2, QueueStays
<1> QED BY <1>1, <1>2, <1>3, <1>4

\* The master answered.
LEMMA JoinedMaster ==
    ASSUME IInv, NEW n \in Nodes, NEW c \in DOMAIN call, c.kind = "register", c.of = n,
           phase[n] = "joining", call[c].conn = "ok", call[c].reply.isMaster,
           remotes' = [remotes EXCEPT ![n] = Merge(call[c].reply.hosts, @)],
           phase' = [phase EXCEPT ![n] = "looping"], call' = Forgotten(call, c),
           UNCHANGED <<isMaster, master, counter, queue, applied, masters, started>>
    PROVE  IInv' /\ Promised
<1>1. /\ DOMAIN call' = DOMAIN call \ {c} /\ \A d \in DOMAIN call' : call'[d] = call[d]
      /\ call[c].to \in masters /\ TrueThen(call[c].reply.hosts)
      /\ QueueIn(queue, call')
    BY AnswerIsRead
<1>2. Touches({c}) /\ {c} \subseteq Calls /\ {c} \cap DOMAIN call' = {}
    BY <1>1, CallIs DEF Touches
<1>3. \A r \in Reqs : Ask(r) \notin {c} /\ Forward(r) \notin {c}
    BY NoClient
<1>4. Promised
    BY <1>2, <1>3, FrameIsPromised
<1>5. DOMAIN remotes' = Nodes /\ \A m \in Nodes : TrueThen(remotes'[m])
    <2> DEFINE hosts == Merge(call[c].reply.hosts, remotes[n])
    <2>1. TrueThen(hosts)
        BY <1>1, TrueIsTrue, MergeIsTrue
    <2>2. remotes' = [remotes EXCEPT ![n] = hosts]
        OBVIOUS
    <2> HIDE DEF hosts
    <2> QED BY <2>1, <2>2, TablesStay
<1>6. /\ phase' \in [Nodes -> Phases] /\ \A m \in Nodes : m # n => phase'[m] = phase[m]
      /\ phase'[n] = "looping" /\ isMaster' \in [Nodes -> BOOLEAN]
      /\ master' \in [Nodes -> Nodes] /\ started' \subseteq Nodes
      /\ counter' \in [Nodes -> Nat \ {0}] /\ applied' \in [Reqs -> {0, 1}]
      /\ queue' \in [Nodes -> Seq(Calls)] /\ QueueIn(queue', call')
      /\ \A m \in Nodes : counter[m] <= counter'[m]
      /\ \A m \in Nodes \ started' : counter'[m] = 1
    BY <1>1 DEF IInv, Shape, Phases
<1>7. \A m \in Nodes : isMaster'[m] \/ phase'[m] # "down" => m \in started'
    BY <1>6 DEF IInv, Shape
<1>8. call[c].to = master[n]
    BY DEF IInv, RegistrationsAreTrue
<1>9. FollowsAMaster'
    BY <1>1, <1>6, <1>8 DEF IInv, FollowsAMaster
<1>10. RegistrationsAreTrue'
    BY <1>1, <1>6 DEF IInv, Shape, RegistrationsAreTrue
<1>11. IInv'
    <2>1. \A d \in {c} \cap DOMAIN call' : SaysTrue(d)
        BY <1>2
    <2> QED BY <1>2, <1>3, <1>5, <1>6, <1>7, <1>9, <1>10, <2>1, Frame
<1> QED BY <1>4, <1>11

\* Another instance answered: the one it names is asked.
LEMMA JoinedOther ==
    ASSUME IInv, NEW n \in Nodes, NEW c \in DOMAIN call, c.kind = "register", c.of = n,
           phase[n] = "joining", call[c].conn = "ok",
           NEW k \in Nat, Register(n, k) \notin DOMAIN call,
           master' = [master EXCEPT ![n] = call[c].reply.master],
           call' = Sent(Forgotten(call, c), Register(n, k), call[c].reply.master, Host(n)),
           queue' = Queued(queue, Register(n, k), call[c].reply.master),
           UNCHANGED <<phase, isMaster, remotes, counter, applied, masters, started>>
    PROVE  IInv' /\ Promised
<1> DEFINE e == Register(n, k)
           m == call[c].reply.master
           cs == Forgotten(call, c)
           hosts == Host(n)
<1>1. /\ DOMAIN cs = DOMAIN call \ {c} /\ \A d \in DOMAIN cs : cs[d] = call[d]
      /\ m \in Nodes /\ QueueIn(queue, cs)
      /\ \A d \in DOMAIN cs : d.kind = "register" => d.of # n
    BY AnswerIsRead
<1>2. e \in Calls /\ e.kind = "register" /\ e.of = n /\ e # c
    <2>1. e \in [kind : {"register", "rally"}, of : Nodes, nth : Nat]
        BY DEF Register
    <2> QED BY <2>1 DEF Calls, Register
<1>3. /\ call' = Sent(cs, e, m, hosts) /\ queue' = Queued(queue, e, m)
      /\ master' = [master EXCEPT ![n] = m]
    OBVIOUS
<1>4. e \notin DOMAIN cs
    BY <1>1, <1>2
<1>5. TrueThen(hosts)
    BY DEF Host, TrueThen, IInv, Shape
<1> HIDE DEF e, m, cs, hosts
<1>6. /\ DOMAIN call' = DOMAIN cs \cup {e} /\ call'[e] = NewCall(m, hosts)
      /\ \A d \in DOMAIN cs : d # e => call'[d] = cs[d]
      /\ queue' \in [Nodes -> Seq(Calls)] /\ QueueIn(queue', call')
    <2>1. queue \in [Nodes -> Seq(Calls)] /\ QueueIn(queue, cs) /\ e \in Calls
        BY <1>1, <1>2 DEF IInv, Shape
    <2>2. Single(e) => e \notin DOMAIN cs
        BY <1>4
    <2>3. call' = Sent(cs, e, m, hosts) /\ queue' = Queued(queue, e, m)
        BY <1>3
    <2> QED BY <2>1, <2>2, <2>3, SendQueues
<1>7. /\ DOMAIN call'[e] = Fields /\ call'[e].to = m /\ call'[e].todo = {}
      /\ call'[e].msg = hosts /\ call'[e].conn # "ok"
    BY <1>6, NewCallIs
<1>8. Touches({c, e}) /\ {c, e} \subseteq Calls /\ c \notin DOMAIN call'
    BY <1>1, <1>2, <1>6, CallIs DEF Touches
<1>9. \A r \in Reqs : Ask(r) \notin {c, e} /\ Forward(r) \notin {c, e}
    BY <1>2, NoClient
<1>10. Promised
    BY <1>8, <1>9, FrameIsPromised
<1>11. /\ master' \in [Nodes -> Nodes] /\ master'[n] = m
       /\ \A i \in Nodes : i # n => master'[i] = master[i]
       /\ phase' \in [Nodes -> Phases] /\ isMaster' \in [Nodes -> BOOLEAN]
       /\ started' \subseteq Nodes /\ counter' \in [Nodes -> Nat \ {0}]
       /\ applied' \in [Reqs -> {0, 1}]
       /\ \A i \in Nodes : counter[i] <= counter'[i]
       /\ \A i \in Nodes \ started' : counter'[i] = 1
       /\ DOMAIN remotes' = Nodes
    BY <1>1, <1>3 DEF IInv, Shape
<1>12. /\ \A i \in Nodes : isMaster'[i] \/ phase'[i] # "down" => i \in started'
       /\ n \in started
    BY <1>11 DEF IInv, Shape
<1>13. FollowsAMaster'
    BY <1>11 DEF IInv, FollowsAMaster
<1>14. RegistrationsAreTrue'
    <2> SUFFICES ASSUME NEW d \in DOMAIN call', d.kind = "register"
                 PROVE  /\ d.of \in started'
                        /\ phase'[d.of] = "joining" => call'[d].to = master'[d.of]
                        /\ call'[d].conn = "ok" =>
                             /\ call'[d].run = "done" /\ call'[d].reply.master \in Nodes
                             /\ call'[d].reply.isMaster => call'[d].to \in masters'
                        /\ \A x \in DOMAIN call' : x.kind = "register" /\ x.of = d.of => x = d
        BY DEF RegistrationsAreTrue, IInv
    <2>1. CASE d = e
        BY <1>1, <1>2, <1>6, <1>7, <1>11, <1>12, <2>1
    <2>2. CASE d # e
        <3>1. d \in DOMAIN call /\ call'[d] = call[d] /\ d.of # n
            BY <1>1, <1>6, <2>2
        <3>2. d.of \in started /\ d.of \in Nodes
            BY <3>1 DEF IInv, RegistrationsAreTrue, Shape
        <3>3. master'[d.of] = master[d.of]
            BY <1>11, <3>1, <3>2
        <3>4. \A x \in DOMAIN call' : x = e \/ x \in DOMAIN call
            BY <1>1, <1>6
        <3>5. /\ phase[d.of] = "joining" => call[d].to = master[d.of]
              /\ call[d].conn = "ok" =>
                   /\ call[d].run = "done" /\ call[d].reply.master \in Nodes
                   /\ call[d].reply.isMaster => call[d].to \in masters
              /\ \A x \in DOMAIN call : x.kind = "register" /\ x.of = d.of => x = d
            BY <3>1 DEF IInv, RegistrationsAreTrue
        <3>6. \A x \in DOMAIN call' : x.kind = "register" /\ x.of = d.of => x = d
            BY <1>2, <3>1, <3>4, <3>5
        <3> QED BY <3>1, <3>2, <3>3, <3>5, <3>6
    <2> QED BY <2>1, <2>2
<1>15. \A d \in {c, e} \cap DOMAIN call' : SaysTrue(d)
    BY <1>5, <1>7, <1>8 DEF SaysTrue
<1>16. \A i \in Nodes : TrueThen(remotes'[i])
    BY TrueIsTrue
<1>17. IInv'
    BY <1>6, <1>8, <1>9, <1>11, <1>12, <1>13, <1>14, <1>15, <1>16, Frame
<1> QED BY <1>10, <1>17

LEMMA JoinedIs ==
    ASSUME IInv, NEW n \in Nodes, NEW k \in 1 .. 3, Joined(n, k)
    PROVE  IInv' /\ Promised
<1> DEFINE c == Register(n, k)
<1>1. /\ phase[n] = "joining" /\ c \in DOMAIN call
      /\ Register(n, k + 1) \notin DOMAIN call /\ k + 1 \in Nat
    BY DEF Joined
<1>2. c.kind = "register" /\ c.of = n
    BY DEF Register
<1>3. CASE /\ call[c].conn = "ok" /\ call[c].reply.isMaster
           /\ remotes' = [remotes EXCEPT ![n] = Merge(call[c].reply.hosts, @)]
           /\ phase' = [phase EXCEPT ![n] = "looping"]
           /\ call' = Forgotten(call, c)
           /\ UNCHANGED <<isMaster, master, counter, lastslave, queue, acts, hist>>
    BY <1>1, <1>2, <1>3, JoinedMaster DEF hist
<1>4. CASE /\ call[c].conn = "ok"
           /\ master' = [master EXCEPT ![n] = call[c].reply.master]
           /\ call' = Sent(Forgotten(call, c), Register(n, k + 1), call[c].reply.master, Host(n))
           /\ queue' = Queued(queue, Register(n, k + 1), call[c].reply.master)
           /\ UNCHANGED <<phase, isMaster, tables, acts, hist>>
    BY <1>1, <1>2, <1>4, JoinedOther DEF tables, hist
<1>5. CASE StopAt(n)
    BY <1>5, StopIs
<1> QED BY <1>3, <1>4, <1>5 DEF Joined

-------------------------------------------------------------------------------
(* The invariant, and what follows from it.                                *)

LEMMA InitIs == Init => IInv
<1> SUFFICES ASSUME Init PROVE IInv
    OBVIOUS
<1> USE ClusterAssumption
<1>1. /\ DOMAIN call = {} /\ \A n \in Nodes : queue[n] = <<>> /\ remotes[n] = NoHosts
      /\ queue \in [Nodes -> Seq(Calls)]
    BY DEF Init
<1>2. Shape
    <2>1. /\ phase \in [Nodes -> Phases] /\ isMaster \in [Nodes -> BOOLEAN]
          /\ \A n \in Nodes : isMaster[n] \/ phase[n] # "down" => n \in started
        BY DEF Init, Phases
    <2>2. /\ master \in [Nodes -> Nodes] /\ DOMAIN remotes = Nodes /\ started \subseteq Nodes
          /\ counter \in [Nodes -> Nat \ {0}] /\ applied \in [Reqs -> {0, 1}]
          /\ \A n \in Nodes \ started : counter[n] = 1
        BY DEF Init
    <2> QED BY <1>1, <2>1, <2>2 DEF Shape
<1>3. QueuedOnce
    BY <1>1 DEF QueuedOnce
<1>4. RegistrationsAreTrue /\ FollowsAMaster
    BY <1>1 DEF Init, RegistrationsAreTrue, FollowsAMaster
<1>5. MessagesAreTrue
    BY <1>1 DEF MessagesAreTrue, HostsAreTrue, NoHosts
<1>6. \A r \in Reqs : AskIsTrue(r) /\ ForwardIsTrue(r)
    BY <1>1 DEF Init, AskIsTrue, ForwardIsTrue
<1> QED BY <1>2, <1>3, <1>4, <1>5, <1>6 DEF IInv

LEMMA StepIs ==
    ASSUME IInv, [Next]_vars
    PROVE  IInv' /\ Promised
<1>1. CASE UNCHANGED vars
    <2>1. UNCHANGED <<phase, isMaster, master, counter, remotes, queue, call, applied,
                      masters, started>>
        BY <1>1 DEF vars, roles, tables, hist
    <2>2. /\ phase' \in [Nodes -> Phases] /\ isMaster' \in [Nodes -> BOOLEAN]
          /\ \A n \in Nodes : isMaster'[n] \/ phase'[n] # "down" => n \in started
          /\ counter' \in [Nodes -> Nat \ {0}]
          /\ \A n \in Nodes : counter[n] <= counter'[n]
          /\ \A n \in Nodes \ started : counter'[n] = 1
        BY <2>1 DEF IInv, Shape
    <2>3. RegistrationsAreTrue' /\ FollowsAMaster'
        BY <2>1 DEF IInv, RegistrationsAreTrue, FollowsAMaster
    <2> QED BY <2>1, <2>2, <2>3, NoCallStep
<1>2. ASSUME NEW n \in Nodes, NEW r \in Reqs, ClientCalls(r, n) PROVE IInv' /\ Promised
    BY <1>2, ClientCallsIs
<1>3. ASSUME NEW n \in Nodes, Step(n) PROVE IInv' /\ Promised
    <2>1. ASSUME NEW r \in Reqs,
                 \/ HandleAsk(n, r) \/ HandleForward(n, r) \/ HandlePush(n, r)
                 \/ Forwarded(n, r) \/ Pushed(n, r) \/ Respond(n, r)
          PROVE  IInv' /\ Promised
        BY <2>1, HandleAskIs, HandleForwardIs, HandlePushIs, ForwardedIs, PushedIs, RespondIs
    <2>2. ASSUME NEW c \in DOMAIN call,
                 \/ HandleRegister(n, c) \/ HandleTell(n, c)
                 \/ TellNext(n, c) \/ Told(n, c) \/ TellDone(n, c)
          PROVE  IInv' /\ Promised
        BY <2>2, HandleRegisterIs, HandleTellIs, TellNextIs, ToldIs, TellDoneIs
    <2>3. ASSUME NEW k \in 1 .. 3, Joined(n, k) PROVE IInv' /\ Promised
        BY <2>3, JoinedIs
    <2> QED BY <1>3, <2>1, <2>2, <2>3 DEF Step
<1>4. ASSUME NEW n \in Nodes, Crash(n) PROVE IInv' /\ Promised
    BY <1>4, StopIs DEF Crash
<1>5. ASSUME NEW n \in Nodes, NEW m \in Nodes, StartSlave(n, m) PROVE IInv' /\ Promised
    BY <1>5, StartSlaveIs
<1>6. ASSUME NEW n \in Nodes, Poll(n) \/ LoseMaster(n) \/ Elect(n) \/ LoopEnds(n)
      PROVE  IInv' /\ Promised
    BY <1>6, PollIs, LoseMasterIs, ElectIs, LoopEndsIs
<1>7. ASSUME Timeouts PROVE IInv' /\ Promised
    BY <1>7, TimeoutIs DEF Timeouts
<1> QED BY <1>1, <1>2, <1>3, <1>4, <1>5, <1>6, <1>7 DEF Next

\* The invariant of every behaviour: how far the call of each client has come, and
\* where each registration and each thing said about an instance comes from.
THEOREM Invariance == Spec => []IInv
<1>1. IInv /\ [Next]_vars => IInv'
    BY StepIs
<1> QED BY InitIs, <1>1, PTL DEF Spec

\* However many instances are started, pointed at any of those that serve, and elect
\* themselves: one that has joined forwards its writes to one that is or was a master.
THEOREM EachFollowsAMaster == Spec => []FollowsAMaster
<1>1. IInv => FollowsAMaster
    BY DEF IInv
<1> QED BY Invariance, <1>1, PTL

\* Nothing that HostUpdate and registrations pass on makes a table say of an instance
\* what was never true of it.
THEOREM TablesSayWhatWasTrue == Spec => []TablesAreTrue
<1>1. IInv => TablesAreTrue
    BY DEF IInv, MessagesAreTrue, HostsAreTrue, TablesAreTrue
<1> QED BY Invariance, <1>1, PTL

\* With any number of clients, threads and instances, and with any of them stopping
\* or connections cut at any point, every client's call keeps what ClientCalls says.
THEOREM Refinement == Spec => ImplementsClientCalls
<1>1. Init => Abstract!Init
    BY DEF Init, Abstract!Init, Outcome
<1>2. IInv /\ [Next]_vars => Promised
    BY StepIs
<1> QED BY Invariance, <1>1, <1>2, PTL DEF Spec, Promised, ImplementsClientCalls, Abstract!Spec

-------------------------------------------------------------------------------
(* Types.  The parts of NamesInv, of the queues q and the calls cs.        *)

\* A call has the fields of a call, and waits for one of its own.
Fits(cs, c) ==
    /\ DOMAIN cs[c] = Fields /\ cs[c].to \in Nodes
    /\ cs[c].conn \in {"open", "ok", "error", "cut", "notfound"}
    /\ cs[c].run \in {"queued", "busy", "done"}
    /\ cs[c].reply # None => IsReply(cs[c].reply)
    /\ cs[c].sub # None => /\ cs[c].run = "busy" /\ cs[c].sub \in DOMAIN cs
                           /\ Owns(c, cs[c].sub)

\* A queue has the calls that wait for a thread of its instance, each once.
Exact(q, cs) ==
    \A n \in Nodes :
        /\ IsInjective(q[n])
        /\ Range(q[n]) = {c \in DOMAIN cs : cs[c].to = n /\ cs[c].run = "queued"}

\* TellsAreNew.
Tells(cs, st) ==
    /\ \A c \in DOMAIN cs : /\ c.kind = "register" => c.nth > 0
                            /\ c.kind = "rally" => c.nth = 0
    /\ \A d \in DOMAIN cs : d.kind = "tell" =>
         /\ d.nth = 0 => Rally(d.of) \in DOMAIN cs
         /\ d.nth # 0 => d.of \in st
         /\ \A c \in DOMAIN cs : c.kind \in {"register", "rally"} /\ c.of = d.of =>
              /\ c.kind = "register" => d.nth <= c.nth
              /\ c.nth = d.nth => cs[c].run # "queued" /\ d.to \notin cs[c].todo

\* The calls ds differ from cs in those of S at most.
Alike(cs, ds, S) ==
    \A d \in DOMAIN ds : d \notin S => d \in DOMAIN cs /\ ds[d] = cs[d]

\* NamesInv in these terms,
LEMMA NamesInvIs ==
    ASSUME NamesInv
    PROVE  /\ IInv /\ \A c \in DOMAIN call : c \in Calls /\ Fits(call, c)
           /\ Exact(queue, call) /\ Tells(call, started) /\ PushesAreNew
           /\ queue \in [Nodes -> Seq(Calls)]
           /\ lastslave \in [Nodes -> Nodes \cup {None}]
           /\ acts \in [Reqs -> {"none", "nothing", "here", "master"}]
           /\ masters \subseteq Nodes /\ crashed \subseteq Mortal
<1>1. \A c \in DOMAIN call : c \in Calls /\ Fits(call, c)
    BY DEF NamesInv, TypeOK, IsCall, IInv, Shape, SubsAreOwn, Fits, Fields
<1>2. Exact(queue, call)
    BY DEF NamesInv, TypeOK, Exact
<1>3. Tells(call, started)
    <2>1. TellsAreNew
        BY DEF NamesInv
    <2> QED BY <2>1 DEF TellsAreNew, Tells
<1> QED BY <1>1, <1>2, <1>3 DEF NamesInv, TypeOK, IInv, Shape

\* and back: what a step has to keep.
LEMMA NamesInvThen ==
    ASSUME IInv', \A c \in DOMAIN call' : Fits(call', c),
           Exact(queue', call'), Tells(call', started'), PushesAreNew',
           lastslave' \in [Nodes -> Nodes \cup {None}],
           acts' \in [Reqs -> {"none", "nothing", "here", "master"}],
           masters' \subseteq Nodes, crashed' \subseteq Mortal
    PROVE  NamesInv'
<1>1. /\ DOMAIN remotes' = Nodes /\ \A n \in Nodes : IsHosts(remotes[n])'
      /\ \A c \in DOMAIN call' : IsHosts(call[c].msg)' /\ call'[c].todo \subseteq Nodes
    BY DEF IInv, Shape, MessagesAreTrue, HostsAreTrue, IsHosts
<1>2. \A c \in DOMAIN call' : IsCall(c)'
    BY <1>1 DEF Fits, IsCall, IsReply, IsHosts
<1>3. SubsAreOwn'
    BY DEF Fits, SubsAreOwn, Owns
<1>4. TellsAreNew'
    BY DEF Tells, TellsAreNew
<1>5. /\ phase' \in [Nodes -> Phases]
      /\ isMaster' \in [Nodes -> BOOLEAN] /\ master' \in [Nodes -> Nodes]
      /\ counter' \in [Nodes -> Nat] /\ DOMAIN queue' = Nodes
      /\ applied' \in [Reqs -> Nat] /\ started' \subseteq Nodes
    <2>1. Shape'
        BY DEF IInv
    <2>2. counter' \in [Nodes -> Nat]
        BY <2>1 DEF Shape
    <2>3. applied' \in [Reqs -> Nat]
        <3>1. applied' \in [Reqs -> {0, 1}]
            BY <2>1 DEF Shape
        <3> QED BY <3>1
    <2> QED BY <2>1, <2>2, <2>3 DEF Shape
<1>6. TypeOK'
    BY <1>1, <1>2, <1>5 DEF TypeOK, Exact
<1> QED BY <1>3, <1>4, <1>6 DEF NamesInv

\* Calls that are left alone stay well-formed if none they wait for is forgotten.
LEMMA FitsStays ==
    ASSUME NEW cs, NEW ds, NEW S, Alike(cs, ds, S), \A c \in DOMAIN cs : Fits(cs, c),
           \A c \in DOMAIN ds \cap S : Fits(ds, c),
           \A c \in DOMAIN ds \ S : cs[c].sub # None => cs[c].sub \in DOMAIN ds
    PROVE  \A c \in DOMAIN ds : Fits(ds, c)
BY DEF Fits, Alike

\* Calls that tell nobody new keep what is known of those that tell.
LEMMA TellsStay ==
    ASSUME NEW cs, NEW ds, NEW st, NEW su, NEW S, Alike(cs, ds, S), Tells(cs, st), st \subseteq su,
           \A c \in DOMAIN ds \cap S : c.kind \in {"tell", "register", "rally"} =>
               /\ c \in DOMAIN cs /\ (ds[c].run = "queued" => cs[c].run = "queued")
               /\ ds[c].todo \subseteq cs[c].todo,
           \A c \in DOMAIN cs : c.kind = "rally" => c \in DOMAIN ds
    PROVE  Tells(ds, su)
<1>1. \A c \in DOMAIN ds : c.kind \in {"tell", "register", "rally"} =>
               /\ c \in DOMAIN cs /\ (ds[c].run = "queued" => cs[c].run = "queued")
               /\ ds[c].todo \subseteq cs[c].todo
    BY DEF Alike
<1>2. \A n : Rally(n) \in DOMAIN cs => Rally(n) \in DOMAIN ds
    BY DEF Rally
<1> QED BY <1>1, <1>2 DEF Tells

\* Queues stay exact when no call comes to wait for a thread or gets one.
LEMMA ExactStays ==
    ASSUME NEW q, NEW cs, NEW ds, Exact(q, cs),
           \A c \in DOMAIN cs : cs[c].run = "queued" =>
              c \in DOMAIN ds /\ ds[c].to = cs[c].to /\ ds[c].run = "queued",
           \A c \in DOMAIN ds : ds[c].run = "queued" =>
              c \in DOMAIN cs /\ cs[c].to = ds[c].to /\ cs[c].run = "queued"
    PROVE  Exact(q, ds)
<1>1. ASSUME NEW n \in Nodes
      PROVE  {c \in DOMAIN cs : cs[c].to = n /\ cs[c].run = "queued"}
             = {c \in DOMAIN ds : ds[c].to = n /\ ds[c].run = "queued"}
    OBVIOUS
<1> QED BY <1>1 DEF Exact

\* A queue without its head,
LEMMA ShorterIs ==
    ASSUME NEW S, NEW q \in Seq(S), q # <<>>, IsInjective(q)
    PROVE  Range(Tail(q)) = Range(q) \ {Head(q)} /\ IsInjective(Tail(q)) /\ Head(q) \in Range(q)
<1>1. /\ Tail(q) \in Seq(S) /\ Len(q) \in Nat /\ Len(q) > 0 /\ Len(Tail(q)) = Len(q) - 1
      /\ DOMAIN q = 1 .. Len(q) /\ DOMAIN Tail(q) = 1 .. Len(q) - 1
      /\ \A i \in 1 .. Len(q) - 1 : Tail(q)[i] = q[i + 1]
      /\ Head(q) = q[1]
    OBVIOUS
<1>2. IsInjective(Tail(q))
    BY <1>1 DEF IsInjective
<1>3. \A i \in 1 .. Len(q) : i = 1 \/ (i - 1 \in 1 .. Len(q) - 1 /\ Tail(q)[i - 1] = q[i])
    BY <1>1
<1>4. \A i \in 1 .. Len(q) - 1 : i + 1 \in 1 .. Len(q) /\ q[i + 1] # q[1]
    BY <1>1 DEF IsInjective
<1>5. Range(Tail(q)) \subseteq Range(q) \ {Head(q)}
    BY <1>1, <1>4 DEF Range
<1>6. ASSUME NEW y \in Range(q), y # Head(q) PROVE y \in Range(Tail(q))
    <2>1. PICK i \in 1 .. Len(q) : y = q[i]
        BY <1>1, <1>6 DEF Range
    <2>2. i - 1 \in DOMAIN Tail(q) /\ Tail(q)[i - 1] = y
        BY <1>1, <1>3, <1>6, <2>1
    <2> QED BY <2>2 DEF Range
<1>7. Head(q) \in Range(q)
    BY <1>1 DEF Range
<1> QED BY <1>2, <1>5, <1>6, <1>7

\* and one with a new call at its end.
LEMMA LongerIs ==
    ASSUME NEW S, NEW q \in Seq(S), NEW e \in S, IsInjective(q), e \notin Range(q)
    PROVE  Range(Append(q, e)) = Range(q) \cup {e} /\ IsInjective(Append(q, e))
<1>1. /\ Len(q) \in Nat /\ DOMAIN q = 1 .. Len(q)
      /\ DOMAIN Append(q, e) = 1 .. Len(q) + 1
      /\ \A i \in 1 .. Len(q) : Append(q, e)[i] = q[i] /\ q[i] # e
      /\ Append(q, e)[Len(q) + 1] = e
    BY DEF Range
<1>2. \A i \in 1 .. Len(q) + 1 : i \in 1 .. Len(q) \/ i = Len(q) + 1
    BY <1>1
<1>3. IsInjective(Append(q, e))
    BY <1>1, <1>2 DEF IsInjective
<1>4. Range(Append(q, e)) \subseteq Range(q) \cup {e}
    BY <1>1, <1>2 DEF Range
<1>5. Range(q) \cup {e} \subseteq Range(Append(q, e))
    BY <1>1 DEF Range
<1> QED BY <1>3, <1>4, <1>5

\* Queues stay exact when a call with a new name is sent,
LEMMA ExactSent ==
    ASSUME NEW q \in [Nodes -> Seq(Calls)], NEW cs, Exact(q, cs),
           NEW n \in Nodes, NEW c \in Calls, c \notin DOMAIN cs, NEW hosts
    PROVE  Exact(Queued(q, c, n), Sent(cs, c, n, hosts))
<1> DEFINE p == Queued(q, c, n)
           ds == Sent(cs, c, n, hosts)
<1>1. /\ DOMAIN ds = DOMAIN cs \cup {c} /\ \A d \in DOMAIN cs : ds[d] = cs[d]
      /\ ds[c].to = n /\ ds[c].run = IF Serving(n) THEN "queued" ELSE "done"
    <2>1. /\ DOMAIN ds = DOMAIN cs \cup {c} /\ ds[c] = NewCall(n, hosts)
          /\ \A d \in DOMAIN cs : d # c => ds[d] = cs[d]
        BY DEF Sent, Merge
    <2>2. NewCall(n, hosts).to = n /\ NewCall(n, hosts).run = IF Serving(n) THEN "queued" ELSE "done"
        BY DEF NewCall
    <2> HIDE DEF ds
    <2> QED BY <2>1, <2>2
<1> HIDE DEF ds
<1>2. CASE ~Serving(n)
    <2>1. p = q
        BY <1>2 DEF Queued
    <2> QED BY <1>1, <1>2, <2>1, ExactStays DEF ds
<1>3. CASE Serving(n)
    <2>1. p[n] = Append(q[n], c) /\ \A m \in Nodes : m # n => p[m] = q[m]
        BY <1>3 DEF Queued
    <2> HIDE DEF p
    <2>2. /\ IsInjective(q[n]) /\ q[n] \in Seq(Calls)
          /\ Range(q[n]) = {d \in DOMAIN cs : cs[d].to = n /\ cs[d].run = "queued"}
        BY DEF Exact
    <2>3. Range(p[n]) = Range(q[n]) \cup {c} /\ IsInjective(p[n])
        BY <2>1, <2>2, LongerIs
    <2>4. Range(p[n]) = {d \in DOMAIN ds : ds[d].to = n /\ ds[d].run = "queued"}
        BY <1>1, <1>3, <2>2, <2>3
    <2>5. ASSUME NEW m \in Nodes, m # n
          PROVE  /\ IsInjective(p[m])
                 /\ Range(p[m]) = {d \in DOMAIN ds : ds[d].to = m /\ ds[d].run = "queued"}
        <3>1. {d \in DOMAIN cs : cs[d].to = m /\ cs[d].run = "queued"}
              = {d \in DOMAIN ds : ds[d].to = m /\ ds[d].run = "queued"}
            BY <1>1, <2>5
        <3> QED BY <2>1, <2>5, <3>1 DEF Exact
    <2> QED BY <2>3, <2>4, <2>5 DEF Exact, p, ds
<1> QED BY <1>2, <1>3

\* What a step makes of the other variables has their types.
TypesStay ==
    /\ lastslave' \in [Nodes -> Nodes \cup {None}]
    /\ acts' \in [Reqs -> {"none", "nothing", "here", "master"}]
    /\ masters' \subseteq Nodes /\ crashed' \subseteq Mortal
    /\ started \subseteq started'

\* A step that changes the calls of S, and sends no registration and no tell.
LEMMA CallsChange ==
    ASSUME NamesInv, IInv', NEW S, TypesStay, PushesAreNew', Exact(queue', call'),
           Alike(call, call', S),
           \A c \in DOMAIN call' \cap S : Fits(call', c),
           \A c \in DOMAIN call' \ S : call[c].sub # None => call[c].sub \in DOMAIN call',
           \A c \in DOMAIN call' \cap S : c.kind \in {"tell", "register", "rally"} =>
               /\ c \in DOMAIN call /\ (call'[c].run = "queued" => call[c].run = "queued")
               /\ call'[c].todo \subseteq call[c].todo,
           \A c \in DOMAIN call : c.kind = "rally" => c \in DOMAIN call'
    PROVE  NamesInv'
<1>1. \A c \in DOMAIN call : Fits(call, c)
    BY NamesInvIs
<1>2. \A c \in DOMAIN call' : Fits(call', c)
    BY <1>1, FitsStays
<1>3. Tells(call, started) /\ started \subseteq started'
    BY NamesInvIs DEF TypesStay
<1>4. Tells(call', started')
    BY <1>3, TellsStay
<1> QED BY <1>2, <1>4, NamesInvThen DEF TypesStay

\* A call that waits for a thread is the one that its queue says.
LEMMA HeadIs ==
    ASSUME NamesInv, NEW n \in Nodes, NEW c, Taken(n, c)
    PROVE  /\ c \in DOMAIN call /\ call[c].to = n /\ call[c].run = "queued"
           /\ c \in Calls /\ Fits(call, c) /\ DOMAIN call[c] = Fields /\ call[c].sub = None
<1>1. /\ queue[n] \in Seq(Calls) /\ queue[n] # <<>> /\ c = Head(queue[n])
      /\ IsInjective(queue[n])
      /\ Range(queue[n]) = {d \in DOMAIN call : call[d].to = n /\ call[d].run = "queued"}
    BY NamesInvIs DEF Taken, Exact
<1>2. c \in Range(queue[n])
    BY <1>1, ShorterIs
<1>3. c \in DOMAIN call /\ call[c].to = n /\ call[c].run = "queued"
    BY <1>1, <1>2
<1>4. c \in Calls /\ Fits(call, c)
    BY <1>3, NamesInvIs
<1> QED BY <1>3, <1>4 DEF Fits

\* and when a thread takes a call.
LEMMA TakenPops ==
    ASSUME NamesInv, NEW n \in Nodes, NEW c, Taken(n, c), NEW ds,
           DOMAIN ds = DOMAIN call, \A d \in DOMAIN call : d # c => ds[d] = call[d],
           ds[c].run # "queued"
    PROVE  Popped(n) \in [Nodes -> Seq(Calls)] /\ Exact(Popped(n), ds)
<1> DEFINE p == Popped(n)
<1>1. queue \in [Nodes -> Seq(Calls)] /\ Exact(queue, call)
    BY NamesInvIs
<1>2. queue[n] # <<>> /\ c = Head(queue[n])
    BY DEF Taken
<1>3. Tail(queue[n]) \in Seq(Calls)
    BY <1>1, <1>2
<1>4. /\ p \in [Nodes -> Seq(Calls)] /\ p[n] = Tail(queue[n])
      /\ \A m \in Nodes : m # n => p[m] = queue[m]
    BY <1>1, <1>3 DEF Popped
<1> HIDE DEF p
<1>5. /\ IsInjective(queue[n]) /\ queue[n] \in Seq(Calls)
      /\ Range(queue[n]) = {d \in DOMAIN call : call[d].to = n /\ call[d].run = "queued"}
    BY <1>1 DEF Exact
<1>6. Range(p[n]) = Range(queue[n]) \ {c} /\ IsInjective(p[n]) /\ c \in Range(queue[n])
    BY <1>2, <1>4, <1>5, ShorterIs
<1>7. Range(p[n]) = {d \in DOMAIN ds : ds[d].to = n /\ ds[d].run = "queued"}
    BY <1>5, <1>6
<1>8. ASSUME NEW m \in Nodes, m # n
      PROVE  /\ IsInjective(p[m])
             /\ Range(p[m]) = {d \in DOMAIN ds : ds[d].to = m /\ ds[d].run = "queued"}
    <2>1. /\ IsInjective(queue[m])
          /\ Range(queue[m]) = {d \in DOMAIN call : call[d].to = m /\ call[d].run = "queued"}
        BY <1>1, <1>8 DEF Exact
    <2>2. call[c].to = n
        BY <1>5, <1>6
    <2>3. {d \in DOMAIN call : call[d].to = m /\ call[d].run = "queued"}
          = {d \in DOMAIN ds : ds[d].to = m /\ ds[d].run = "queued"}
        BY <1>8, <2>2
    <2> QED BY <1>4, <1>8, <2>1, <2>3
<1>9. Exact(p, ds)
    BY <1>6, <1>7, <1>8 DEF Exact
<1> QED BY <1>4, <1>9 DEF p

\* A call just sent.
LEMMA NewFits ==
    ASSUME NEW cs, NEW d \in DOMAIN cs, NEW m \in Nodes, NEW hosts, cs[d] = NewCall(m, hosts)
    PROVE  Fits(cs, d)
<1>1. /\ DOMAIN NewCall(m, hosts) = Fields /\ NewCall(m, hosts).to = m
      /\ NewCall(m, hosts).sub = None /\ NewCall(m, hosts).reply = None
      /\ NewCall(m, hosts).conn \in {"open", "error"}
      /\ NewCall(m, hosts).run \in {"queued", "done"}
    <2>1. NewCall(m, hosts).reply = None
        BY DEF NewCall
    <2> QED BY <2>1, NewCallIs
<1> QED BY <1>1 DEF Fits

\* A call that is answered.
LEMMA AnswerFits ==
    ASSUME NEW c \in DOMAIN call, Fits(call, c),
           NEW v \in {"open", "ok", "error", "cut", "notfound"},
           NEW reply, reply = None \/ IsReply(reply)
    PROVE  /\ Fits(Answered(call, c, v, reply), c)
           /\ Answered(call, c, v, reply)[c].sub = None
<1> DEFINE a == Answered(call, c, v, reply)
<1>1. DOMAIN call[c] = Fields
    BY DEF Fits
<1>2. /\ DOMAIN a[c] = Fields /\ a[c].to = call[c].to /\ a[c].run = "done"
      /\ a[c].conn = IF call[c].conn = "open" THEN v ELSE call[c].conn
      /\ a[c].reply = IF call[c].conn = "open" THEN reply ELSE call[c].reply
    BY <1>1, AnsweredIs
<1>3. a[c].sub = None
    BY <1>1 DEF Answered, Fields
<1> HIDE DEF a
<1>4. Fits(a, c)
    BY <1>2, <1>3 DEF Fits
<1> QED BY <1>3, <1>4 DEF a

\* A handler that answers,
LEMMA AnswerKeeps ==
    ASSUME NamesInv, IInv', NEW c \in DOMAIN call, call[c].run = "busy",
           NEW v \in {"open", "ok", "error", "cut", "notfound"},
           NEW reply, reply = None \/ IsReply(reply),
           call' = Answered(call, c, v, reply),
           TypesStay, UNCHANGED <<queue, applied>>
    PROVE  NamesInv'
<1>1. /\ Fits(call, c) /\ DOMAIN call[c] = Fields
      /\ Exact(queue, call) /\ PushesAreNew
    BY NamesInvIs DEF Fits
<1>2. /\ DOMAIN call' = DOMAIN call /\ \A d \in DOMAIN call : d # c => call'[d] = call[d]
      /\ call'[c].run = "done" /\ call'[c].todo = {}
    BY <1>1, AnsweredIs
<1>3. Fits(call', c)
    BY <1>1, AnswerFits
<1>4. Exact(queue', call')
    BY <1>1, <1>2, ExactStays
<1>5. PushesAreNew'
    BY <1>1, <1>2 DEF PushesAreNew
<1>6. Alike(call, call', {c})
    BY <1>2 DEF Alike
<1>7. \A d \in DOMAIN call' : call[d].sub # None => call[d].sub \in DOMAIN call'
    BY <1>2, NamesInvIs DEF Fits
<1> QED BY <1>2, <1>3, <1>4, <1>5, <1>6, <1>7, CallsChange

\* one that answers as soon as it has a thread,
LEMMA AnswerPopsKeeps ==
    ASSUME NamesInv, IInv', NEW n \in Nodes, NEW c, Taken(n, c),
           NEW v \in {"open", "ok", "error", "cut", "notfound"},
           NEW reply, reply = None \/ IsReply(reply),
           call' = Answered(call, c, v, reply), queue' = Popped(n),
           TypesStay, \A r \in Reqs : applied[r] = 1 => applied'[r] = 1
    PROVE  NamesInv'
<1>1. /\ c \in DOMAIN call /\ Fits(call, c) /\ DOMAIN call[c] = Fields
      /\ Exact(queue, call) /\ PushesAreNew /\ queue \in [Nodes -> Seq(Calls)]
    BY NamesInvIs, HeadIs
<1>2. /\ DOMAIN call' = DOMAIN call /\ \A d \in DOMAIN call : d # c => call'[d] = call[d]
      /\ call'[c].run = "done" /\ call'[c].todo = {}
    BY <1>1, AnsweredIs
<1>3. Fits(call', c)
    BY <1>1, AnswerFits
<1>4. Exact(queue', call')
    BY <1>2, TakenPops
<1>5. PushesAreNew'
    BY <1>1, <1>2 DEF PushesAreNew
<1>6. Alike(call, call', {c})
    BY <1>2 DEF Alike
<1>7. \A d \in DOMAIN call' : call[d].sub # None => call[d].sub \in DOMAIN call'
    BY <1>2, NamesInvIs DEF Fits
<1> QED BY <1>2, <1>3, <1>4, <1>5, <1>6, <1>7, CallsChange

\* one that acts and has nothing to push,
LEMMA BusyPopsKeeps ==
    ASSUME NamesInv, IInv', NEW n \in Nodes, NEW c, Taken(n, c),
           call' = Busy(c), queue' = Popped(n),
           TypesStay, \A r \in Reqs : applied[r] = 1 => applied'[r] = 1
    PROVE  NamesInv'
<1>1. /\ c \in DOMAIN call /\ Fits(call, c) /\ DOMAIN call[c] = Fields /\ call[c].sub = None
      /\ Exact(queue, call) /\ PushesAreNew /\ queue \in [Nodes -> Seq(Calls)]
    BY NamesInvIs, HeadIs
<1>2. /\ DOMAIN call' = DOMAIN call /\ \A d \in DOMAIN call : d # c => call'[d] = call[d]
      /\ DOMAIN call'[c] = Fields /\ call'[c].run = "busy"
      /\ \A x \in Fields \ {"run"} : call'[c][x] = call[c][x]
    BY <1>1, BusyIs
<1>3. Fits(call', c) /\ call'[c].todo = call[c].todo
    BY <1>1, <1>2 DEF Fits, Fields
<1>4. Exact(queue', call')
    BY <1>2, TakenPops
<1>5. PushesAreNew'
    BY <1>1, <1>2 DEF PushesAreNew
<1>6. Alike(call, call', {c})
    BY <1>2 DEF Alike
<1>7. \A d \in DOMAIN call' : call[d].sub # None => call[d].sub \in DOMAIN call'
    BY <1>2, NamesInvIs DEF Fits
<1> QED BY <1>2, <1>3, <1>4, <1>5, <1>6, <1>7, CallsChange

\* and one that calls another instance.
LEMMA SendPopsKeeps ==
    ASSUME NamesInv, IInv', NEW n \in Nodes, NEW c, Taken(n, c),
           NEW d \in Calls, d \notin DOMAIN call, d.kind \in {"forward", "push"}, Owns(c, d),
           NEW m \in Nodes,
           call' = Sent([Busy(c) EXCEPT ![c].sub = d], d, m, NoHosts),
           queue' = Queued(Popped(n), d, m),
           TypesStay, PushesAreNew'
    PROVE  NamesInv'
<1>1. /\ c \in DOMAIN call /\ Fits(call, c) /\ DOMAIN call[c] = Fields
      /\ Exact(queue, call) /\ queue \in [Nodes -> Seq(Calls)]
    BY NamesInvIs, HeadIs
<1> DEFINE cs == [Busy(c) EXCEPT ![c].sub = d]
<1>2. /\ DOMAIN cs = DOMAIN call /\ \A e \in DOMAIN call : e # c => cs[e] = call[e]
      /\ DOMAIN cs[c] = Fields /\ cs[c].run = "busy" /\ cs[c].sub = d
      /\ \A x \in Fields \ {"run", "sub"} : cs[c][x] = call[c][x]
    <2>1. /\ DOMAIN Busy(c) = DOMAIN call /\ \A e \in DOMAIN call : e # c => Busy(c)[e] = call[e]
          /\ DOMAIN Busy(c)[c] = Fields /\ Busy(c)[c].run = "busy"
          /\ \A x \in Fields \ {"run"} : Busy(c)[c][x] = call[c][x]
        BY <1>1, BusyIs
    <2>2. cs[c] = [Busy(c)[c] EXCEPT !.sub = d] /\ DOMAIN cs = DOMAIN Busy(c)
          /\ \A e \in DOMAIN call : e # c => cs[e] = Busy(c)[e]
        BY <1>1, <2>1
    <2> HIDE DEF cs
    <2> QED BY <1>1, <2>1, <2>2 DEF Fields
<1>3. call' = Sent(cs, d, m, NoHosts)
    OBVIOUS
<1> HIDE DEF cs
<1>4. Popped(n) \in [Nodes -> Seq(Calls)] /\ Exact(Popped(n), cs)
    BY <1>2, TakenPops
<1>5. Exact(queue', call')
    BY <1>2, <1>3, <1>4, ExactSent
<1>6. /\ DOMAIN call' = DOMAIN call \cup {d} /\ \A e \in DOMAIN call : call'[e] = cs[e]
      /\ call'[d] = NewCall(m, NoHosts)
    BY <1>2, <1>3 DEF Sent, Merge
<1>7. Fits(call', d)
    BY <1>6, NewFits
<1>8. Fits(call', c) /\ call'[c].run = "busy" /\ call'[c].todo = call[c].todo
    <2>1. /\ call'[c].to = call[c].to /\ call'[c].conn = call[c].conn
          /\ call'[c].reply = call[c].reply /\ call'[c].sub = d /\ call'[c].run = "busy"
          /\ DOMAIN call'[c] = Fields /\ call'[c].todo = call[c].todo
        BY <1>1, <1>2, <1>6 DEF Fields
    <2> QED BY <1>1, <1>6, <2>1 DEF Fits
<1>9. Alike(call, call', {c, d})
    BY <1>2, <1>6 DEF Alike
<1>10. \A e \in DOMAIN call' \ {c, d} : call[e].sub # None => call[e].sub \in DOMAIN call'
    BY <1>6, NamesInvIs DEF Fits
<1> QED BY <1>1, <1>5, <1>6, <1>7, <1>8, <1>9, <1>10, CallsChange

\* Nothing but calls, queues, counters, tables and phases changes.
LEMMA TypesUnchanged ==
    ASSUME NamesInv, UNCHANGED <<lastslave, acts, masters, started, crashed>>
    PROVE  TypesStay
BY NamesInvIs DEF TypesStay

\* What is said of an instance has the shape of an answer.
LEMMA StateIsReply ==
    ASSUME IInv, NEW n \in Nodes
    PROVE  IsReply(StateOf(n))
<1>1. isMaster[n] \in BOOLEAN /\ master[n] \in Nodes /\ counter[n] \in Nat
    BY DEF IInv, Shape
<1>2. IsHosts(remotes[n])
    BY DEF IInv, MessagesAreTrue, HostsAreTrue, IsHosts
<1>3. IsHosts(Host(n))
    BY <1>1 DEF Host, IsHosts
<1> QED BY <1>1, <1>2, <1>3 DEF StateOf, IsReply

\* The action is done for the first time.
LEMMA AppliedOnce ==
    ASSUME IInv, IInv', NEW r \in Reqs, applied' = [applied EXCEPT ![r] = @ + 1]
    PROVE  /\ applied[r] = 0 /\ applied'[r] = 1
           /\ \A q \in Reqs : applied[q] = 1 => applied'[q] = 1
<1>1. applied \in [Reqs -> {0, 1}] /\ applied' \in [Reqs -> {0, 1}]
    BY DEF IInv, Shape
<1>2. applied'[r] = applied[r] + 1 /\ \A q \in Reqs : q # r => applied'[q] = applied[q]
    BY <1>1
<1>3. applied[r] \in {0, 1} /\ applied'[r] \in {0, 1}
    BY <1>1
<1> QED BY <1>2, <1>3

\* The action on the master: the name of its push is new.
LEMMA ActKeeps ==
    ASSUME NamesInv, IInv', NEW n \in Nodes, NEW r \in Reqs, NEW c \in {Ask(r), Forward(r)},
           Taken(n, c), Act(n, c, r),
           UNCHANGED <<lastslave, acts, masters, started, crashed>>
    PROVE  NamesInv'
<1>1. TypesStay
    BY TypesUnchanged
<1>2. CASE /\ call' = Answered(call, c, "error", None) /\ queue' = Popped(n)
           /\ applied' \in {applied, [applied EXCEPT ![r] = @ + 1]}
    <2>1. \A q \in Reqs : applied[q] = 1 => applied'[q] = 1
        BY <1>2, AppliedOnce, NamesInvIs
    <2> QED BY <1>1, <1>2, <2>1, AnswerPopsKeeps
<1>3. CASE /\ applied' = [applied EXCEPT ![r] = @ + 1]
           /\ lastslave[n] = None /\ call' = Busy(c) /\ queue' = Popped(n)
    <2>1. \A q \in Reqs : applied[q] = 1 => applied'[q] = 1
        BY <1>3, AppliedOnce, NamesInvIs
    <2> QED BY <1>1, <1>3, <2>1, BusyPopsKeeps
<1>4. CASE /\ applied' = [applied EXCEPT ![r] = @ + 1]
           /\ lastslave[n] # None
           /\ call' = Sent([Busy(c) EXCEPT ![c].sub = Push(r)],
                           Push(r), lastslave[n], NoHosts)
           /\ queue' = Queued(Popped(n), Push(r), lastslave[n])
    <2>1. /\ applied[r] = 0 /\ applied'[r] = 1
          /\ \A q \in Reqs : applied[q] = 1 => applied'[q] = 1
        BY <1>4, AppliedOnce, NamesInvIs
    <2>2. PushesAreNew /\ lastslave[n] \in Nodes
        BY <1>4, NamesInvIs
    <2>3. Push(r) \notin DOMAIN call /\ Push(r) \in Calls
        BY <2>1, <2>2, Names DEF PushesAreNew
    <2>4. c \in DOMAIN call
        BY HeadIs
    <2>5. DOMAIN call' = DOMAIN call \cup {Push(r)}
        BY <1>4 DEF Sent, Merge, Busy
    <2>6. \A q \in Reqs : Push(q) = Push(r) => q = r
        BY DEF Push
    <2>7. PushesAreNew'
        BY <2>1, <2>2, <2>5, <2>6 DEF PushesAreNew
    <2>8. Owns(c, Push(r)) /\ Push(r).kind \in {"forward", "push"}
        BY DEF Owns, Ask, Forward, Push
    <2> QED BY <1>1, <1>4, <2>2, <2>3, <2>7, <2>8, SendPopsKeeps
<1> QED BY <1>2, <1>3, <1>4 DEF Act

\* The handlers that have just got a thread: those of clients' calls,
LEMMA HandleAskKeeps ==
    ASSUME NamesInv, IInv', NEW n \in Nodes, NEW r \in Reqs, HandleAsk(n, r)
    PROVE  NamesInv'
<1>1. /\ Taken(n, Ask(r)) /\ UNCHANGED <<lastslave, acts, masters, started, crashed>>
    BY DEF HandleAsk
<1>2. TypesStay
    BY <1>1, TypesUnchanged
<1>3. CASE /\ call' = Answered(call, Ask(r), "error", None) /\ queue' = Popped(n)
           /\ UNCHANGED <<counter, applied>>
    BY <1>1, <1>2, <1>3, AnswerPopsKeeps
<1>4. CASE /\ applied' = [applied EXCEPT ![r] = @ + 1]
           /\ call' = Busy(Ask(r)) /\ queue' = Popped(n)
    <2>1. \A q \in Reqs : applied[q] = 1 => applied'[q] = 1
        BY <1>4, AppliedOnce, NamesInvIs
    <2> QED BY <1>1, <1>2, <1>4, <2>1, BusyPopsKeeps
<1>5. CASE Act(n, Ask(r), r)
    BY <1>1, <1>5, ActKeeps
<1>6. CASE /\ call' = Sent([Busy(Ask(r)) EXCEPT ![Ask(r)].sub = Forward(r)],
                           Forward(r), master[n], NoHosts)
           /\ queue' = Queued(Popped(n), Forward(r), master[n])
           /\ UNCHANGED <<counter, applied>>
    <2>1. IInv /\ PushesAreNew
        BY NamesInvIs
    <2>2. master[n] \in Nodes
        BY <2>1 DEF IInv, Shape
    <2>3. Ask(r) \in DOMAIN call /\ call[Ask(r)].run = "queued"
        BY <1>1, HeadIs
    <2>4. Forward(r) \notin DOMAIN call /\ Forward(r) \in Calls
        BY <2>1, <2>3, Names DEF IInv, AskIsTrue
    <2>5. DOMAIN call' = DOMAIN call \cup {Forward(r)}
        BY <1>6 DEF Sent, Merge, Busy
    <2>6. \A q \in Reqs : Push(q) # Forward(r)
        BY DEF Push, Forward
    <2>7. PushesAreNew'
        BY <1>6, <2>1, <2>5, <2>6 DEF PushesAreNew
    <2>8. Owns(Ask(r), Forward(r)) /\ Forward(r).kind \in {"forward", "push"}
        BY DEF Owns, Ask, Forward
    <2> QED BY <1>1, <1>2, <1>6, <2>2, <2>4, <2>7, <2>8, SendPopsKeeps
<1> QED BY <1>3, <1>4, <1>5, <1>6 DEF HandleAsk

\* of forwards,
LEMMA HandleForwardKeeps ==
    ASSUME NamesInv, IInv', NEW n \in Nodes, NEW r \in Reqs, HandleForward(n, r)
    PROVE  NamesInv'
<1>1. /\ Taken(n, Forward(r)) /\ UNCHANGED <<lastslave, acts, masters, started, crashed>>
    BY DEF HandleForward
<1>2. TypesStay
    BY <1>1, TypesUnchanged
<1>3. CASE /\ call' = Answered(call, Forward(r), "error", None) /\ queue' = Popped(n)
           /\ UNCHANGED <<counter, applied>>
    BY <1>1, <1>2, <1>3, AnswerPopsKeeps
<1>4. CASE Act(n, Forward(r), r)
    BY <1>1, <1>4, ActKeeps
<1> QED BY <1>3, <1>4 DEF HandleForward

\* of pushes,
LEMMA HandlePushKeeps ==
    ASSUME NamesInv, IInv', NEW n \in Nodes, NEW r \in Reqs, HandlePush(n, r)
    PROVE  NamesInv'
<1>1. /\ Taken(n, Push(r)) /\ UNCHANGED <<lastslave, acts, masters, started, crashed, applied>>
      /\ queue' = Popped(n)
    BY DEF HandlePush, tables, hist
<1>2. PICK v \in {"ok", "error"} : call' = Answered(call, Push(r), v, None)
    BY DEF HandlePush
<1> QED BY <1>1, <1>2, TypesUnchanged, AnswerPopsKeeps

\* and of R_SETINFO.
LEMMA HandleTellKeeps ==
    ASSUME NamesInv, IInv', NEW n \in Nodes, NEW c, HandleTell(n, c)
    PROVE  NamesInv'
<1>1. /\ Taken(n, c) /\ UNCHANGED <<lastslave, acts, masters, started, crashed, applied>>
      /\ queue' = Popped(n)
    BY DEF HandleTell, hist
<1> DEFINE reply == [StateOf(n) EXCEPT !.hosts = IF isMaster[n] THEN remotes'[n] ELSE @]
<1>2. call' = Answered(call, c, "ok", reply)
    BY DEF HandleTell
<1>3. IsHosts(remotes'[n])
    BY DEF IInv, MessagesAreTrue, HostsAreTrue, IsHosts
<1>4. IsReply(StateOf(n))
    BY StateIsReply, NamesInvIs
<1>5. IsReply(reply)
    BY <1>3, <1>4 DEF IsReply
<1> HIDE DEF reply
<1> QED BY <1>1, <1>2, <1>5, TypesUnchanged, AnswerPopsKeeps

\* The names of calls by their kinds.
LEMMA NameIs ==
    ASSUME NEW c \in Calls
    PROVE  /\ c.kind \in {"ask", "forward", "push", "register", "rally", "tell"}
           /\ c.kind = "ask" => c.of \in Reqs /\ c = Ask(c.of)
           /\ c.kind = "forward" => c.of \in Reqs /\ c = Forward(c.of)
           /\ c.kind = "push" => c.of \in Reqs /\ c = Push(c.of)
           /\ c.kind = "register" => c.of \in Nodes /\ c.nth \in Nat /\ c = Register(c.of, c.nth)
           /\ c.kind = "rally" => /\ c.of \in Nodes /\ c.nth \in Nat
                                  /\ c.nth = 0 => c = Rally(c.of)
           /\ c.kind = "tell" => c.of \in Nodes /\ c.nth \in Nat /\ c.to \in Nodes
<1>1. CASE c \in [kind : {"ask", "forward", "push"}, of : Reqs]
    BY <1>1 DEF Ask, Forward, Push
<1>2. CASE c \in [kind : {"register", "rally"}, of : Nodes, nth : Nat]
    BY <1>2 DEF Register, Rally
<1>3. CASE c \in [kind : {"tell"}, of : Nodes, nth : Nat, to : Nodes]
    BY <1>3
<1> QED BY <1>1, <1>2, <1>3 DEF Calls

\* Handlers that go on: the master has answered,
LEMMA ForwardedKeeps ==
    ASSUME NamesInv, IInv', NEW n \in Nodes, NEW r \in Reqs, Forwarded(n, r)
    PROVE  NamesInv'
<1>1. /\ Ask(r) \in DOMAIN call /\ call[Ask(r)].run = "busy"
      /\ UNCHANGED <<lastslave, acts, masters, started, crashed, applied, queue>>
    BY DEF Forwarded, Waits, tables, hist
<1>2. PICK v \in {"ok", "error"} : call' = Answered(call, Ask(r), v, None)
    BY DEF Forwarded
<1> QED BY <1>1, <1>2, TypesUnchanged, AnswerKeeps

\* the action is done,
LEMMA RespondKeeps ==
    ASSUME NamesInv, IInv', NEW n \in Nodes, NEW r \in Reqs, Respond(n, r)
    PROVE  NamesInv'
<1>1. PICK c \in DOMAIN call :
         /\ call[c].run = "busy"
         /\ \E v \in {"ok", "error"} : call' = Answered(call, c, v, None)
         /\ UNCHANGED <<lastslave, acts, masters, started, crashed, applied, queue>>
    BY DEF Respond, Waits, tables, hist
<1>2. PICK v \in {"ok", "error"} : call' = Answered(call, c, v, None)
    BY <1>1
<1> QED BY <1>1, <1>2, TypesUnchanged, AnswerKeeps

\* everyone has been told,
LEMMA TellDoneKeeps ==
    ASSUME NamesInv, IInv', NEW n \in Nodes, NEW c \in DOMAIN call, TellDone(n, c)
    PROVE  NamesInv'
<1>1. /\ call[c].run = "busy"
      /\ UNCHANGED <<lastslave, acts, masters, started, crashed, applied, queue>>
    BY DEF TellDone, Waits, tables, hist
<1>2. IsReply(StateOf(n))
    BY StateIsReply, NamesInvIs
<1>3. PICK reply : /\ call' = Answered(call, c, "ok", reply)
                   /\ reply = None \/ IsReply(reply)
    BY <1>2 DEF TellDone
<1> QED BY <1>1, <1>3, TypesUnchanged, AnswerKeeps

\* A handler takes notice of the answer to d, for which nobody else waits.
LEMMA ForgetKeeps ==
    ASSUME NamesInv, IInv', TypesStay, UNCHANGED <<queue, applied>>,
           NEW c \in DOMAIN call, call[c].run = "busy",
           NEW d, d # c, d.kind # "rally",
           \A x \in DOMAIN call : x # c /\ call[x].sub # None => call[x].sub # d,
           NEW cs, DOMAIN cs = DOMAIN call, \A x \in DOMAIN call : x # c => cs[x] = call[x],
           DOMAIN cs[c] = Fields, cs[c].sub = None,
           \A x \in Fields \ {"sub", "msg"} : cs[c][x] = call[c][x],
           call' = Forgotten(cs, d)
    PROVE  NamesInv'
<1>1. /\ Fits(call, c) /\ Exact(queue, call) /\ PushesAreNew
      /\ \A x \in DOMAIN call : Fits(call, x)
    BY NamesInvIs
<1>2. /\ DOMAIN call' \subseteq DOMAIN call
      /\ \A x \in DOMAIN call : x \notin DOMAIN call' => x = d /\ cs[d].run = "done"
      /\ \A x \in DOMAIN call' : call'[x] = cs[x]
    BY DEF Forgotten, Restrict
<1>3. c \in DOMAIN call'
    BY <1>2
<1>4. /\ DOMAIN call'[c] = Fields /\ call'[c].sub = None /\ call'[c].run = "busy"
      /\ call'[c].to = call[c].to /\ call'[c].conn = call[c].conn
      /\ call'[c].reply = call[c].reply /\ call'[c].todo = call[c].todo
    BY <1>2, <1>3 DEF Fields
<1>5. Fits(call', c)
    BY <1>1, <1>4 DEF Fits
<1>6. \A x \in DOMAIN call' : x # c => call'[x] = call[x]
    BY <1>2
<1>7. \A x \in DOMAIN call : x \notin DOMAIN call' => x = d /\ call[x].run = "done"
    BY <1>2
<1>8. Exact(queue', call')
    BY <1>1, <1>2, <1>4, <1>6, <1>7, ExactStays
<1>9. PushesAreNew'
    BY <1>1, <1>2 DEF PushesAreNew
<1>10. Alike(call, call', {c})
    BY <1>2, <1>6 DEF Alike
<1>11. \A x \in DOMAIN call' \ {c} : call[x].sub # None => call[x].sub \in DOMAIN call'
    BY <1>1, <1>2, <1>7 DEF Fits
<1>12. \A x \in DOMAIN call : x.kind = "rally" => x \in DOMAIN call'
    BY <1>7
<1> QED BY <1>4, <1>5, <1>8, <1>9, <1>10, <1>11, <1>12, CallsChange

\* the push is over,
LEMMA PushedKeeps ==
    ASSUME NamesInv, IInv', NEW n \in Nodes, NEW r \in Reqs, Pushed(n, r)
    PROVE  NamesInv'
<1> DEFINE p == Push(r)
<1>1. PICK c \in {Ask(r), Forward(r)} \cap DOMAIN call :
         /\ Waits(c, p)
         /\ lastslave' = [lastslave EXCEPT ![n] = IF call[p].conn = "ok" THEN @ ELSE None]
         /\ call' = Forgotten([call EXCEPT ![c].sub = None], p)
         /\ UNCHANGED <<roles, counter, remotes, queue, acts, hist>>
    BY DEF Pushed
<1>2. IInv /\ \A x \in DOMAIN call : x \in Calls /\ Fits(call, x)
    BY NamesInvIs
<1>3. /\ call[c].run = "busy" /\ call[c].sub = p /\ DOMAIN call[c] = Fields
      /\ p # c /\ p.kind = "push" /\ p # None /\ p # Forward(r)
    BY <1>1, <1>2, Names, NoneAssumption DEF Waits, Fits
<1>4. TypesStay /\ UNCHANGED <<queue, applied>>
    BY <1>1, NamesInvIs DEF TypesStay, hist
<1> DEFINE cs == [call EXCEPT ![c].sub = None]
<1>5. /\ DOMAIN cs = DOMAIN call /\ \A d \in DOMAIN call : d # c => cs[d] = call[d]
      /\ DOMAIN cs[c] = Fields /\ cs[c].sub = None
      /\ \A x \in Fields \ {"sub"} : cs[c][x] = call[c][x]
    <2>1. /\ DOMAIN cs = DOMAIN call /\ \A d \in DOMAIN call : d # c => cs[d] = call[d]
          /\ cs[c] = [call[c] EXCEPT !.sub = None]
        BY <1>1
    <2> HIDE DEF cs
    <2>2. /\ DOMAIN cs[c] = Fields /\ cs[c].sub = None
          /\ \A x \in Fields \ {"sub"} : cs[c][x] = call[c][x]
        BY <1>3, <2>1 DEF Fields
    <2> QED BY <2>1, <2>2
<1>6. call' = Forgotten(cs, p)
    BY <1>1
<1>7. ASSUME NEW x \in DOMAIN call, x # c, call[x].sub = p PROVE FALSE
    <2>1. x \in Calls /\ Owns(x, p) /\ call[x].run = "busy"
        BY <1>2, <1>3, <1>7 DEF Fits
    <2>2. x \in {Ask(r), Forward(r)}
        <3>1. \A q \in Reqs : p = Push(q) => q = r
            BY DEF Push
        <3>2. \A q : p # Forward(q)
            BY DEF Push, Forward
        <3>3. \A y, h : p # Tell(y, h)
            BY DEF Push, Tell
        <3> QED BY <2>1, <3>1, <3>2, <3>3, NameIs DEF Owns
    <2>3. /\ Ask(r) \in DOMAIN call /\ Forward(r) \in DOMAIN call
          /\ call[Ask(r)].run = "busy" /\ call[Ask(r)].sub = p
        BY <1>1, <1>3, <1>7, <2>1, <2>2
    <2>4. AskIsTrue(r)
        BY <1>2 DEF IInv
    <2> QED BY <1>3, <2>3, <2>4 DEF AskIsTrue
<1>8. \A x \in DOMAIN call : x # c /\ call[x].sub # None => call[x].sub # p
    BY <1>7
<1> HIDE DEF cs, p
<1>9. c \in DOMAIN call /\ p.kind # "rally" /\ p # c /\ call[c].run = "busy"
    BY <1>1, <1>3
<1>10. \A x \in Fields \ {"sub", "msg"} : cs[c][x] = call[c][x]
    BY <1>5
<1> QED BY <1>4, <1>5, <1>6, <1>8, <1>9, <1>10, ForgetKeeps

\* one has been told.
LEMMA ToldKeeps ==
    ASSUME NamesInv, IInv', NEW n \in Nodes, NEW c \in DOMAIN call, Told(n, c)
    PROVE  NamesInv'
<1> DEFINE d == call[c].sub
           said == IF call[d].conn = "ok" THEN call[d].reply.hosts ELSE call[c].msg
           cs == [call EXCEPT ![c].sub = None, ![c].msg = said]
<1>1. /\ call[c].run = "busy" /\ d.kind = "tell" /\ d # None
      /\ call' = Forgotten(cs, d)
      /\ UNCHANGED <<lastslave, acts, masters, started, crashed, applied, queue>>
    BY DEF Told, IsSettled, tables, hist
<1>2. /\ \A x \in DOMAIN call : x \in Calls /\ Fits(call, x)
      /\ Tells(call, started) /\ DOMAIN call[c] = Fields
    BY NamesInvIs DEF Fits
<1>3. /\ DOMAIN cs = DOMAIN call /\ \A x \in DOMAIN call : x # c => cs[x] = call[x]
      /\ cs[c] = [call[c] EXCEPT !.sub = None, !.msg = said]
    OBVIOUS
<1>4. ASSUME NEW x \in DOMAIN call, call[x].sub = d
      PROVE  /\ x.kind \in {"register", "rally"}
             /\ x.of = d.of /\ x.nth = d.nth
    <2>1. Owns(x, d)
        BY <1>1, <1>2, <1>4 DEF Fits
    <2>2. \A q : d # Forward(q) /\ d # Push(q)
        BY <1>1 DEF Forward, Push
    <2>3. PICK h : x.kind \in {"register", "rally"} /\ d = Tell(x, h)
        BY <2>1, <2>2 DEF Owns
    <2> QED BY <2>3 DEF Tell
<1>5. \A x \in DOMAIN call : call[x].sub = d => x = c
    <2>1. /\ \A x \in DOMAIN call : /\ x.kind = "register" => x.nth > 0
                                    /\ x.kind = "rally" => x.nth = 0
        BY <1>2 DEF Tells
    <2>2. ASSUME NEW x \in DOMAIN call, call[x].sub = d PROVE x = c
        <3>1. /\ x.kind \in {"register", "rally"} /\ c.kind \in {"register", "rally"}
              /\ x.of = c.of /\ x.nth = c.nth
            BY <1>4, <2>2
        <3>2. x.kind = c.kind
            BY <2>1, <3>1
        <3>3. CASE c.kind = "register"
            BY <1>2, <3>1, <3>2, <3>3, NameIs
        <3>4. CASE c.kind = "rally"
            BY <1>2, <2>1, <3>1, <3>2, <3>4, NameIs
        <3> QED BY <3>1, <3>3, <3>4
    <2> QED BY <2>2
<1>6. d # c
    BY <1>1, <1>4
<1> HIDE DEF cs, said, d
<1>7. /\ DOMAIN cs[c] = Fields /\ cs[c].sub = None
      /\ \A x \in Fields \ {"sub", "msg"} : cs[c][x] = call[c][x]
    BY <1>2, <1>3 DEF Fields
<1>8. TypesStay
    BY <1>1, TypesUnchanged
<1>9. d.kind # "rally"
    BY <1>1
<1>10. \A x \in DOMAIN call : x # c /\ call[x].sub # None => call[x].sub # d
    BY <1>5
<1>11. call[c].run = "busy" /\ UNCHANGED <<queue, applied>> /\ call' = Forgotten(cs, d)
    BY <1>1
<1>12. DOMAIN cs = DOMAIN call /\ \A x \in DOMAIN call : x # c => cs[x] = call[x]
    BY <1>3
<1> QED BY <1>6, <1>7, <1>8, <1>9, <1>10, <1>11, <1>12, ForgetKeeps

\* A timer cuts a connection, and no more.
LEMMA TimeoutKeeps ==
    ASSUME NamesInv, IInv', NEW c \in DOMAIN call, Timeout(c)
    PROVE  NamesInv'
<1>1. /\ call' = [call EXCEPT ![c].conn = "cut"]
      /\ UNCHANGED <<lastslave, acts, masters, started, crashed, applied, queue>>
    BY DEF Timeout, tables, hist
<1>2. /\ DOMAIN call[c] = Fields /\ Exact(queue, call) /\ PushesAreNew
      /\ \A x \in DOMAIN call : Fits(call, x)
    BY NamesInvIs DEF Fits
<1>3. /\ DOMAIN call' = DOMAIN call /\ \A x \in DOMAIN call : x # c => call'[x] = call[x]
      /\ call'[c] = [call[c] EXCEPT !.conn = "cut"]
    BY <1>1
<1>4. /\ DOMAIN call'[c] = Fields /\ call'[c].conn = "cut" /\ call'[c].to = call[c].to
      /\ call'[c].run = call[c].run /\ call'[c].reply = call[c].reply
      /\ call'[c].sub = call[c].sub /\ call'[c].todo = call[c].todo
    BY <1>2, <1>3 DEF Fields
<1>5. Fits(call', c)
    BY <1>2, <1>3, <1>4 DEF Fits
<1>6. Exact(queue', call')
    <2>1. \A x \in DOMAIN call : call'[x].run = call[x].run /\ call'[x].to = call[x].to
        BY <1>3, <1>4
    <2>2. Exact(queue, call')
        BY <1>2, <1>3, <2>1, ExactStays
    <2> QED BY <1>1, <2>2
<1>7. PushesAreNew'
    BY <1>1, <1>2, <1>3 DEF PushesAreNew
<1>8. Alike(call, call', {c})
    BY <1>3 DEF Alike
<1>9. \A x \in DOMAIN call' : call[x].sub # None => call[x].sub \in DOMAIN call'
    BY <1>2, <1>3 DEF Fits
<1>10. TypesStay
    BY <1>1, TypesUnchanged
<1> QED BY <1>3, <1>4, <1>5, <1>6, <1>7, <1>8, <1>9, <1>10, CallsChange

\* HostUpdate tells nobody twice: the name of the next call is new.
LEMMA TellNextKeeps ==
    ASSUME NamesInv, IInv', NEW n \in Nodes, NEW c \in DOMAIN call, TellNext(n, c)
    PROVE  NamesInv'
<1>1. /\ c.kind \in {"register", "rally"} /\ call[c].run = "busy"
      /\ UNCHANGED <<lastslave, acts, masters, started, crashed, applied>>
    BY DEF TellNext, Waits, tables, hist
<1>2. PICK h \in call[c].todo :
        /\ call' = Sent([call EXCEPT ![c].sub = Tell(c, h), ![c].todo = @ \ {h}],
                        Tell(c, h), h, call[c].msg)
        /\ queue' = Queued(queue, Tell(c, h), h)
    BY DEF TellNext
<1>3. /\ IInv /\ \A x \in DOMAIN call : x \in Calls /\ Fits(call, x)
      /\ Exact(queue, call) /\ Tells(call, started) /\ PushesAreNew
      /\ queue \in [Nodes -> Seq(Calls)]
    BY NamesInvIs
<1>4. h \in Nodes /\ DOMAIN call[c] = Fields
    BY <1>3, CallIs
<1>5. /\ c.of \in Nodes /\ c.nth \in Nat
      /\ c.kind = "register" => c.nth > 0
      /\ c.kind = "rally" => c.nth = 0 /\ c = Rally(c.of)
    BY <1>1, <1>3, NameIs DEF Tells
<1> DEFINE e == Tell(c, h)
           cs == [call EXCEPT ![c].sub = e, ![c].todo = @ \ {h}]
           msg == call[c].msg
<1>6. /\ e.kind = "tell" /\ e.of = c.of /\ e.nth = c.nth /\ e.to = h
      /\ Owns(c, e)
    BY <1>1, <1>4 DEF Tell, Owns
<1>7. e \in Calls
    <2>1. e \in [kind : {"tell"}, of : Nodes, nth : Nat, to : Nodes]
        BY <1>4, <1>5 DEF Tell
    <2> QED BY <2>1 DEF Calls
<1>8. call' = Sent(cs, e, h, msg) /\ queue' = Queued(queue, e, h)
    BY <1>2
<1>9. /\ DOMAIN cs = DOMAIN call /\ \A d \in DOMAIN call : d # c => cs[d] = call[d]
      /\ cs[c] = [call[c] EXCEPT !.sub = e, !.todo = @ \ {h}]
    OBVIOUS
<1> HIDE DEF cs, e, msg
<1>10. e \notin DOMAIN call
    BY <1>1, <1>2, <1>3, <1>6 DEF Tells
<1>11. /\ DOMAIN cs[c] = Fields /\ cs[c].run = "busy" /\ cs[c].to = call[c].to
       /\ cs[c].conn = call[c].conn /\ cs[c].sub = e
       /\ cs[c].reply = call[c].reply /\ cs[c].todo = call[c].todo \ {h}
    BY <1>1, <1>4, <1>9 DEF Fields
<1>12. Exact(queue, cs)
    <2>1. \A x \in DOMAIN call : cs[x].run = call[x].run /\ cs[x].to = call[x].to
        BY <1>1, <1>9, <1>11
    <2> QED BY <1>3, <1>9, <2>1, ExactStays
<1>13. Exact(queue', call')
    BY <1>3, <1>4, <1>7, <1>8, <1>9, <1>10, <1>12, ExactSent
<1>14. /\ DOMAIN call' = DOMAIN call \cup {e} /\ \A x \in DOMAIN call : call'[x] = cs[x]
       /\ call'[e] = NewCall(h, msg)
    BY <1>8, <1>9, <1>10 DEF Sent, Merge
<1>15. /\ Fits(call', e)
    BY <1>4, <1>14, NewFits
<1>16. Fits(call', c)
    BY <1>3, <1>6, <1>11, <1>14 DEF Fits
<1>17. \A x \in DOMAIN call' : Fits(call', x)
    <2>1. Alike(call, call', {c, e})
        BY <1>9, <1>14 DEF Alike
    <2>2. \A x \in DOMAIN call' \ {c, e} : call[x].sub # None => call[x].sub \in DOMAIN call'
        BY <1>3, <1>14 DEF Fits
    <2> QED BY <1>3, <1>15, <1>16, <2>1, <2>2, FitsStays
<1>18. \A x \in DOMAIN call : /\ call'[x].run = call[x].run
                              /\ call'[x].todo \subseteq call[x].todo
    BY <1>1, <1>9, <1>11, <1>14
<1>19. ASSUME NEW x \in DOMAIN call', x.kind \in {"register", "rally"}, x.of = c.of
       PROVE  /\ x \in DOMAIN call
              /\ x.kind = "register" => e.nth <= x.nth
              /\ x.nth = e.nth => call'[x].run # "queued" /\ h \notin call'[x].todo
    <2>1. x \in DOMAIN call /\ x \in Calls
        BY <1>3, <1>6, <1>14, <1>19
    <2>2. /\ x.nth \in Nat /\ (x.kind = "register" => x.nth > 0)
          /\ x.kind = "rally" => x.nth = 0 /\ x = Rally(x.of)
        BY <1>3, <1>19, <2>1, NameIs DEF Tells
    <2>3. CASE x = c
        BY <1>5, <1>6, <1>11, <1>14, <2>1, <2>3
    <2>4. CASE x # c
        <3>1. ~(x.kind = "register" /\ c.kind = "register")
            BY <1>3, <1>19, <2>1, <2>4 DEF IInv, RegistrationsAreTrue
        <3>2. ~(x.kind = "rally" /\ c.kind = "rally")
            BY <1>5, <1>19, <2>2, <2>4
        <3> QED BY <1>1, <1>5, <1>6, <1>19, <2>1, <2>2, <3>1, <3>2
    <2> QED BY <2>3, <2>4
<1>20. Tells(call', started')
    <2>1. \A x \in DOMAIN call' : /\ x.kind = "register" => x.nth > 0
                                  /\ x.kind = "rally" => x.nth = 0
        BY <1>3, <1>6, <1>14 DEF Tells
    <2>2. /\ e.nth = 0 => Rally(e.of) \in DOMAIN call'
          /\ e.nth # 0 => e.of \in started'
        BY <1>1, <1>3, <1>5, <1>6, <1>14 DEF IInv, RegistrationsAreTrue
    <2>3. ASSUME NEW d \in DOMAIN call, d.kind = "tell"
          PROVE  /\ d.nth = 0 => Rally(d.of) \in DOMAIN call'
                 /\ d.nth # 0 => d.of \in started'
                 /\ \A x \in DOMAIN call' : x.kind \in {"register", "rally"} /\ x.of = d.of =>
                      /\ x.kind = "register" => d.nth <= x.nth
                      /\ x.nth = d.nth => call'[x].run # "queued" /\ d.to \notin call'[x].todo
        BY <1>1, <1>3, <1>6, <1>14, <1>18, <2>3 DEF Tells
    <2> QED BY <1>6, <1>14, <1>19, <2>1, <2>2, <2>3 DEF Tells
<1>21. PushesAreNew'
    <2>1. \A r \in Reqs : Push(r) # e
        BY <1>6 DEF Push
    <2> QED BY <1>1, <1>3, <1>14, <2>1 DEF PushesAreNew
<1> QED BY <1>1, <1>13, <1>17, <1>20, <1>21, TypesUnchanged, NamesInvThen DEF TypesStay

\* A registration that comes to have a thread has told nobody.
LEMMA HandleRegisterKeeps ==
    ASSUME NamesInv, IInv', NEW n \in Nodes, NEW c, HandleRegister(n, c)
    PROVE  NamesInv'
<1>1. /\ c.kind = "register" /\ Taken(n, c) /\ queue' = Popped(n)
      /\ UNCHANGED <<lastslave, acts, masters, started, crashed, applied>>
    BY DEF HandleRegister, hist
<1>2. TypesStay
    BY <1>1, TypesUnchanged
<1>3. CASE ~isMaster[n]
    <2>1. call' = Answered(call, c, "ok", StateOf(n))
        BY <1>3 DEF HandleRegister
    <2>2. IsReply(StateOf(n))
        BY StateIsReply, NamesInvIs
    <2> QED BY <1>1, <1>2, <2>1, <2>2, AnswerPopsKeeps
<1>4. CASE isMaster[n]
    <2>1. PICK hosts : call' = [Busy(c) EXCEPT ![c].todo = DOMAIN hosts, ![c].msg = hosts]
        BY <1>4 DEF HandleRegister
    <2>2. /\ c \in DOMAIN call /\ DOMAIN call[c] = Fields /\ call[c].run = "queued"
          /\ call[c].sub = None /\ Fits(call, c)
        BY <1>1, HeadIs
    <2>3. /\ DOMAIN Busy(c) = DOMAIN call /\ DOMAIN Busy(c)[c] = Fields
          /\ \A d \in DOMAIN call : d # c => Busy(c)[d] = call[d]
          /\ Busy(c)[c].run = "busy"
          /\ \A x \in Fields \ {"run"} : Busy(c)[c][x] = call[c][x]
        BY <2>2, BusyIs
    <2>4. /\ DOMAIN call' = DOMAIN call
          /\ \A d \in DOMAIN call : d # c => call'[d] = call[d]
          /\ call'[c] = [Busy(c)[c] EXCEPT !.todo = DOMAIN hosts, !.msg = hosts]
        BY <2>1, <2>2, <2>3
    <2>5. /\ DOMAIN call'[c] = Fields /\ call'[c].run = "busy" /\ call'[c].to = call[c].to
          /\ call'[c].conn = call[c].conn /\ call'[c].reply = call[c].reply
          /\ call'[c].sub = None
        BY <2>2, <2>3, <2>4 DEF Fields
    <2>6. /\ \A x \in DOMAIN call : Fits(call, x)
          /\ Tells(call, started) /\ PushesAreNew
        BY NamesInvIs
    <2>7. \A x \in DOMAIN call' : Fits(call', x)
        <3>1. Fits(call', c)
            BY <2>2, <2>5 DEF Fits
        <3>2. Alike(call, call', {c})
            BY <2>4 DEF Alike
        <3>3. \A x \in DOMAIN call' \ {c} : call[x].sub # None => call[x].sub \in DOMAIN call'
            BY <2>4, <2>6 DEF Fits
        <3> QED BY <2>6, <3>1, <3>2, <3>3, FitsStays
    <2>8. Exact(queue', call')
        BY <1>1, <2>4, <2>5, TakenPops
    <2>9. \A d \in DOMAIN call : d.kind = "tell" /\ d.of = c.of => d.nth # c.nth
        BY <1>1, <2>2, <2>6 DEF Tells
    <2>10. Tells(call', started')
        BY <1>1, <2>4, <2>6, <2>9 DEF Tells
    <2>11. PushesAreNew'
        BY <1>1, <2>4, <2>6 DEF PushesAreNew
    <2> QED BY <1>2, <2>7, <2>8, <2>10, <2>11, NamesInvThen DEF TypesStay
<1> QED BY <1>3, <1>4

\* A slave rallies the others once: until then it has told nobody.
LEMMA LoseMasterKeeps ==
    ASSUME NamesInv, IInv', NEW n \in Nodes, LoseMaster(n)
    PROVE  NamesInv'
<1> DEFINE e == Rally(n)
           new == [to |-> n, conn |-> "open", run |-> "busy", sub |-> None,
                   todo |-> DOMAIN remotes[n], msg |-> Host(n), reply |-> None]
<1>1. /\ e \notin DOMAIN call /\ call' = Merge([c \in {e} |-> new], call)
      /\ UNCHANGED <<lastslave, acts, masters, started, crashed, applied, queue>>
    BY DEF LoseMaster, tables, hist
<1>2. /\ new.to = n /\ new.conn = "open" /\ new.run = "busy" /\ new.sub = None
      /\ new.reply = None /\ DOMAIN new = Fields
    BY DEF Fields
<1>3. e.kind = "rally" /\ e.of = n /\ e.nth = 0
    BY DEF Rally
<1>4. /\ \A x \in DOMAIN call : Fits(call, x)
      /\ Tells(call, started) /\ PushesAreNew /\ Exact(queue, call)
    BY NamesInvIs
<1> HIDE DEF new
<1>5. /\ DOMAIN call' = DOMAIN call \cup {e} /\ call'[e] = new
      /\ \A x \in DOMAIN call : call'[x] = call[x]
    BY <1>1 DEF Merge
<1>6. \A r \in Reqs : Push(r) # e
    BY <1>3 DEF Push
<1>7. \A d \in DOMAIN call : d.kind = "tell" /\ d.of = n => d.nth # 0
    BY <1>1, <1>4 DEF Tells
<1> HIDE DEF e
<1>8. \A x \in DOMAIN call' : Fits(call', x)
    BY <1>2, <1>4, <1>5 DEF Fits
<1>9. Exact(queue', call')
    BY <1>1, <1>2, <1>4, <1>5, ExactStays
<1>10. Tells(call', started')
    BY <1>1, <1>3, <1>4, <1>5, <1>7 DEF Tells
<1>11. PushesAreNew'
    BY <1>1, <1>4, <1>5, <1>6 DEF PushesAreNew
<1> QED BY <1>1, <1>8, <1>9, <1>10, <1>11, TypesUnchanged, NamesInvThen DEF TypesStay

\* Nobody waits for a registration but the instance that registers.
LEMMA RegistrationForgotten ==
    ASSUME NamesInv, NEW c \in DOMAIN call, c.kind = "register",
           NEW cs, cs = Forgotten(call, c)
    PROVE  /\ DOMAIN cs \subseteq DOMAIN call /\ \A x \in DOMAIN cs : cs[x] = call[x]
           /\ \A x \in DOMAIN cs : Fits(cs, x)
           /\ Exact(queue, cs) /\ Tells(cs, started)
<1>1. /\ \A x \in DOMAIN call : Fits(call, x)
      /\ Tells(call, started) /\ Exact(queue, call)
    BY NamesInvIs
<1>2. /\ DOMAIN cs \subseteq DOMAIN call /\ \A x \in DOMAIN cs : cs[x] = call[x]
      /\ \A x \in DOMAIN call : x \notin DOMAIN cs => x = c /\ call[x].run = "done"
    BY DEF Forgotten, Restrict
<1>3. \A x \in DOMAIN call : call[x].sub # None => call[x].sub # c
    <2> SUFFICES ASSUME NEW x \in DOMAIN call, call[x].sub # None, call[x].sub = c PROVE FALSE
        OBVIOUS
    <2>1. Owns(x, c)
        BY <1>1 DEF Fits
    <2> QED BY <2>1 DEF Owns, Forward, Push, Tell
<1>4. \A x \in DOMAIN cs : Fits(cs, x)
    BY <1>1, <1>2, <1>3 DEF Fits
<1>5. Exact(queue, cs)
    BY <1>1, <1>2, ExactStays
<1>6. Tells(cs, started)
    <2>1. Alike(call, cs, {})
        BY <1>2 DEF Alike
    <2>2. \A x \in DOMAIN call : x.kind = "rally" => x \in DOMAIN cs
        BY <1>2
    <2> QED BY <1>1, <2>1, <2>2, TellsStay
<1> QED BY <1>2, <1>4, <1>5, <1>6

\* An instance registers, with a number that it has not used.
LEMMA RegisterSent ==
    ASSUME NamesInv, IInv', TypesStay, UNCHANGED applied, NEW n \in Nodes, NEW k \in Nat \ {0},
           NEW m \in Nodes, NEW hosts, NEW cs,
           DOMAIN cs \subseteq DOMAIN call, \A x \in DOMAIN cs : cs[x] = call[x],
           \A x \in DOMAIN cs : Fits(cs, x), Exact(queue, cs), Tells(cs, started),
           Register(n, k) \notin DOMAIN cs,
           \A d \in DOMAIN cs : d.kind = "tell" /\ d.of = n => d.nth < k,
           call' = Sent(cs, Register(n, k), m, hosts),
           queue' = Queued(queue, Register(n, k), m)
    PROVE  NamesInv'
<1> DEFINE e == Register(n, k)
<1>1. e \in Calls /\ e.kind = "register" /\ e.of = n /\ e.nth = k
    BY DEF Register, Calls
<1>2. /\ e \notin DOMAIN cs /\ call' = Sent(cs, e, m, hosts) /\ queue' = Queued(queue, e, m)
    OBVIOUS
<1>3. \A r \in Reqs : Push(r) # e
    BY <1>1 DEF Push
<1> HIDE DEF e
<1>4. /\ DOMAIN call' = DOMAIN cs \cup {e} /\ call'[e] = NewCall(m, hosts)
      /\ \A x \in DOMAIN cs : call'[x] = cs[x]
    BY <1>2 DEF Sent, Merge
<1>5. queue \in [Nodes -> Seq(Calls)] /\ PushesAreNew
    BY NamesInvIs
<1>6. Exact(queue', call')
    BY <1>1, <1>2, <1>5, ExactSent
<1>7. \A x \in DOMAIN call' : Fits(call', x)
    <2>1. Fits(call', e)
        BY <1>4, NewFits
    <2>2. \A x \in DOMAIN cs : Fits(call', x)
        BY <1>2, <1>4 DEF Fits
    <2> QED BY <1>4, <2>1, <2>2
<1>8. Tells(call', started')
    <2>1. \A x \in DOMAIN call' : /\ x.kind = "register" => x.nth > 0
                                  /\ x.kind = "rally" => x.nth = 0
        BY <1>1, <1>4 DEF Tells
    <2>2. ASSUME NEW d \in DOMAIN call', d.kind = "tell"
          PROVE  /\ d \in DOMAIN cs
                 /\ d.nth = 0 => Rally(d.of) \in DOMAIN call'
                 /\ d.nth # 0 => d.of \in started'
        BY <1>1, <1>4, <2>2 DEF Tells, TypesStay
    <2>3. ASSUME NEW d \in DOMAIN call', d.kind = "tell",
                 NEW x \in DOMAIN call', x.kind \in {"register", "rally"}, x.of = d.of
          PROVE  /\ x.kind = "register" => d.nth <= x.nth
                 /\ x.nth = d.nth => call'[x].run # "queued" /\ d.to \notin call'[x].todo
        <3>1. CASE x = e
            <4>1. d \in DOMAIN cs /\ d.nth < k
                BY <1>1, <2>2, <2>3, <3>1
            <4>2. d.nth \in Nat
                <5>1. DOMAIN call \subseteq Calls
                    BY NamesInvIs
                <5> QED BY <2>3, <4>1, <5>1, NameIs
            <4> QED BY <1>1, <3>1, <4>1, <4>2
        <3>2. CASE x # e
            BY <1>4, <2>2, <2>3, <3>2 DEF Tells
        <3> QED BY <3>1, <3>2
    <2> QED BY <2>1, <2>2, <2>3 DEF Tells
<1>9. PushesAreNew'
    BY <1>3, <1>4, <1>5 DEF PushesAreNew
<1> QED BY <1>6, <1>7, <1>8, <1>9, NamesInvThen DEF TypesStay

\* An instance is started once: until then it has not registered.
LEMMA StartSlaveKeeps ==
    ASSUME NamesInv, IInv', NEW n \in Nodes, NEW m \in Nodes, StartSlave(n, m)
    PROVE  NamesInv'
<1>1. /\ n \notin started /\ started' = started \cup {n} /\ InSync(m, n)
      /\ call' = Sent(call, Register(n, 1), m, [h \in {n} |-> counter[m]])
      /\ queue' = Queued(queue, Register(n, 1), m)
      /\ UNCHANGED <<acts, applied, masters, crashed>>
    BY DEF StartSlave
<1>2. /\ IInv /\ \A x \in DOMAIN call : Fits(call, x)
      /\ Tells(call, started) /\ Exact(queue, call)
    BY NamesInvIs
<1>3. TypesStay
    BY <1>1, NamesInvIs DEF TypesStay, InSync
<1>4. Register(n, 1) \notin DOMAIN call
    <2>1. Register(n, 1).kind = "register" /\ Register(n, 1).of = n
        BY DEF Register
    <2> QED BY <1>1, <1>2, <2>1 DEF IInv, RegistrationsAreTrue
<1>5. \A d \in DOMAIN call : d.kind = "tell" /\ d.of = n => d.nth < 1
    BY <1>1, <1>2 DEF Tells
<1> QED BY <1>1, <1>2, <1>3, <1>4, <1>5, RegisterSent

\* The process ends: what waited for its threads is gone.
LEMMA StopKeeps ==
    ASSUME NamesInv, IInv', NEW n \in Nodes, StopAt(n), crashed' \subseteq Mortal
    PROVE  NamesInv'
<1> DEFINE S == {c \in DOMAIN call : call[c].to = n /\ call[c].run # "done"}
<1>1. /\ call' = [c \in DOMAIN call |-> IF call[c].to = n /\ call[c].run # "done"
                                        THEN Answered(call, c, "cut", None)[c] ELSE call[c]]
      /\ queue' = [queue EXCEPT ![n] = <<>>]
      /\ lastslave' = [lastslave EXCEPT ![n] = None]
      /\ UNCHANGED <<acts, applied, masters, started>>
    BY DEF StopAt
<1>2. TypesStay
    BY <1>1, NamesInvIs DEF TypesStay
<1>3. /\ \A x \in DOMAIN call : Fits(call, x) /\ DOMAIN call[x] = Fields
      /\ Exact(queue, call) /\ PushesAreNew /\ queue \in [Nodes -> Seq(Calls)]
    BY NamesInvIs DEF Fits
<1>4. /\ DOMAIN call' = DOMAIN call /\ \A x \in DOMAIN call \ S : call'[x] = call[x]
      /\ \A x \in S : call'[x] = Answered(call, x, "cut", None)[x]
    BY <1>1
<1>5. ASSUME NEW x \in S
      PROVE  /\ Fits(call', x) /\ call'[x].run = "done" /\ call'[x].to = n /\ call'[x].todo = {}
    <2> DEFINE a == Answered(call, x, "cut", None)
    <2>1. /\ a[x].run = "done" /\ a[x].to = call[x].to /\ a[x].todo = {}
        BY <1>3, AnsweredIs
    <2>2. Fits(a, x) /\ a[x].sub = None
        BY <1>3, AnswerFits
    <2> HIDE DEF a
    <2>3. call'[x] = a[x]
        BY <1>4 DEF a
    <2> QED BY <2>1, <2>2, <2>3 DEF Fits
<1>6. Exact(queue', call')
    <2>1. queue'[n] = <<>> /\ \A m \in Nodes : m # n => queue'[m] = queue[m]
        BY <1>1, <1>3
    <2>2. IsInjective(<<>>) /\ Range(<<>>) = {}
        BY DEF IsInjective, Range
    <2>3. {x \in DOMAIN call' : call'[x].to = n /\ call'[x].run = "queued"} = {}
        BY <1>4, <1>5
    <2>4. ASSUME NEW m \in Nodes, m # n
          PROVE  {x \in DOMAIN call' : call'[x].to = m /\ call'[x].run = "queued"}
                 = {x \in DOMAIN call : call[x].to = m /\ call[x].run = "queued"}
        BY <1>4, <1>5, <2>4
    <2> QED BY <1>3, <2>1, <2>2, <2>3, <2>4 DEF Exact
<1>7. PushesAreNew'
    BY <1>1, <1>3, <1>4 DEF PushesAreNew
<1>8. Alike(call, call', S)
    BY <1>4 DEF Alike
<1>9. \A x \in DOMAIN call' \ S : call[x].sub # None => call[x].sub \in DOMAIN call'
    BY <1>3, <1>4 DEF Fits
<1>10. \A x \in DOMAIN call' \cap S :
          /\ Fits(call', x) /\ x \in DOMAIN call
          /\ call'[x].run = "done" /\ call'[x].todo = {}
    BY <1>4, <1>5
<1> HIDE DEF S
<1> QED BY <1>2, <1>4, <1>6, <1>7, <1>8, <1>9, <1>10, CallsChange

\* An instance crashes.
LEMMA CrashKeeps ==
    ASSUME NamesInv, IInv', NEW n \in Nodes, Crash(n)
    PROVE  NamesInv'
<1>1. crashed' \subseteq Mortal
    BY NamesInvIs DEF Crash
<1> QED BY <1>1, StopKeeps DEF Crash

\* A registration is answered, referred or refused.
LEMMA JoinedKeeps ==
    ASSUME NamesInv, IInv', NEW n \in Nodes, NEW k \in 1 .. 3, Joined(n, k)
    PROVE  NamesInv'
<1> DEFINE c == Register(n, k)
           reply == call[c].reply
<1>1. /\ c \in DOMAIN call /\ c.kind = "register" /\ c.of = n /\ c.nth = k
      /\ Register(n, k + 1) \notin DOMAIN call
    BY DEF Joined, Register
<1>2. IInv /\ Tells(call, started) /\ PushesAreNew
    BY NamesInvIs
<1>3. CASE call' = Forgotten(call, c) /\ UNCHANGED <<lastslave, queue, acts, hist>>
    <2>1. UNCHANGED <<applied, masters, started, crashed>> /\ queue' = queue
        BY <1>3 DEF hist
    <2>2. TypesStay
        BY <1>3, <2>1, TypesUnchanged
    <2>3. /\ DOMAIN call' \subseteq DOMAIN call /\ Tells(call', started)
          /\ \A x \in DOMAIN call' : Fits(call', x)
          /\ Exact(queue, call')
        BY <1>1, <1>3, RegistrationForgotten
    <2>4. PushesAreNew'
        BY <1>2, <2>1, <2>3 DEF PushesAreNew
    <2>5. Tells(call', started') /\ Exact(queue', call')
        BY <2>1, <2>3
    <2> QED BY <2>2, <2>3, <2>4, <2>5, NamesInvThen DEF TypesStay
<1>4. CASE /\ call[c].conn = "ok"
           /\ call' = Sent(Forgotten(call, c), Register(n, k + 1), reply.master, Host(n))
           /\ queue' = Queued(queue, Register(n, k + 1), reply.master)
           /\ UNCHANGED <<tables, acts, hist>>
    <2>1. UNCHANGED <<lastslave, acts, applied, masters, started, crashed>>
        BY <1>4 DEF tables, hist
    <2>2. TypesStay
        BY <2>1, TypesUnchanged
    <2>3. reply.master \in Nodes
        BY <1>1, <1>2, <1>4 DEF IInv, RegistrationsAreTrue
    <2>4. PICK cs : cs = Forgotten(call, c)
        OBVIOUS
    <2>5. /\ DOMAIN cs \subseteq DOMAIN call /\ \A x \in DOMAIN cs : cs[x] = call[x]
          /\ \A x \in DOMAIN cs : Fits(cs, x)
          /\ Exact(queue, cs) /\ Tells(cs, started)
        BY <1>1, <2>4, RegistrationForgotten
    <2>6. \A d \in DOMAIN call : d.kind = "tell" /\ d.of = n => d.nth <= k
        BY <1>1, <1>2 DEF Tells
    <2>7. \A d \in DOMAIN cs : d.kind = "tell" /\ d.of = n => d.nth < k + 1
        <3>1. \A d \in DOMAIN call : d.kind = "tell" => d.nth \in Nat
            BY NamesInvIs, NameIs
        <3> QED BY <2>5, <2>6, <3>1
    <2>8. Register(n, k + 1) \notin DOMAIN cs /\ k + 1 \in Nat \ {0}
        BY <1>1, <2>5
    <2>9. PICK m \in Nodes : m = reply.master
        BY <2>3
    <2>10. /\ call' = Sent(cs, Register(n, k + 1), m, Host(n))
           /\ queue' = Queued(queue, Register(n, k + 1), m)
        BY <1>4, <2>4, <2>9
    <2> QED BY <2>1, <2>2, <2>5, <2>7, <2>8, <2>10, RegisterSent
<1>5. CASE StopAt(n) /\ UNCHANGED crashed
    <2>1. crashed' \subseteq Mortal
        BY <1>5, NamesInvIs
    <2> QED BY <1>5, <2>1, StopKeeps
<1> QED BY <1>3, <1>4, <1>5 DEF Joined

\* Steps that leave the calls alone.
LEMMA NoCallKeeps ==
    ASSUME NamesInv, IInv', TypesStay, UNCHANGED <<call, queue, applied>>
    PROVE  NamesInv'
<1>1. /\ \A x \in DOMAIN call : Fits(call, x)
      /\ Tells(call, started) /\ PushesAreNew /\ Exact(queue, call)
    BY NamesInvIs
<1>2. Tells(call', started')
    BY <1>1 DEF Tells, TypesStay
<1>3. PushesAreNew'
    BY <1>1 DEF PushesAreNew
<1> QED BY <1>1, <1>2, <1>3, NamesInvThen DEF TypesStay

\* Loops of slaves, elections and exceptions change no call.
LEMMA RolesKeep ==
    ASSUME NamesInv, IInv', NEW n \in Nodes, Poll(n) \/ Elect(n) \/ LoopEnds(n)
    PROVE  NamesInv'
<1>1. UNCHANGED <<call, queue, applied, acts, started, crashed>>
    BY DEF Poll, Elect, LoopEnds, hist
<1>2. lastslave' \in [Nodes -> Nodes \cup {None}]
    BY NamesInvIs DEF Poll, Elect, LoopEnds, InSync, tables
<1>3. masters' \subseteq Nodes
    BY NamesInvIs DEF Poll, Elect, LoopEnds, hist
<1>4. TypesStay
    BY <1>1, <1>2, <1>3, NamesInvIs DEF TypesStay
<1> QED BY <1>1, <1>4, NoCallKeeps

\* A client's call, whether its endpoint is found or not.
LEMMA ClientCallsKeeps ==
    ASSUME NamesInv, IInv', NEW n \in Nodes, NEW r \in Reqs, ClientCalls(r, n)
    PROVE  NamesInv'
<1> DEFINE c == Ask(r)
           sent == Sent(call, c, n, NoHosts)
<1>1. /\ c \notin DOMAIN call
      /\ UNCHANGED <<lastslave, applied, masters, started, crashed>>
    BY DEF ClientCalls, tables, hist
<1>2. PICK e \in Endpoints :
        /\ acts' = [acts EXCEPT ![r] = e.acts] \/ acts' = [acts EXCEPT ![r] = "nothing"]
        /\ \/ call' = sent /\ queue' = Queued(queue, c, n)
           \/ /\ call' = [sent EXCEPT ![c].conn = "notfound", ![c].run = "done"]
              /\ UNCHANGED queue
    BY DEF ClientCalls
<1>3. e.acts \in {"here", "master"}
    BY DEF Endpoints, Help, Info, RequestTokenPost, RequestTokenGet, SubmitTokenPost,
           SubmitTokenGet, GetValidated3pidPost, GetValidated3pidGet, BindPost, BindGet,
           StoreInvitePost, GetMailsToSendPost, GetAccessKeyPost, GetAccessKeyGet,
           SetBlobDataPost, LookupPost, LookupGet, BulkLookupPost, GetBlobDataPost,
           GetBlobDataGet, SignPost, PubKeyGet, PubKeyValidGet, EphemeralValidGet, Post, Get
<1>4. TypesStay
    <2>1. acts \in [Reqs -> {"none", "nothing", "here", "master"}]
        BY NamesInvIs
    <2>2. acts' \in [Reqs -> {"none", "nothing", "here", "master"}]
        BY <1>2, <1>3, <2>1
    <2> QED BY <1>1, <2>2, NamesInvIs DEF TypesStay
<1>5. c \in Calls /\ c.kind = "ask" /\ \A q \in Reqs : Push(q) # c
    BY Names
<1>6. /\ \A x \in DOMAIN call : Fits(call, x)
      /\ PushesAreNew /\ Exact(queue, call) /\ queue \in [Nodes -> Seq(Calls)]
    BY NamesInvIs
<1>7. /\ DOMAIN sent = DOMAIN call \cup {c} /\ sent[c] = NewCall(n, NoHosts)
      /\ \A x \in DOMAIN call : sent[x] = call[x]
    BY <1>1 DEF Sent, Merge
<1>8. DOMAIN sent[c] = Fields /\ Fits(sent, c) /\ sent[c].to = n
      /\ sent[c].sub = None /\ sent[c].reply = None
    <2>1. Fits(sent, c)
        BY <1>7, NewFits
    <2>2. sent[c].sub = None /\ sent[c].reply = None
        BY <1>7 DEF NewCall
    <2> QED BY <1>7, <2>1, <2>2, NewCallIs DEF Fits
<1> HIDE DEF c
<1>9. /\ DOMAIN call' = DOMAIN call \cup {c} /\ Fits(call', c) /\ Exact(queue', call')
      /\ \A x \in DOMAIN call : call'[x] = call[x]
    <2>1. CASE call' = sent /\ queue' = Queued(queue, c, n)
        <3>1. Exact(queue', call')
            BY <1>1, <1>5, <1>6, <2>1, ExactSent
        <3> QED BY <1>7, <1>8, <2>1, <3>1
    <2>2. CASE /\ call' = [sent EXCEPT ![c].conn = "notfound", ![c].run = "done"]
               /\ UNCHANGED queue
        <3> HIDE DEF sent
        <3>1. /\ DOMAIN call' = DOMAIN call \cup {c}
              /\ \A x \in DOMAIN call : call'[x] = call[x]
              /\ call'[c] = [sent[c] EXCEPT !.conn = "notfound", !.run = "done"]
            BY <1>1, <1>7, <2>2
        <3>2. /\ DOMAIN call'[c] = Fields /\ call'[c].conn = "notfound" /\ call'[c].run = "done"
              /\ call'[c].to = n /\ call'[c].sub = None /\ call'[c].reply = None
            BY <1>8, <3>1 DEF Fields
        <3>3. Fits(call', c)
            BY <3>2 DEF Fits
        <3>4. Exact(queue, call')
            <4>1. \A x \in DOMAIN call : call[x].run = "queued" =>
                    x \in DOMAIN call' /\ call'[x].to = call[x].to /\ call'[x].run = "queued"
                BY <3>1
            <4>2. \A x \in DOMAIN call' : call'[x].run = "queued" =>
                    x \in DOMAIN call /\ call[x].to = call'[x].to /\ call[x].run = "queued"
                BY <3>1, <3>2
            <4> QED BY <1>6, <4>1, <4>2, ExactStays
        <3> QED BY <2>2, <3>1, <3>3, <3>4
    <2> QED BY <1>2, <2>1, <2>2
<1>10. Alike(call, call', {c})
    BY <1>9 DEF Alike
<1>11. PushesAreNew'
    BY <1>1, <1>5, <1>6, <1>9 DEF PushesAreNew
<1>12. \A x \in DOMAIN call' \ {c} : call[x].sub # None => call[x].sub \in DOMAIN call'
    BY <1>6, <1>9 DEF Fits
<1> QED BY <1>4, <1>5, <1>9, <1>10, <1>11, <1>12, CallsChange

\* No call has been sent.
LEMMA InitNames == Init => NamesInv
<1> SUFFICES ASSUME Init PROVE NamesInv
    OBVIOUS
<1> USE ClusterAssumption
<1>1. IInv
    BY InitIs
<1>2. /\ DOMAIN call = {} /\ \A n \in Nodes : queue[n] = <<>>
      /\ DOMAIN queue = Nodes
    BY DEF Init
<1>3. SubsAreOwn /\ PushesAreNew /\ TellsAreNew
    BY <1>2 DEF SubsAreOwn, PushesAreNew, TellsAreNew
<1>4. IsInjective(<<>>) /\ Range(<<>>) = {}
    BY DEF IsInjective, Range
<1>5. \A n \in Nodes : IsHosts(remotes[n])
    BY DEF Init, IsHosts, NoHosts
<1>6. /\ phase \in [Nodes -> Phases] /\ isMaster \in [Nodes -> BOOLEAN]
      /\ master \in [Nodes -> Nodes] /\ counter \in [Nodes -> Nat]
      /\ DOMAIN remotes = Nodes /\ lastslave \in [Nodes -> Nodes \cup {None}]
      /\ acts \in [Reqs -> {"none", "nothing", "here", "master"}]
      /\ applied \in [Reqs -> Nat]
      /\ masters \subseteq Nodes /\ started \subseteq Nodes /\ crashed \subseteq Mortal
    BY DEF Init, Phases
<1>7. TypeOK
    BY <1>2, <1>4, <1>5, <1>6 DEF TypeOK
<1> QED BY <1>1, <1>3, <1>7 DEF NamesInv

\* Every step keeps it.
LEMMA StepKeeps ==
    ASSUME NamesInv, [Next]_vars
    PROVE  NamesInv'
<1>1. IInv'
    BY StepIs, NamesInvIs
<1>2. CASE UNCHANGED vars
    <2>1. UNCHANGED <<call, queue, applied, lastslave, acts, masters, started, crashed>>
        BY <1>2 DEF vars, tables, hist
    <2> QED BY <1>1, <2>1, TypesUnchanged, NoCallKeeps
<1>3. ASSUME NEW n \in Nodes, NEW r \in Reqs, ClientCalls(r, n) PROVE NamesInv'
    BY <1>1, <1>3, ClientCallsKeeps
<1>4. ASSUME NEW n \in Nodes, Step(n) PROVE NamesInv'
    <2>1. ASSUME NEW r \in Reqs,
                 \/ HandleAsk(n, r) \/ HandleForward(n, r) \/ HandlePush(n, r)
                 \/ Forwarded(n, r) \/ Pushed(n, r) \/ Respond(n, r)
          PROVE  NamesInv'
        BY <1>1, <2>1, HandleAskKeeps, HandleForwardKeeps, HandlePushKeeps,
           ForwardedKeeps, PushedKeeps, RespondKeeps
    <2>2. ASSUME NEW c \in DOMAIN call,
                 \/ HandleRegister(n, c) \/ HandleTell(n, c)
                 \/ TellNext(n, c) \/ Told(n, c) \/ TellDone(n, c)
          PROVE  NamesInv'
        BY <1>1, <2>2, HandleRegisterKeeps, HandleTellKeeps, TellNextKeeps, ToldKeeps,
           TellDoneKeeps
    <2>3. ASSUME NEW k \in 1 .. 3, Joined(n, k) PROVE NamesInv'
        BY <1>1, <2>3, JoinedKeeps
    <2> QED BY <1>4, <2>1, <2>2, <2>3 DEF Step
<1>5. ASSUME NEW n \in Nodes, Crash(n) PROVE NamesInv'
    BY <1>1, <1>5, CrashKeeps
<1>6. ASSUME NEW n \in Nodes, NEW m \in Nodes, StartSlave(n, m) PROVE NamesInv'
    BY <1>1, <1>6, StartSlaveKeeps
<1>7. ASSUME NEW n \in Nodes, Poll(n) \/ LoseMaster(n) \/ Elect(n) \/ LoopEnds(n)
      PROVE  NamesInv'
    BY <1>1, <1>7, RolesKeep, LoseMasterKeeps
<1>8. ASSUME Timeouts PROVE NamesInv'
    BY <1>1, <1>8, TimeoutKeeps DEF Timeouts
<1> QED BY <1>2, <1>3, <1>4, <1>5, <1>6, <1>7, <1>8 DEF Next

\* The types of the variables, for any number of clients, threads and instances: each
\* queue holds exactly the calls that wait for a thread of its instance, each once,
\* and a handler that waits, waits for a call that was sent (HrpcClient.cc).
THEOREM TypeCorrect == Spec => []TypeOK
<1>1. NamesInv /\ [Next]_vars => NamesInv'
    BY StepKeeps
<1>2. NamesInv => TypeOK
    BY DEF NamesInv
<1> QED BY InitNames, <1>1, <1>2, PTL DEF Spec

===============================================================================
