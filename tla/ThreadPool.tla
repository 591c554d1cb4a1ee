------------------------------ MODULE ThreadPool ------------------------------
(***************************************************************************)
(* The scheduler that runs the handlers of every request: async++'s pool   *)
(* of threads, each with a deque of its own (the work stealing queue of    *)
(* Chase and Lev), one public queue for tasks from outside the pool, and a *)
(* list of sleeping threads.                                               *)
(*                                                                         *)
(* What the code does under the pool's mutex is one action.  Outside it    *)
(* every access to a deque that another thread can see is an action of its *)
(* own, in program order: the fences of push, pop and steal are what makes *)
(* that order hold on the hardware.  The loads of num_waiters are relaxed, *)
(* but only the one outside the mutex can be stale, and it is modelled as  *)
(* free to come before or after any change by another thread.              *)
(*                                                                         *)
(* No task of identt waits for another (the handle that async::spawn       *)
(* returns is dropped), so wait_task is always empty here.                 *)
(***************************************************************************)
EXTENDS Integers, Sequences, FiniteSets, Functions

CONSTANTS
    Threads,    \* the threads of the pool
    Tasks,      \* the tasks
    Kids,       \* the tasks a task schedules, from inside the pool
    Roots,      \* the tasks scheduled from outside
    ArraySize,  \* the first size of a deque's array (32, a power of two)
    None        \* no task

ASSUME ThreadPoolAssumption ==
    /\ IsFiniteSet(Threads) /\ Threads # {}
    /\ None \notin Tasks
    /\ Kids \in [Tasks -> SUBSET Tasks] /\ Roots \subseteq Tasks
    \* a task is an object made for one call of schedule
    /\ \A p \in Tasks : Kids[p] \cap Roots = {}
    /\ \A p, q \in Tasks : p # q => Kids[p] \cap Kids[q] = {}
    /\ ArraySize \in Nat \ {0}

VARIABLES
    pc,        \* what a thread does next
    cur,       \* the task it runs, or holds, or None
    todo,      \* the tasks its task is still to schedule
    left,      \* the threads it has not tried to steal from
    victim,    \* the one it is trying
    b, t, x,   \* the locals of push, pop and steal
    items,     \* deque: the array
    top,       \* deque: the end others steal from
    bottom,    \* deque: the end its thread works at
    event,     \* task_wait_event: a signal is pending
    public,    \* public_queue
    waiters,   \* the sleeping threads, last come first woken
    shutdown,
    given,     \* history: the tasks that were scheduled,
    begun,     \*          those that were run, in that order,
    done       \*          and those that returned

locals == <<cur, todo, left, victim, b, t, x>>
deques == <<items, top, bottom>>
pool   == <<event, public, waiters, shutdown>>
hist   == <<given, begun, done>>
vars   == <<pc, locals, deques, pool, hist>>

Labels == {"loop", "reserve", "check", "last",
           "victim", "top", "bottom", "item", "cas", "fetch", "asleep", "woken",
           "run", "publish", "peek", "notify", "exited"}

Goto(w, l) == pc' = [pc EXCEPT ![w] = l]

Init ==
    /\ pc = [w \in Threads |-> "loop"]
    /\ cur = [w \in Threads |-> None]
    /\ todo = [w \in Threads |-> {}]
    /\ left = [w \in Threads |-> {}]
    /\ victim = [w \in Threads |-> w]
    /\ b = [w \in Threads |-> 0]
    /\ t = [w \in Threads |-> 0]
    /\ x = [w \in Threads |-> None]
    /\ items = [w \in Threads |-> [i \in 0 .. ArraySize - 1 |-> None]]
    /\ top = [w \in Threads |-> 0]
    /\ bottom = [w \in Threads |-> 0]
    /\ event = [w \in Threads |-> FALSE]
    /\ public = <<>>
    /\ waiters = <<>>
    /\ shutdown = FALSE
    /\ given = {}
    /\ begun = <<>>
    /\ done = {}

-------------------------------------------------------------------------------
\* circular_array: an index is taken modulo the size.
Size(a)    == Cardinality(DOMAIN a)
Slot(a, i) == a[i % Size(a)]

\* grow: a new array of twice the size with the items from lo to hi - 1.
Grow(a, lo, hi) ==
    [i \in 0 .. 2 * Size(a) - 1 |->
        IF \E k \in lo .. hi - 1 : k % (2 * Size(a)) = i
        THEN Slot(a, CHOOSE k \in lo .. hi - 1 : k % (2 * Size(a)) = i)
        ELSE None]

\* pop or steal returns: its locals are gone.
Leave(w) ==
    /\ victim' = [victim EXCEPT ![w] = w]
    /\ b' = [b EXCEPT ![w] = 0]
    /\ t' = [t EXCEPT ![w] = 0]
    /\ x' = [x EXCEPT ![w] = None]

\* With a task, which is run,
Run(w, task) ==
    /\ Leave(w)
    /\ cur' = [cur EXCEPT ![w] = task]
    /\ todo' = [todo EXCEPT ![w] = Kids[task]]
    /\ begun' = Append(begun, task)
    /\ Goto(w, "run")
    /\ UNCHANGED <<left, given, done>>

\* or without: after the own deque the others are tried.
ToSteal(w) ==
    /\ Leave(w)
    /\ left' = [left EXCEPT ![w] = Threads \ {w}]
    /\ Goto(w, "victim")
    /\ UNCHANGED <<cur, todo, hist>>

-------------------------------------------------------------------------------
(* work_steal_queue::pop, by the thread that owns the deque.               *)

\* Mutant of PopRead: an empty deque is popped.
PopReadEmpty(w) ==
    /\ pc[w] = "loop"
    /\ b' = [b EXCEPT ![w] = bottom[w] - 1]
    /\ Goto(w, "reserve")
    /\ UNCHANGED <<cur, todo, left, victim, t, x, hist>>
    /\ UNCHANGED <<deques, pool>>

\* bottom and top are read.
PopRead(w) ==
    /\ pc[w] = "loop"
    /\ \/ /\ bottom[w] > top[w]
          /\ b' = [b EXCEPT ![w] = bottom[w] - 1]
          /\ Goto(w, "reserve")
          /\ UNCHANGED <<cur, todo, left, victim, t, x, hist>>
       \/ bottom[w] <= top[w] /\ ToSteal(w)
    /\ UNCHANGED <<deques, pool>>

\* bottom.store(--b): the last item is reserved,
PopReserve(w) ==
    /\ pc[w] = "reserve"
    /\ bottom' = [bottom EXCEPT ![w] = b[w]]
    /\ Goto(w, "check")
    /\ UNCHANGED <<locals, items, top, pool, hist>>

\* and top is read again.  There are more items:
PopTake(w) ==
    /\ pc[w] = "check" /\ b[w] > top[w]
    /\ Run(w, Slot(items[w], b[w]))
    /\ UNCHANGED <<deques, pool>>

\* or this one has been stolen, and bottom is restored;
PopGone(w) ==
    /\ pc[w] = "check" /\ b[w] < top[w]
    /\ bottom' = [bottom EXCEPT ![w] = b[w] + 1]
    /\ ToSteal(w)
    /\ UNCHANGED <<items, top, pool>>

\* or this is the last one,
PopContend(w) ==
    /\ pc[w] = "check" /\ b[w] = top[w]
    /\ t' = [t EXCEPT ![w] = top[w]]
    /\ x' = [x EXCEPT ![w] = Slot(items[w], b[w])]
    /\ Goto(w, "last")
    /\ UNCHANGED <<cur, todo, left, victim, b, deques, pool, hist>>

\* which belongs to whoever moves top.  Restoring bottom shows others nothing
\* new: the deque is empty for them before and after.
PopLast(w) ==
    /\ pc[w] = "last"
    /\ bottom' = [bottom EXCEPT ![w] = b[w] + 1]
    /\ IF top[w] = t[w]
       THEN top' = [top EXCEPT ![w] = t[w] + 1] /\ Run(w, x[w])
       ELSE UNCHANGED top /\ ToSteal(w)
    /\ UNCHANGED <<items, pool>>

-------------------------------------------------------------------------------
(* steal_task and work_steal_queue::steal.                                 *)

\* The other threads are tried once each, in a shuffled order; then the public
\* queue is.
Victim(w) ==
    /\ pc[w] = "victim"
    /\ \/ \E v \in left[w] :
            /\ victim' = [victim EXCEPT ![w] = v]
            /\ left' = [left EXCEPT ![w] = @ \ {v}]
            /\ Goto(w, "top")
       \/ left[w] = {} /\ Goto(w, "fetch") /\ UNCHANGED <<victim, left>>
    /\ UNCHANGED <<cur, todo, b, t, x, deques, pool, hist>>

StealTop(w) ==
    /\ pc[w] = "top"
    /\ t' = [t EXCEPT ![w] = top[victim[w]]]
    /\ Goto(w, "bottom")
    /\ UNCHANGED <<cur, todo, left, victim, b, x, deques, pool, hist>>

StealBottom(w) ==
    /\ pc[w] = "bottom"
    /\ IF bottom[victim[w]] <= t[w]
       THEN Leave(w) /\ Goto(w, "victim")
       ELSE Goto(w, "item") /\ UNCHANGED <<victim, b, t, x>>
    /\ UNCHANGED <<cur, todo, left, deques, pool, hist>>

\* The array that was current is kept when it is replaced, with this item.
StealItem(w) ==
    /\ pc[w] = "item"
    /\ x' = [x EXCEPT ![w] = Slot(items[victim[w]], t[w])]
    /\ Goto(w, "cas")
    /\ UNCHANGED <<cur, todo, left, victim, b, t, deques, pool, hist>>

\* Mutant of StealCas: top is stored whoever moved it meanwhile.
StealStore(w) ==
    /\ pc[w] = "cas"
    /\ top' = [top EXCEPT ![victim[w]] = t[w] + 1]
    /\ Run(w, x[w])
    /\ UNCHANGED <<items, bottom, pool>>

\* A failed exchange starts over with the same victim.  (A weak exchange may
\* also fail for no reason: that only repeats the reads.)
StealCas(w) ==
    /\ pc[w] = "cas"
    /\ IF top[victim[w]] = t[w]
       THEN top' = [top EXCEPT ![victim[w]] = t[w] + 1] /\ Run(w, x[w])
       ELSE Goto(w, "top") /\ UNCHANGED <<locals, top, hist>>
    /\ UNCHANGED <<items, bottom, pool>>

-------------------------------------------------------------------------------
(* The rest of thread_task_loop, and schedule.                             *)

\* Mutant of Fetch: a pool that is shut down leaves its public queue.
FetchUnlessShutdown(w) ==
    /\ pc[w] = "fetch"
    /\ \/ /\ shutdown
          /\ Goto(w, "exited")
          /\ UNCHANGED <<public, waiters, locals, hist>>
       \/ /\ public # <<>> /\ ~shutdown
          /\ public' = Tail(public)
          /\ Run(w, Head(public))
          /\ UNCHANGED waiters
       \/ /\ public = <<>> /\ ~shutdown
          /\ waiters' = Append(waiters, w)
          /\ Goto(w, "asleep")
          /\ UNCHANGED <<public, locals, hist>>
    /\ UNCHANGED <<deques, event, shutdown>>

\* Under the mutex: a public task is taken, or the thread ends, or it joins the
\* sleeping ones.
Fetch(w) ==
    /\ pc[w] = "fetch"
    /\ \/ /\ public # <<>>
          /\ public' = Tail(public)
          /\ Run(w, Head(public))
          /\ UNCHANGED waiters
       \/ /\ public = <<>> /\ shutdown
          /\ Goto(w, "exited")
          /\ UNCHANGED <<public, waiters, locals, hist>>
       \/ /\ public = <<>> /\ ~shutdown
          /\ waiters' = Append(waiters, w)
          /\ Goto(w, "asleep")
          /\ UNCHANGED <<public, locals, hist>>
    /\ UNCHANGED <<deques, event, shutdown>>

\* event.wait() returns and clears the event,
Wake(w) ==
    /\ pc[w] = "asleep" /\ event[w]
    /\ event' = [event EXCEPT ![w] = FALSE]
    /\ Goto(w, "woken")
    /\ UNCHANGED <<locals, deques, public, waiters, shutdown, hist>>

\* and under the mutex the thread leaves the list, if it is still on it: the
\* last takes its place.
Remove(ws, w) ==
    LET n == Len(ws)
        i == CHOOSE j \in 1 .. n : ws[j] = w
    IN  IF w \in Range(ws)
        THEN [j \in 1 .. n - 1 |-> IF j = i THEN ws[n] ELSE ws[j]]
        ELSE ws

Woken(w) ==
    /\ pc[w] = "woken"
    /\ waiters' = Remove(waiters, w)
    /\ ToSteal(w)
    /\ UNCHANGED <<deques, event, public, shutdown>>

\* The last thread of the list is taken from it and signalled.
Notify ==
    IF waiters = <<>>
    THEN UNCHANGED <<event, waiters>>
    ELSE /\ event' = [event EXCEPT ![waiters[Len(waiters)]] = TRUE]
         /\ waiters' = SubSeq(waiters, 1, Len(waiters) - 1)

\* Mutant of Submit: nobody is woken.
SubmitQuiet(task) ==
    /\ ~shutdown
    /\ task \in Roots \ given
    /\ given' = given \cup {task}
    /\ public' = Append(public, task)
    /\ UNCHANGED <<pc, locals, deques, event, waiters, shutdown, begun, done>>

\* schedule() from outside the pool, under the mutex.
Submit(task) ==
    /\ ~shutdown
    /\ task \in Roots \ given
    /\ given' = given \cup {task}
    /\ public' = Append(public, task)
    /\ Notify
    /\ UNCHANGED <<pc, locals, deques, shutdown, begun, done>>

\* schedule() by a task that runs: push() puts it into the deque, in a larger
\* array if this one is full,
Push(w, task) ==
    /\ pc[w] = "run"
    /\ task \in todo[w]
    /\ todo' = [todo EXCEPT ![w] = @ \ {task}]
    /\ given' = given \cup {task}
    /\ LET lo   == top[w]
           hi   == bottom[w]
           room == IF hi - lo >= Size(items[w]) THEN Grow(items[w], lo, hi)
                                                ELSE items[w]
       IN  items' = [items EXCEPT ![w] = [room EXCEPT ![hi % Size(room)] = task]]
    /\ Goto(w, "publish")
    /\ UNCHANGED <<cur, left, victim, b, t, x, top, bottom, pool, begun, done>>

\* and shows it,
Publish(w) ==
    /\ pc[w] = "publish"
    /\ bottom' = [bottom EXCEPT ![w] = @ + 1]
    /\ Goto(w, "peek")
    /\ UNCHANGED <<locals, items, top, pool, hist>>

\* num_waiters is read without the mutex,
Peek(w) ==
    /\ pc[w] = "peek"
    /\ Goto(w, IF waiters = <<>> THEN "run" ELSE "notify")
    /\ UNCHANGED <<locals, deques, pool, hist>>

\* and a thread is woken under it, if there still is one.
WakeOne(w) ==
    /\ pc[w] = "notify"
    /\ Notify
    /\ Goto(w, "run")
    /\ UNCHANGED <<locals, deques, public, shutdown, hist>>

Return(w) ==
    /\ pc[w] = "run" /\ todo[w] = {}
    /\ done' = done \cup {cur[w]}
    /\ cur' = [cur EXCEPT ![w] = None]
    /\ Goto(w, "loop")
    /\ UNCHANGED <<todo, left, victim, b, t, x, deques, pool, given, begun>>

\* Mutant of Shutdown: one thread is signalled.
ShutdownOne ==
    /\ ~shutdown
    /\ shutdown' = TRUE
    /\ Notify
    /\ UNCHANGED <<pc, locals, deques, public, hist>>

\* The destructor: every sleeping thread is signalled; then it joins them all.
Shutdown ==
    /\ ~shutdown
    /\ shutdown' = TRUE
    /\ event' = [w \in Threads |-> event[w] \/ w \in Range(waiters)]
    /\ waiters' = <<>>
    /\ UNCHANGED <<pc, locals, deques, public, hist>>

Joined == shutdown /\ \A w \in Threads : pc[w] = "exited"

-------------------------------------------------------------------------------
Step(w) ==
    \/ PopRead(w) \/ PopReserve(w) \/ PopTake(w) \/ PopGone(w)
    \/ PopContend(w) \/ PopLast(w)
    \/ Victim(w) \/ StealTop(w) \/ StealBottom(w) \/ StealItem(w) \/ StealCas(w)
    \/ Fetch(w) \/ Wake(w) \/ Woken(w)
    \/ \E task \in Tasks : Push(w, task)
    \/ Publish(w) \/ Peek(w) \/ WakeOne(w) \/ Return(w)

Next ==
    \/ \E w \in Threads : Step(w)
    \/ \E task \in Tasks : Submit(task)
    \/ Shutdown

Spec == Init /\ [][Next]_vars

\* The system runs every thread, and tasks return.  Nobody has to submit
\* anything or to stop the pool.
FairSpec == Spec /\ \A w \in Threads : WF_vars(Step(w))

-------------------------------------------------------------------------------
Awake(w) == pc[w] \notin {"asleep", "exited"} \/ (pc[w] = "asleep" /\ event[w])

\* The types of the variables.  The list of waiters is an array with a place
\* for each thread, so that none may be on it twice.
TypeOK ==
    /\ pc \in [Threads -> Labels]
    /\ cur \in [Threads -> Tasks \cup {None}]
    /\ todo \in [Threads -> SUBSET Tasks]
    /\ left \in [Threads -> SUBSET Threads] /\ victim \in [Threads -> Threads]
    /\ b \in [Threads -> Nat] /\ t \in [Threads -> Nat]
    /\ x \in [Threads -> Tasks \cup {None}]
    /\ DOMAIN items = Threads
    /\ top \in [Threads -> Nat] /\ bottom \in [Threads -> Nat]
    /\ event \in [Threads -> BOOLEAN]
    /\ public \in Seq(Tasks)
    /\ waiters \in Seq(Threads) /\ IsInjective(waiters)
    /\ shutdown \in BOOLEAN
    /\ given \subseteq Tasks /\ begun \in Seq(Tasks) /\ done \subseteq Tasks

\* A task in the public queue has a thread that will look for it: the threads
\* that found the queue empty are not all asleep without a signal when schedule
\* or the destructor has used up the list of waiters.
PublicTaskIsSeen == public # <<>> => \E w \in Threads : Awake(w)

\* When the destructor has joined the threads, every task that was scheduled,
\* from outside or by another task, has returned.
JoinedIsDrained == Joined => done = given

\* Each task is run once, after it was scheduled, whoever takes it from whichever
\* queue while others push, pop and steal: the pool implements WorkPool.
Abstract == INSTANCE WorkPool WITH started <- begun, ended <- done
ImplementsWorkPool == Abstract!Spec

\* And each one that was scheduled returns: no push and no signal is lost while
\* threads go to sleep.
TasksEnd == Abstract!Live

\* The destructor comes to an end.
ShutdownJoins == shutdown ~> Joined

-------------------------------------------------------------------------------
(* What the safety properties rest on: the parts of an inductive invariant. *)

\* A deque, whatever its thread is in the middle of, holds the tasks from top to
\* bottom: with the one that push has stored and not yet shown, and with the one
\* that pop has reserved and that thieves may still get.
Limit(w) == IF pc[w] \in {"publish", "check", "last"} THEN bottom[w] + 1 ELSE bottom[w]
Held(w)  == [i \in top[w] .. Limit(w) - 1 |-> Slot(items[w], i)]

IsArray(a) ==
    /\ Size(a) \in Nat \ {0} /\ DOMAIN a = 0 .. Size(a) - 1
    /\ \A i \in DOMAIN a : a[i] \in Tasks \cup {None}

\* It fits into its array; pop has the index it reserved and, if nobody moves
\* top, the last task.
DequeIsSound(w) ==
    /\ IsArray(items[w])
    /\ top[w] <= Limit(w) /\ Limit(w) <= top[w] + Size(items[w])
    /\ pc[w] = "reserve" => b[w] = bottom[w] - 1
    /\ pc[w] \in {"check", "last"} => b[w] = bottom[w]
    /\ pc[w] = "last" =>
         /\ t[w] = b[w] /\ t[w] <= top[w]
         /\ t[w] = top[w] => x[w] = Slot(items[w], t[w])

\* A thread that looks for work has left its own deque empty.
Looking == {"victim", "top", "bottom", "item", "cas", "fetch", "asleep", "woken", "exited"}
LookerIsEmpty(w) == pc[w] \in Looking => top[w] = Limit(w)

\* A thief tries another thread's deque, and if nobody moves top there is a task
\* at it, the one the thief has read.
ThiefIsSound(w) ==
    /\ w \notin left[w]
    /\ pc[w] \in {"top", "bottom", "item", "cas"} => victim[w] # w
    /\ pc[w] \in {"bottom", "item", "cas"} => t[w] <= top[victim[w]]
    /\ pc[w] \in {"item", "cas"} /\ t[w] = top[victim[w]] => t[w] < Limit(victim[w])
    /\ pc[w] = "cas" /\ t[w] = top[victim[w]] => x[w] = Slot(items[victim[w]], t[w])

\* The list has the threads that sleep without a signal, and a thread ends when
\* no task can come from outside any more.
SleeperIsListed(w) ==
    /\ w \in Range(waiters) <=> pc[w] = "asleep" /\ ~event[w]
    /\ event[w] => pc[w] = "asleep"
    /\ pc[w] = "exited" => shutdown /\ public = <<>>

\* A task that waits is in one place, was scheduled and has not been run.
HeldOnce ==
    \A v, w \in Threads : \A i \in DOMAIN Held(v), j \in DOMAIN Held(w) :
       Held(v)[i] = Held(w)[j] => v = w /\ i = j
HeldWaits ==
    \A w \in Threads : \A i \in DOMAIN Held(w) :
       Held(w)[i] \in (given \ Range(begun)) \ Range(public)
PublicWaits == IsInjective(public) /\ Range(public) \subseteq given \ Range(begun)
BegunOnce == IsInjective(begun) /\ Range(begun) \subseteq given

\* None is lost: it waits, or was run, and then it has returned or is running.
NoneIsLost ==
    \A task \in given :
       \/ task \in Range(public) \cup Range(begun)
       \/ \E w \in Threads : \E i \in DOMAIN Held(w) : Held(w)[i] = task
Running(w) == pc[w] \in {"run", "publish", "peek", "notify"}
RunIsBegun ==
    /\ \A w \in Threads : IF Running(w) THEN cur[w] \in Range(begun) \ done
                                        ELSE todo[w] = {}
    /\ \A v, w \in Threads : Running(v) /\ Running(w) /\ cur[v] = cur[w] => v = w
    /\ done \subseteq Range(begun)
    /\ \A task \in Range(begun) \ done : \E w \in Threads : Running(w) /\ cur[w] = task

\* A task that is still to be scheduled has not been, nor have those that a task
\* will schedule once it is run.
KidsAreNew ==
    /\ \A w \in Threads : \A kid \in todo[w] : kid \in Kids[cur[w]] \ given
    /\ \A task \in Tasks \ Range(begun) : Kids[task] \cap given = {}

IInv ==
    /\ TypeOK
    /\ \A w \in Threads : /\ DequeIsSound(w) /\ LookerIsEmpty(w)
                          /\ ThiefIsSound(w) /\ SleeperIsListed(w)
    /\ HeldOnce /\ HeldWaits /\ PublicWaits /\ BegunOnce /\ NoneIsLost
    /\ RunIsBegun /\ KidsAreNew /\ PublicTaskIsSeen

===============================================================================
