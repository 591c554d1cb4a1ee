--------------------------- MODULE ThreadPoolProofs ---------------------------
(***************************************************************************)
(* Safety of the pool of threads, for any number of threads and tasks and  *)
(* any size of the deques' arrays: the inductive invariant IInv of         *)
(* ThreadPool, one lemma per action, and what follows from it.             *)
(*                                                                         *)
(* Most steps move no task: they only have to keep what a thread knows of  *)
(* its own deque (Sound) and of the one it steals from (ThiefIsSound).     *)
(* The others take one task from where it waits (TaskRuns) or put one      *)
(* there (TaskIsPushed, SubmitIInv).                                       *)
(***************************************************************************)
EXTENDS ThreadPool, FiniteSetTheorems, TLAPS

\* Two indices less than n apart have different remainders.
LEMMA RemaindersDiffer ==
    ASSUME NEW n \in Nat \ {0}, NEW i \in Nat, NEW j \in Nat, i < j, j < i + n
    PROVE  i % n # j % n
<1> SUFFICES ASSUME i % n = j % n PROVE FALSE
    OBVIOUS
<1>1. i = (n * (i \div n)) + (i % n) /\ j = (n * (j \div n)) + (j % n)
      /\ i \div n \in Int /\ j \div n \in Int
    OBVIOUS
<1>2. PICK q \in Int : j = i + n * q
    <2> DEFINE q == (j \div n) - (i \div n)
    <2>1. n * q = n * (j \div n) - n * (i \div n) /\ q \in Int
        BY <1>1
    <2>2. j = i + n * q
        BY <1>1, <2>1
    <2> HIDE DEF q
    <2> QED BY <2>1, <2>2
<1>3. CASE q <= 0
    <2>1. n * q <= 0
        BY <1>3
    <2> QED BY <2>1, <1>2
<1>4. CASE q >= 1
    <2>1. n * q >= n
        BY <1>4
    <2> QED BY <2>1, <1>2
<1> QED BY <1>3, <1>4

\* An index is taken to a place of the array.
LEMMA RemainderInRange ==
    ASSUME NEW n \in Nat \ {0}, NEW i \in Nat
    PROVE  i % n \in 0 .. n - 1
OBVIOUS

\* The size of an array that starts at 0.
LEMMA SizeIs ==
    ASSUME NEW n \in Nat \ {0}, NEW a, DOMAIN a = 0 .. n - 1
    PROVE  Size(a) = n
BY FS_Interval DEF Size

\* What an array holds is a task or nothing.
LEMMA SlotType ==
    ASSUME NEW a, IsArray(a), NEW i \in Nat
    PROVE  Slot(a, i) \in Tasks \cup {None}
BY RemainderInRange DEF IsArray, Slot

\* Storing at hi leaves the tasks from lo on alone when they leave room for it.
LEMMA StoreKeeps ==
    ASSUME NEW a, IsArray(a), NEW task \in Tasks, NEW lo \in Nat, NEW hi \in Nat,
           lo <= hi, hi < lo + Size(a),
           NEW s, DOMAIN s = DOMAIN a, s[hi % Size(a)] = task,
           \A i \in DOMAIN a \ {hi % Size(a)} : s[i] = a[i]
    PROVE  /\ IsArray(s) /\ Size(s) = Size(a)
           /\ Slot(s, hi) = task
           /\ \A i \in lo .. hi - 1 : Slot(s, i) = Slot(a, i)
<1> DEFINE n == Size(a)
<1>1. n \in Nat \ {0} /\ DOMAIN a = 0 .. n - 1 /\ DOMAIN s = 0 .. n - 1
    BY DEF IsArray
<1>2. Size(s) = n
    BY <1>1, SizeIs
<1>3. hi % n \in 0 .. n - 1
    BY <1>1, RemainderInRange
<1>4. IsArray(s) /\ Slot(s, hi) = task
    BY <1>1, <1>2, <1>3 DEF IsArray, Slot
<1>5. ASSUME NEW i \in lo .. hi - 1 PROVE Slot(s, i) = Slot(a, i)
    <2>1. i \in Nat /\ i < hi /\ hi < i + n
        BY <1>1
    <2>2. i % n \in 0 .. n - 1 /\ i % n # hi % n
        BY <1>1, <2>1, RemainderInRange, RemaindersDiffer
    <2> QED BY <1>1, <1>2, <2>2 DEF Slot
<1> QED BY <1>2, <1>4, <1>5

\* A larger array holds the same tasks under the same indices.
LEMMA GrowKeeps ==
    ASSUME NEW a, IsArray(a), NEW lo \in Nat, NEW hi \in Nat,
           lo <= hi, hi <= lo + Size(a)
    PROVE  /\ IsArray(Grow(a, lo, hi)) /\ Size(Grow(a, lo, hi)) = 2 * Size(a)
           /\ \A i \in lo .. hi - 1 : Slot(Grow(a, lo, hi), i) = Slot(a, i)
<1> DEFINE n == Size(a)
           m == 2 * n
           g == Grow(a, lo, hi)
           At(j) == CHOOSE k \in lo .. hi - 1 : k % m = j
<1>1. n \in Nat \ {0} /\ m \in Nat \ {0}
    BY DEF IsArray
<1>2. g = [j \in 0 .. m - 1 |-> IF \E k \in lo .. hi - 1 : k % m = j
                                THEN Slot(a, At(j)) ELSE None]
    BY DEF Grow
<1>3. DOMAIN g = 0 .. m - 1 /\ Size(g) = m
    <2>1. DOMAIN g = 0 .. m - 1
        BY <1>2
    <2> HIDE DEF g
    <2> QED BY <1>1, <2>1, SizeIs
<1>4. ASSUME NEW j \in 0 .. m - 1 PROVE g[j] \in Tasks \cup {None}
    <2>1. CASE \E k \in lo .. hi - 1 : k % m = j
        <3>1. At(j) \in Nat
            BY <2>1
        <3> QED BY <1>2, <2>1, <3>1, SlotType
    <2>2. CASE ~ \E k \in lo .. hi - 1 : k % m = j
        BY <1>2, <2>2
    <2> QED BY <2>1, <2>2
<1>5. ASSUME NEW i \in lo .. hi - 1 PROVE Slot(g, i) = Slot(a, i)
    <2>1. i \in Nat /\ i % m \in 0 .. m - 1
        <3>1. i \in Nat
            OBVIOUS
        <3> HIDE DEF m
        <3> QED BY <1>1, <3>1, RemainderInRange
    <2>2. ASSUME NEW k \in lo .. hi - 1, k % m = i % m PROVE k = i
        <3>1. k \in Nat /\ i < k + m /\ k < i + m
            BY <1>1
        <3> QED BY <1>1, <2>1, <2>2, <3>1, RemaindersDiffer
    <2>3. At(i % m) = i
        BY <2>2
    <2>4. g[i % m] = Slot(a, i)
        BY <1>2, <2>1, <2>3
    <2> QED BY <1>3, <2>4 DEF Slot
<1>6. IsArray(g)
    <2> HIDE DEF g, m
    <2> QED BY <1>1, <1>3, <1>4 DEF IsArray
<1> QED BY <1>3, <1>5, <1>6

-------------------------------------------------------------------------------
(* Lists without repetitions: the public queue, the waiters, the history.  *)

\* One more at the end,
LEMMA RangeAppend ==
    ASSUME NEW S, NEW q \in Seq(S), NEW e \in S
    PROVE  /\ Append(q, e) \in Seq(S) /\ Range(Append(q, e)) = Range(q) \cup {e}
           /\ IsInjective(q) /\ e \notin Range(q) => IsInjective(Append(q, e))
<1>1. /\ Append(q, e) \in Seq(S) /\ DOMAIN Append(q, e) = 1 .. Len(q) + 1
      /\ \A k \in 1 .. Len(q) : Append(q, e)[k] = q[k]
      /\ Append(q, e)[Len(q) + 1] = e
      /\ DOMAIN q = 1 .. Len(q) /\ Len(q) \in Nat
    OBVIOUS
<1>2. Range(Append(q, e)) = Range(q) \cup {e}
    <2>1. ASSUME NEW y \in Range(q) \cup {e} PROVE y \in Range(Append(q, e))
        <3>1. CASE y = e
            BY <1>1, <3>1 DEF Range
        <3>2. CASE y \in Range(q)
            BY <1>1, <3>2 DEF Range
        <3> QED BY <2>1, <3>1, <3>2
    <2>2. ASSUME NEW y \in Range(Append(q, e)) PROVE y \in Range(q) \cup {e}
        BY <1>1 DEF Range
    <2> QED BY <2>1, <2>2
<1>3. ASSUME IsInjective(q), e \notin Range(q) PROVE IsInjective(Append(q, e))
    BY <1>1, <1>3 DEF IsInjective, Range
<1> QED BY <1>1, <1>2, <1>3

\* the first one taken,
LEMMA RangeTail ==
    ASSUME NEW S, NEW q \in Seq(S), q # <<>>, IsInjective(q)
    PROVE  /\ Tail(q) \in Seq(S) /\ Head(q) \in Range(q) /\ Head(q) \in S
           /\ Range(Tail(q)) = Range(q) \ {Head(q)} /\ IsInjective(Tail(q))
<1>1. /\ DOMAIN q = 1 .. Len(q) /\ Len(q) \in Nat /\ Len(q) >= 1 /\ Head(q) = q[1]
      /\ Tail(q) \in Seq(S) /\ DOMAIN Tail(q) = 1 .. Len(q) - 1
      /\ \A k \in 1 .. Len(q) - 1 : Tail(q)[k] = q[k + 1]
    OBVIOUS
<1>2. Head(q) \in Range(q) /\ Head(q) \in S
    BY <1>1 DEF Range
<1>3. ASSUME NEW y \in Range(Tail(q)) PROVE y \in Range(q) \ {Head(q)}
    BY <1>1 DEF Range, IsInjective
<1>4. ASSUME NEW y \in Range(q) \ {Head(q)} PROVE y \in Range(Tail(q))
    <2>1. PICK k \in 1 .. Len(q) : y = q[k]
        BY <1>1 DEF Range
    <2>2. k - 1 \in 1 .. Len(q) - 1 /\ Tail(q)[k - 1] = q[k]
        BY <1>1, <2>1
    <2> QED BY <1>1, <2>1, <2>2 DEF Range
<1>5. IsInjective(Tail(q))
    BY <1>1 DEF IsInjective
<1> QED BY <1>1, <1>2, <1>3, <1>4, <1>5

\* the last one taken,
LEMMA RangeFront ==
    ASSUME NEW S, NEW q \in Seq(S), q # <<>>, IsInjective(q)
    PROVE  LET f == SubSeq(q, 1, Len(q) - 1)
               l == q[Len(q)]
           IN  /\ f \in Seq(S) /\ l \in Range(q) /\ l \in S
               /\ Range(f) = Range(q) \ {l} /\ IsInjective(f)
<1> DEFINE f == SubSeq(q, 1, Len(q) - 1)
           l == q[Len(q)]
<1>1. /\ DOMAIN q = 1 .. Len(q) /\ Len(q) \in Nat /\ Len(q) >= 1
      /\ f \in Seq(S) /\ DOMAIN f = 1 .. Len(q) - 1
      /\ \A k \in 1 .. Len(q) - 1 : f[k] = q[k]
    OBVIOUS
<1> HIDE DEF f
<1>2. l \in Range(q) /\ l \in S
    BY <1>1 DEF Range
<1>3. ASSUME NEW y \in Range(f) PROVE y \in Range(q) \ {l}
    BY <1>1 DEF Range, IsInjective
<1>4. ASSUME NEW y \in Range(q) \ {l} PROVE y \in Range(f)
    <2>1. PICK k \in 1 .. Len(q) : y = q[k]
        BY <1>1 DEF Range
    <2>2. k \in 1 .. Len(q) - 1 /\ f[k] = q[k]
        BY <1>1, <2>1
    <2> QED BY <1>1, <2>1, <2>2 DEF Range
<1>5. IsInjective(f)
    BY <1>1 DEF IsInjective
<1> USE DEF f
<1> QED BY <1>1, <1>2, <1>3, <1>4, <1>5

\* and none.
LEMMA RangeEmpty == Range(<<>>) = {} /\ IsInjective(<<>>)
BY DEF Range, IsInjective

-------------------------------------------------------------------------------
(* What one thread does and what the others notice of it.                  *)

\* What a thread knows of its own deque, and what is true of the tasks.
Sound(w) == DequeIsSound(w) /\ LookerIsEmpty(w)
TasksAreSound ==
    /\ HeldOnce /\ HeldWaits /\ PublicWaits /\ BegunOnce /\ NoneIsLost
    /\ RunIsBegun /\ KidsAreNew

\* The invariant by what its parts are about: the threads, the tasks, the pool.
LEMMA IInvIs ==
    IInv <=> /\ TypeOK
             /\ \A w \in Threads : Sound(w) /\ ThiefIsSound(w) /\ SleeperIsListed(w)
             /\ TasksAreSound /\ PublicTaskIsSeen
BY DEF IInv, Sound, TasksAreSound

\* Nothing of a thread changes.
Kept(v) ==
    /\ pc'[v] = pc[v] /\ left'[v] = left[v] /\ victim'[v] = victim[v]
    /\ b'[v] = b[v] /\ t'[v] = t[v] /\ x'[v] = x[v]
\* Nothing of its deque does.
DequeKept(v) == items'[v] = items[v] /\ top'[v] = top[v] /\ bottom'[v] = bottom[v]

\* Such a thread's deque is as sound as it was.
LEMMA BystanderStays ==
    ASSUME NEW v \in Threads, Kept(v), DequeKept(v), Sound(v)
    PROVE  Sound(v)' /\ Limit(v)' = Limit(v) /\ Held(v)' = Held(v)
BY DEF Kept, DequeKept, Sound, DequeIsSound, LookerIsEmpty, Limit, Held

\* As a thief sees it: top does not go back, and until it moves the task at it is
\* there and the same.
MovesOn(u) ==
    /\ top'[u] >= top[u]
    /\ top'[u] = top[u] /\ top[u] < Limit(u) =>
         top[u] < Limit(u)' /\ Slot(items'[u], top[u]) = Slot(items[u], top[u])

\* A thief whose turn it is not stays sound whatever another thread does.
LEMMA ThiefStays ==
    ASSUME TypeOK, NEW v \in Threads, Kept(v), ThiefIsSound(v), top' \in [Threads -> Nat],
           \A u \in Threads : MovesOn(u)
    PROVE  ThiefIsSound(v)'
<1> DEFINE u == victim[v]
<1>1. /\ u \in Threads /\ MovesOn(u) /\ t[v] \in Nat /\ top[u] \in Nat /\ top'[u] \in Nat
      /\ victim'[v] = u
    BY DEF TypeOK, Kept
<1>2. pc[v] \in {"bottom", "item", "cas"} => t[v] <= top'[u]
    BY <1>1 DEF ThiefIsSound, MovesOn
<1>3. pc[v] \in {"item", "cas"} /\ t[v] = top'[u] =>
        /\ t[v] = top[u] /\ t[v] < Limit(u)'
        /\ Slot(items'[u], t[v]) = Slot(items[u], t[v])
    BY <1>1 DEF ThiefIsSound, MovesOn
<1> QED BY <1>1, <1>2, <1>3 DEF ThiefIsSound, Kept, Slot

\* A deque that nobody changed.
LEMMA DequeStaysMovesOn ==
    ASSUME TypeOK, NEW u \in Threads, items'[u] = items[u], top'[u] = top[u],
           Limit(u)' = Limit(u)
    PROVE  MovesOn(u) /\ Held(u)' = Held(u)
<1>1. top[u] \in Nat
    BY DEF TypeOK
<1> QED BY <1>1 DEF MovesOn, Held

\* Tasks stay where they are.
LEMMA TasksStay ==
    ASSUME TasksAreSound, UNCHANGED <<cur, todo, public, hist>>,
           \A v \in Threads : Held(v)' = Held(v) /\ (Running(v)' <=> Running(v))
    PROVE  TasksAreSound'
<1>1. /\ UNCHANGED <<cur, todo, public, given, begun, done>>
    BY DEF hist
<1>2. HeldOnce' /\ HeldWaits' /\ PublicWaits' /\ BegunOnce' /\ NoneIsLost'
    <2> USE <1>1 DEF TasksAreSound
    <2>1. HeldOnce'
        BY DEF HeldOnce
    <2>2. HeldWaits'
        BY DEF HeldWaits
    <2>3. PublicWaits' /\ BegunOnce'
        BY DEF PublicWaits, BegunOnce
    <2>4. NoneIsLost'
        BY DEF NoneIsLost
    <2> QED BY <2>1, <2>2, <2>3, <2>4
<1>3. RunIsBegun'
    BY <1>1 DEF TasksAreSound, RunIsBegun
<1>4. KidsAreNew'
    BY <1>1 DEF TasksAreSound, KidsAreNew
<1> QED BY <1>2, <1>3, <1>4 DEF TasksAreSound

\* A thread that neither sleeps nor ends leaves the pool's list right.
LEMMA PoolStays ==
    ASSUME TypeOK, \A v \in Threads : SleeperIsListed(v), PublicTaskIsSeen,
           UNCHANGED pool, NEW w \in Threads, NEW l \in Labels \ {"asleep", "exited"},
           pc[w] \notin {"asleep", "exited"}, Goto(w, l)
    PROVE  (\A v \in Threads : SleeperIsListed(v)') /\ PublicTaskIsSeen'
<1>1. /\ UNCHANGED <<event, public, waiters, shutdown>> /\ pc'[w] = l
      /\ \A v \in Threads \ {w} : pc'[v] = pc[v]
    BY DEF pool, Goto, TypeOK
<1>2. \A v \in Threads : SleeperIsListed(v)'
    BY <1>1 DEF SleeperIsListed
<1>3. PublicTaskIsSeen'
    BY <1>1 DEF PublicTaskIsSeen, Awake
<1> QED BY <1>2, <1>3

\* A thread goes on without touching a task.
LEMMA QuietStep ==
    ASSUME IInv, NEW w \in Threads, NEW l \in Labels \ {"asleep", "exited"},
           pc[w] \notin {"asleep", "exited"}, Goto(w, l),
           Running(w)' <=> Running(w),
           UNCHANGED <<cur, todo, items, top, pool, hist>>,
           \A v \in Threads \ {w} : Kept(v) /\ bottom'[v] = bottom[v],
           Limit(w)' = Limit(w), TypeOK', Sound(w)', ThiefIsSound(w)'
    PROVE  IInv'
<1>1. /\ TypeOK /\ TasksAreSound /\ PublicTaskIsSeen
      /\ \A v \in Threads : Sound(v) /\ ThiefIsSound(v) /\ SleeperIsListed(v)
    BY IInvIs
<1>2. ASSUME NEW v \in Threads \ {w} PROVE Sound(v)' /\ Limit(v)' = Limit(v) /\ Kept(v)
    BY <1>1, BystanderStays DEF DequeKept
<1>3. ASSUME NEW v \in Threads PROVE MovesOn(v) /\ Held(v)' = Held(v)
    BY <1>1, <1>2, DequeStaysMovesOn
<1>4. top' \in [Threads -> Nat]
    BY DEF TypeOK
<1>5. ASSUME NEW v \in Threads PROVE ThiefIsSound(v)'
    BY <1>1, <1>2, <1>3, <1>4, ThiefStays
<1>6. ASSUME NEW v \in Threads PROVE Running(v)' <=> Running(v)
    BY <1>2 DEF Running, Kept
<1>7. TasksAreSound'
    <2>1. UNCHANGED public
        BY DEF pool
    <2> QED BY <1>1, <1>3, <1>6, <2>1, TasksStay
<1>8. (\A v \in Threads : SleeperIsListed(v)') /\ PublicTaskIsSeen'
    BY <1>1, PoolStays
<1>9. \A v \in Threads : Sound(v)'
    BY <1>2
<1> QED BY <1>5, <1>7, <1>8, <1>9 DEF IInv, Sound, TasksAreSound

-------------------------------------------------------------------------------
(* The steps that move no task.                                            *)

\* A thread that gives up on a deque, its own empty one or another's.
LEMMA ToStealIInv ==
    ASSUME IInv, NEW w \in Threads, ToSteal(w), ~Running(w),
           pc[w] \notin {"asleep", "exited"}, UNCHANGED <<items, top, pool>>,
           \A v \in Threads \ {w} : bottom'[v] = bottom[v],
           bottom' \in [Threads -> Nat], bottom'[w] = Limit(w), top[w] = Limit(w)
    PROVE  IInv'
<1> USE DEF ToSteal, Leave, Goto
<1>1. TypeOK
    BY DEF IInv
<1>2. /\ pc'[w] = "victim" /\ left'[w] = Threads \ {w}
      /\ \A v \in Threads \ {w} : Kept(v)
    BY <1>1 DEF TypeOK, Kept
<1>3. TypeOK'
    BY <1>1 DEF TypeOK, Labels, pool, hist
<1>4. Limit(w)' = Limit(w)
    BY <1>2 DEF Limit
<1>5. Sound(w)'
    BY <1>2, <1>4 DEF Sound, DequeIsSound, LookerIsEmpty, IInv
<1>6. ThiefIsSound(w)'
    BY <1>2 DEF ThiefIsSound
<1>7. Running(w)' <=> Running(w)
    BY <1>2 DEF Running
<1>8. "victim" \in Labels \ {"asleep", "exited"}
    BY DEF Labels
<1> HIDE DEF ToSteal, Leave
<1>9. UNCHANGED <<cur, todo, items, top, pool, hist>> /\ Goto(w, "victim")
    BY DEF ToSteal
<1> QED BY <1>2, <1>3, <1>4, <1>5, <1>6, <1>7, <1>8, <1>9, QuietStep

\* pop reads: there is a task to reserve, or the deque is empty.
LEMMA PopReadIInv == ASSUME IInv, NEW w \in Threads, PopRead(w) PROVE IInv'
<1>1. TypeOK /\ Sound(w) /\ ThiefIsSound(w)
    BY DEF IInv, Sound
<1>2. bottom[w] \in Nat /\ top[w] \in Nat /\ pc[w] = "loop" /\ Limit(w) = bottom[w]
    BY <1>1 DEF TypeOK, PopRead, Limit
<1>3. CASE bottom[w] <= top[w]
    <2>1. ToSteal(w) /\ UNCHANGED <<deques, pool>>
        BY <1>2, <1>3 DEF PopRead
    <2>2. top[w] = Limit(w)
        BY <1>1, <1>2, <1>3 DEF Sound, DequeIsSound
    <2> QED BY <1>1, <1>2, <2>1, <2>2, ToStealIInv DEF deques, Running, TypeOK
<1>4. CASE bottom[w] > top[w]
    <2>1. /\ b' = [b EXCEPT ![w] = bottom[w] - 1] /\ Goto(w, "reserve")
          /\ UNCHANGED <<cur, todo, left, victim, t, x, hist, deques, pool>>
        BY <1>2, <1>4 DEF PopRead
    <2>2. /\ pc'[w] = "reserve" /\ b'[w] = bottom[w] - 1 /\ b'[w] \in Nat
          /\ UNCHANGED <<items, top, bottom>>
          /\ \A v \in Threads \ {w} : Kept(v) /\ bottom'[v] = bottom[v]
        BY <1>1, <1>2, <1>4, <2>1 DEF Goto, TypeOK, Kept, deques
    <2>3. TypeOK'
        BY <1>1, <2>1, <2>2 DEF TypeOK, Labels, Goto, pool, hist
    <2>4. Limit(w)' = Limit(w)
        BY <1>2, <2>2 DEF Limit
    <2>5. Sound(w)'
        BY <1>1, <1>2, <2>2, <2>4 DEF Sound, DequeIsSound, LookerIsEmpty, Looking
    <2>6. ThiefIsSound(w)' /\ (Running(w)' <=> Running(w))
        BY <1>1, <1>2, <2>1, <2>2 DEF ThiefIsSound, Running
    <2> QED BY <1>2, <2>1, <2>2, <2>3, <2>4, <2>5, <2>6, QuietStep DEF Labels
<1> QED BY <1>2, <1>3, <1>4

\* The reserved task is still held: a thief may get it.
LEMMA PopReserveIInv == ASSUME IInv, NEW w \in Threads, PopReserve(w) PROVE IInv'
<1>1. TypeOK /\ Sound(w) /\ ThiefIsSound(w)
    BY DEF IInv, Sound
<1>2. /\ bottom[w] \in Nat /\ top[w] \in Nat /\ b[w] \in Nat /\ pc[w] = "reserve"
      /\ Limit(w) = bottom[w] /\ b[w] = bottom[w] - 1
    BY <1>1 DEF TypeOK, PopReserve, Limit, Sound, DequeIsSound
<1>3. /\ pc'[w] = "check" /\ bottom'[w] = b[w] /\ Goto(w, "check")
      /\ UNCHANGED <<cur, todo, left, victim, b, t, x, items, top, pool, hist>>
      /\ \A v \in Threads \ {w} : Kept(v) /\ bottom'[v] = bottom[v]
    BY <1>1 DEF PopReserve, Goto, TypeOK, Kept, locals
<1>4. TypeOK'
    BY <1>1, <1>2, <1>3 DEF TypeOK, Labels, PopReserve, Goto, locals, pool, hist
<1>5. Limit(w)' = Limit(w)
    BY <1>2, <1>3 DEF Limit
<1>6. Sound(w)'
    BY <1>1, <1>2, <1>3, <1>5 DEF Sound, DequeIsSound, LookerIsEmpty, Looking
<1>7. ThiefIsSound(w)' /\ (Running(w)' <=> Running(w))
    BY <1>1, <1>2, <1>3 DEF ThiefIsSound, Running
<1> QED BY <1>2, <1>3, <1>4, <1>5, <1>6, <1>7, QuietStep DEF Labels

\* The reserved task was stolen, with all before it: the deque is empty.
LEMMA PopGoneIInv == ASSUME IInv, NEW w \in Threads, PopGone(w) PROVE IInv'
<1>1. TypeOK /\ Sound(w)
    BY DEF IInv, Sound
<1>2. /\ bottom[w] \in Nat /\ top[w] \in Nat /\ b[w] = bottom[w] /\ pc[w] = "check"
      /\ Limit(w) = b[w] + 1 /\ top[w] = Limit(w)
    BY <1>1 DEF TypeOK, PopGone, Limit, Sound, DequeIsSound
<1>3. /\ bottom' = [bottom EXCEPT ![w] = b[w] + 1] /\ ToSteal(w)
      /\ UNCHANGED <<items, top, pool>>
    BY DEF PopGone
<1>4. bottom' \in [Threads -> Nat] /\ bottom'[w] = Limit(w)
      /\ \A v \in Threads \ {w} : bottom'[v] = bottom[v]
    BY <1>1, <1>2, <1>3 DEF TypeOK
<1> QED BY <1>2, <1>3, <1>4, ToStealIInv DEF Running

\* pop has read the last task before it tries to move top.
LEMMA PopContendIInv == ASSUME IInv, NEW w \in Threads, PopContend(w) PROVE IInv'
<1>1. TypeOK /\ Sound(w) /\ ThiefIsSound(w)
    BY DEF IInv, Sound
<1>2. /\ bottom[w] \in Nat /\ top[w] \in Nat /\ b[w] = bottom[w] /\ pc[w] = "check"
      /\ b[w] = top[w] /\ Slot(items[w], b[w]) \in Tasks \cup {None}
    BY <1>1, SlotType DEF TypeOK, PopContend, Sound, DequeIsSound
<1>3. /\ pc'[w] = "last" /\ t'[w] = top[w] /\ x'[w] = Slot(items[w], b[w])
      /\ Goto(w, "last")
      /\ UNCHANGED <<cur, todo, left, victim, b, items, top, bottom, pool, hist>>
      /\ \A v \in Threads \ {w} : Kept(v) /\ bottom'[v] = bottom[v]
    BY <1>1 DEF PopContend, Goto, TypeOK, Kept, deques
<1>4. TypeOK'
    BY <1>1, <1>2, <1>3 DEF TypeOK, Labels, PopContend, Goto, pool, hist
<1>5. Limit(w)' = Limit(w)
    BY <1>2, <1>3 DEF Limit
<1>6. Sound(w)'
    <2>1. Slot(items[w], t[w])' = Slot(items[w], b[w])
        BY <1>2, <1>3 DEF Slot
    <2>2. /\ IsArray(items[w])' /\ (top[w] <= Limit(w))'
          /\ (Limit(w) <= top[w] + Size(items[w]))'
        BY <1>1, <1>3, <1>5 DEF Sound, DequeIsSound
    <2>3. pc'[w] = "last" /\ b'[w] = bottom'[w] /\ t'[w] = b'[w] /\ t'[w] <= top'[w]
        <3>1. b' = b /\ bottom' = bottom /\ top' = top /\ pc'[w] = "last" /\ t'[w] = top[w]
            BY <1>3
        <3>2. top[w] \in Nat /\ b[w] = bottom[w] /\ b[w] = top[w]
            BY <1>2
        <3>3. top[w] <= top[w]
            BY <3>2
        <3> QED BY <3>1, <3>2, <3>3
    <2>4. x'[w] = Slot(items[w], t[w])'
        BY <1>3, <2>1
    <2>5. DequeIsSound(w)'
        BY <2>2, <2>3, <2>4 DEF DequeIsSound
    <2> QED BY <2>3, <2>5 DEF Sound, LookerIsEmpty, Looking
<1>7. ThiefIsSound(w)' /\ (Running(w)' <=> Running(w))
    BY <1>1, <1>2, <1>3 DEF ThiefIsSound, Running
<1> QED BY <1>2, <1>3, <1>4, <1>5, <1>6, <1>7, QuietStep DEF Labels

\* Another thread is tried, or the public queue.
LEMMA VictimIInv == ASSUME IInv, NEW w \in Threads, Victim(w) PROVE IInv'
<1>1. TypeOK /\ Sound(w) /\ ThiefIsSound(w)
    BY DEF IInv, Sound
<1>2. /\ pc[w] = "victim"
      /\ UNCHANGED <<cur, todo, b, t, x, items, top, bottom, pool, hist>>
    BY DEF Victim, deques
<1>3. PICK l \in {"top", "fetch"} : Goto(w, l) /\ (l = "top" => victim'[w] # w)
                                    /\ w \notin left'[w]
    BY <1>1 DEF Victim, TypeOK, ThiefIsSound
<1>4. /\ pc'[w] = l /\ \A v \in Threads \ {w} : Kept(v) /\ bottom'[v] = bottom[v]
    BY <1>1, <1>2, <1>3 DEF Goto, TypeOK, Kept, Victim
<1>5. TypeOK'
    <2>1. victim' \in [Threads -> Threads] /\ left' \in [Threads -> SUBSET Threads]
        <3>1. CASE left[w] = {}
            BY <1>1, <3>1 DEF TypeOK, Victim
        <3>2. CASE left[w] # {}
            <4>1. PICK v \in left[w] : /\ victim' = [victim EXCEPT ![w] = v]
                                       /\ left' = [left EXCEPT ![w] = @ \ {v}]
                BY <3>2 DEF Victim
            <4>2. v \in Threads /\ left[w] \ {v} \subseteq Threads
                BY <1>1 DEF TypeOK
            <4> QED BY <1>1, <4>1, <4>2 DEF TypeOK
        <3> QED BY <3>1, <3>2
    <2>2. pc' \in [Threads -> Labels]
        BY <1>1, <1>3 DEF TypeOK, Labels, Goto
    <2> QED BY <1>1, <1>2, <2>1, <2>2 DEF TypeOK, pool, hist
<1>6. Limit(w)' = Limit(w)
    BY <1>2, <1>4 DEF Limit
<1>7. Sound(w)'
    BY <1>1, <1>2, <1>4, <1>6 DEF Sound, DequeIsSound, LookerIsEmpty, Looking
<1>8. ThiefIsSound(w)' /\ (Running(w)' <=> Running(w))
    BY <1>1, <1>2, <1>3, <1>4 DEF ThiefIsSound, Running
<1> QED BY <1>2, <1>3, <1>4, <1>5, <1>6, <1>7, <1>8, QuietStep DEF Labels

\* steal reads top,
LEMMA StealTopIInv == ASSUME IInv, NEW w \in Threads, StealTop(w) PROVE IInv'
<1>1. TypeOK /\ Sound(w) /\ ThiefIsSound(w) /\ pc[w] = "top"
    BY DEF IInv, Sound, StealTop
<1>2. victim[w] \in Threads /\ top[victim[w]] \in Nat
    BY <1>1 DEF TypeOK
<1>3. /\ pc'[w] = "bottom" /\ t'[w] = top[victim[w]] /\ Goto(w, "bottom")
      /\ UNCHANGED <<cur, todo, left, victim, b, x, items, top, bottom, pool, hist>>
      /\ \A v \in Threads \ {w} : Kept(v) /\ bottom'[v] = bottom[v]
    BY <1>1 DEF StealTop, Goto, TypeOK, Kept, deques
<1>4. TypeOK'
    <2>1. t' \in [Threads -> Nat] /\ pc' \in [Threads -> Labels]
        BY <1>1, <1>2 DEF TypeOK, StealTop, Labels, Goto
    <2> QED BY <1>1, <1>3, <2>1 DEF TypeOK, pool, hist
<1>5. Limit(w)' = Limit(w)
    BY <1>1, <1>3 DEF Limit
<1>6. Sound(w)'
    BY <1>1, <1>3, <1>5 DEF Sound, DequeIsSound, LookerIsEmpty, Looking
<1>7. ThiefIsSound(w)' /\ (Running(w)' <=> Running(w))
    BY <1>1, <1>2, <1>3 DEF ThiefIsSound, Running
<1> QED BY <1>1, <1>3, <1>4, <1>5, <1>6, <1>7, QuietStep DEF Labels

\* then bottom: below it there is a task unless top has moved,
LEMMA StealBottomIInv == ASSUME IInv, NEW w \in Threads, StealBottom(w) PROVE IInv'
<1>1. TypeOK /\ Sound(w) /\ ThiefIsSound(w) /\ pc[w] = "bottom"
    BY DEF IInv, Sound, StealBottom
<1>2. PICK u \in Threads :
      /\ u = victim[w] /\ u # w /\ t[w] \in Nat /\ t[w] <= top[u] /\ bottom[u] \in Nat
      /\ top[u] \in Nat
    BY <1>1 DEF TypeOK, ThiefIsSound
<1>3. /\ UNCHANGED <<cur, todo, left, items, top, bottom, pool, hist>>
      /\ \A v \in Threads \ {w} : Kept(v) /\ bottom'[v] = bottom[v]
    BY <1>1 DEF StealBottom, Goto, TypeOK, Kept, deques, Leave
<1>4. CASE bottom[u] <= t[w]
    <2>1. pc'[w] = "victim" /\ Goto(w, "victim")
        BY <1>1, <1>2, <1>4 DEF StealBottom, Goto, TypeOK
    <2>2. TypeOK'
        <3>1. /\ t' \in [Threads -> Nat] /\ b' \in [Threads -> Nat]
              /\ x' \in [Threads -> Tasks \cup {None}] /\ victim' \in [Threads -> Threads]
            <4>1. Leave(w)
                BY <1>2, <1>4 DEF StealBottom
            <4> QED BY <1>1, <4>1 DEF TypeOK, Leave
        <3>2. pc' \in [Threads -> Labels]
            BY <1>1, <2>1 DEF TypeOK, Labels, Goto
        <3> QED BY <1>1, <1>3, <3>1, <3>2 DEF TypeOK, pool, hist
    <2>3. Limit(w)' = Limit(w)
        BY <1>1, <1>3, <2>1 DEF Limit
    <2>4. Sound(w)'
        BY <1>1, <1>3, <2>1, <2>3 DEF Sound, DequeIsSound, LookerIsEmpty, Looking
    <2>5. ThiefIsSound(w)' /\ (Running(w)' <=> Running(w))
        BY <1>1, <1>3, <2>1 DEF ThiefIsSound, Running
    <2> QED BY <1>1, <1>3, <2>1, <2>2, <2>3, <2>4, <2>5, QuietStep DEF Labels
<1>5. CASE ~(bottom[u] <= t[w])
    <2>1. pc'[w] = "item" /\ Goto(w, "item") /\ UNCHANGED <<victim, b, t, x>>
        BY <1>1, <1>2, <1>5 DEF StealBottom, Goto, TypeOK
    <2>2. TypeOK'
        BY <1>1, <1>3, <2>1 DEF TypeOK, Labels, Goto, pool, hist
    <2>3. Limit(w)' = Limit(w)
        BY <1>1, <1>3, <2>1 DEF Limit
    <2>4. Sound(w)'
        BY <1>1, <1>3, <2>1, <2>3 DEF Sound, DequeIsSound, LookerIsEmpty, Looking
    <2>5. t[w] < Limit(u)'
        <3>1. bottom'[u] = bottom[u] /\ t[w] < bottom[u]
            BY <1>2, <1>3, <1>5
        <3>2. Limit(u)' \in {bottom'[u], bottom'[u] + 1}
            BY DEF Limit
        <3> QED BY <1>2, <3>1, <3>2
    <2>6. ThiefIsSound(w)' /\ (Running(w)' <=> Running(w))
        BY <1>1, <1>2, <1>3, <2>1, <2>5 DEF ThiefIsSound, Running
    <2> QED BY <1>1, <1>3, <2>1, <2>2, <2>3, <2>4, <2>6, QuietStep DEF Labels
<1> QED BY <1>4, <1>5

\* then the task, which is the one at top unless top has moved.
LEMMA StealItemIInv == ASSUME IInv, NEW w \in Threads, StealItem(w) PROVE IInv'
<1>1. TypeOK /\ Sound(w) /\ ThiefIsSound(w) /\ pc[w] = "item"
    BY DEF IInv, Sound, StealItem
<1> DEFINE u == victim[w]
<1>2. /\ u \in Threads /\ u # w /\ t[w] \in Nat /\ Slot(items[u], t[w]) \in Tasks \cup {None}
    BY <1>1, SlotType DEF TypeOK, ThiefIsSound, IInv, DequeIsSound
<1>3. /\ pc'[w] = "cas" /\ x'[w] = Slot(items[u], t[w]) /\ Goto(w, "cas")
      /\ UNCHANGED <<cur, todo, left, victim, b, t, items, top, bottom, pool, hist>>
      /\ \A v \in Threads \ {w} : Kept(v) /\ bottom'[v] = bottom[v]
    BY <1>1 DEF StealItem, Goto, TypeOK, Kept, deques
<1>4. TypeOK'
    BY <1>1, <1>2, <1>3 DEF TypeOK, Labels, StealItem, Goto, pool, hist
<1>5. Limit(w)' = Limit(w) /\ Limit(u)' = Limit(u)
    BY <1>1, <1>2, <1>3 DEF Limit, Kept
<1>6. Sound(w)'
    BY <1>1, <1>3, <1>5 DEF Sound, DequeIsSound, LookerIsEmpty, Looking
<1>7. ThiefIsSound(w)' /\ (Running(w)' <=> Running(w))
    BY <1>1, <1>2, <1>3, <1>5 DEF ThiefIsSound, Running, Slot
<1> QED BY <1>1, <1>3, <1>4, <1>5, <1>6, <1>7, QuietStep DEF Labels

\* The loser of an exchange.
LEMMA LostCasIInv ==
    ASSUME IInv, NEW w \in Threads, StealCas(w), top[victim[w]] # t[w]
    PROVE  IInv'
<1>1. TypeOK /\ Sound(w) /\ ThiefIsSound(w) /\ pc[w] = "cas"
    BY DEF IInv, Sound, StealCas
<1>2. /\ pc'[w] = "top" /\ Goto(w, "top")
      /\ UNCHANGED <<cur, todo, left, victim, b, t, x, items, top, bottom, pool, hist>>
      /\ \A v \in Threads \ {w} : Kept(v) /\ bottom'[v] = bottom[v]
    BY <1>1 DEF StealCas, Goto, TypeOK, Kept, locals
<1>3. TypeOK'
    BY <1>1, <1>2 DEF TypeOK, Labels, Goto, pool, hist
<1>4. Limit(w)' = Limit(w)
    BY <1>1, <1>2 DEF Limit
<1>5. Sound(w)'
    BY <1>1, <1>2, <1>4 DEF Sound, DequeIsSound, LookerIsEmpty, Looking
<1>6. ThiefIsSound(w)' /\ (Running(w)' <=> Running(w))
    BY <1>1, <1>2 DEF ThiefIsSound, Running
<1> QED BY <1>1, <1>2, <1>3, <1>4, <1>5, <1>6, QuietStep DEF Labels

\* pop lost the last task to a thief: the deque is empty.
LEMMA LostLastIInv ==
    ASSUME IInv, NEW w \in Threads, PopLast(w), top[w] # t[w]
    PROVE  IInv'
<1>1. TypeOK /\ Sound(w)
    BY DEF IInv, Sound
<1>2. /\ bottom[w] \in Nat /\ top[w] \in Nat /\ b[w] = bottom[w] /\ pc[w] = "last"
      /\ Limit(w) = b[w] + 1 /\ top[w] = Limit(w)
    <2>1. /\ bottom[w] \in Nat /\ top[w] \in Nat /\ t[w] \in Nat /\ pc[w] = "last"
          /\ b[w] = bottom[w] /\ t[w] = b[w] /\ t[w] <= top[w] /\ top[w] <= Limit(w)
        BY <1>1 DEF TypeOK, PopLast, Sound, DequeIsSound
    <2>2. Limit(w) = bottom[w] + 1
        BY <2>1 DEF Limit
    <2> QED BY <2>1, <2>2
<1>3. /\ bottom' = [bottom EXCEPT ![w] = b[w] + 1] /\ ToSteal(w)
      /\ UNCHANGED <<items, top, pool>>
    BY DEF PopLast
<1>4. bottom' \in [Threads -> Nat] /\ bottom'[w] = Limit(w)
      /\ \A v \in Threads \ {w} : bottom'[v] = bottom[v]
    BY <1>1, <1>2, <1>3 DEF TypeOK
<1> QED BY <1>2, <1>3, <1>4, ToStealIInv DEF Running

\* A thread that was signalled is no longer on the list.
LEMMA WokenIInv == ASSUME IInv, NEW w \in Threads, Woken(w) PROVE IInv'
<1>1. TypeOK /\ Sound(w) /\ SleeperIsListed(w) /\ pc[w] = "woken"
    BY DEF IInv, Sound, Woken
<1>2. Limit(w) = bottom[w] /\ top[w] = Limit(w)
    BY <1>1 DEF Limit, Sound, LookerIsEmpty, Looking
<1>3. w \notin Range(waiters)
    BY <1>1 DEF SleeperIsListed
<1>4. UNCHANGED <<items, top, bottom, pool>> /\ ToSteal(w)
    BY <1>3 DEF Woken, Remove, deques, pool
<1> QED BY <1>1, <1>2, <1>4, ToStealIInv DEF Running, TypeOK

\* push shows the task that it has stored.
LEMMA PublishIInv == ASSUME IInv, NEW w \in Threads, Publish(w) PROVE IInv'
<1>1. TypeOK /\ Sound(w) /\ ThiefIsSound(w) /\ pc[w] = "publish" /\ bottom[w] \in Nat
    BY DEF IInv, Sound, Publish, TypeOK
<1>2. /\ pc'[w] = "peek" /\ Goto(w, "peek") /\ bottom'[w] = bottom[w] + 1
      /\ UNCHANGED <<cur, todo, left, victim, b, t, x, items, top, pool, hist>>
      /\ \A v \in Threads \ {w} : Kept(v) /\ bottom'[v] = bottom[v]
    BY <1>1 DEF Publish, Goto, TypeOK, Kept, locals
<1>3. TypeOK'
    <2>1. bottom' \in [Threads -> Nat] /\ pc' \in [Threads -> Labels]
        BY <1>1, <1>2 DEF TypeOK, Publish, Labels, Goto
    <2> QED BY <1>1, <1>2, <2>1 DEF TypeOK, pool, hist
<1>4. Limit(w)' = Limit(w)
    BY <1>1, <1>2 DEF Limit
<1>5. Sound(w)'
    BY <1>1, <1>2, <1>4 DEF Sound, DequeIsSound, LookerIsEmpty, Looking
<1>6. ThiefIsSound(w)' /\ (Running(w)' <=> Running(w))
    BY <1>1, <1>2 DEF ThiefIsSound, Running
<1> QED BY <1>1, <1>2, <1>3, <1>4, <1>5, <1>6, QuietStep DEF Labels

\* num_waiters is read: stale or not, it only decides what is tried.
LEMMA PeekIInv == ASSUME IInv, NEW w \in Threads, Peek(w) PROVE IInv'
<1>1. TypeOK /\ Sound(w) /\ ThiefIsSound(w) /\ pc[w] = "peek"
    BY DEF IInv, Sound, Peek
<1>2. PICK l \in {"run", "notify"} : Goto(w, l)
    BY DEF Peek
<1>3. /\ pc'[w] = l
      /\ UNCHANGED <<cur, todo, left, victim, b, t, x, items, top, bottom, pool, hist>>
      /\ \A v \in Threads \ {w} : Kept(v) /\ bottom'[v] = bottom[v]
    BY <1>1, <1>2 DEF Peek, Goto, TypeOK, Kept, locals, deques
<1>4. TypeOK'
    BY <1>1, <1>2, <1>3 DEF TypeOK, Labels, Goto, pool, hist
<1>5. Limit(w)' = Limit(w)
    BY <1>1, <1>3 DEF Limit
<1>6. Sound(w)'
    BY <1>1, <1>3, <1>5 DEF Sound, DequeIsSound, LookerIsEmpty, Looking
<1>7. ThiefIsSound(w)' /\ (Running(w)' <=> Running(w))
    BY <1>1, <1>3 DEF ThiefIsSound, Running
<1> QED BY <1>1, <1>2, <1>3, <1>4, <1>5, <1>6, <1>7, QuietStep DEF Labels

-------------------------------------------------------------------------------
(* The steps under the mutex that move no task either.                     *)

\* Going to sleep, waking, ending and waking another leave the deques alone.
LEMMA DequesStay ==
    ASSUME IInv, UNCHANGED <<locals, deques>>,
           \A v \in Threads : \/ pc'[v] = pc[v]
                              \/ pc[v] = "fetch" /\ pc'[v] \in {"asleep", "exited"}
                              \/ pc[v] = "asleep" /\ pc'[v] = "woken"
                              \/ pc[v] = "notify" /\ pc'[v] = "run"
    PROVE  \A v \in Threads : /\ Sound(v)' /\ ThiefIsSound(v)'
                              /\ Held(v)' = Held(v) /\ (Running(v)' <=> Running(v))
<1>1. UNCHANGED <<left, victim, b, t, x, items, top, bottom>> /\ TypeOK
    BY DEF locals, deques, IInv
<1>2. ASSUME NEW v \in Threads PROVE Limit(v)' = Limit(v)
    BY <1>1 DEF Limit
<1>3. ASSUME NEW v \in Threads PROVE Sound(v)'
    <2>1. Sound(v) /\ Limit(v)' = Limit(v)
        BY <1>2 DEF IInv, Sound
    <2> QED BY <1>1, <2>1 DEF Sound, DequeIsSound, LookerIsEmpty, Looking
<1>4. ASSUME NEW v \in Threads PROVE ThiefIsSound(v)'
    <2>1. PICK u \in Threads : u = victim[v]
        BY <1>1 DEF TypeOK
    <2>2. ThiefIsSound(v) /\ Limit(u)' = Limit(u) /\ victim'[v] = u
        BY <1>1, <1>2, <2>1 DEF IInv
    <2> QED BY <1>1, <2>1, <2>2 DEF ThiefIsSound, Slot
<1>5. ASSUME NEW v \in Threads PROVE Held(v)' = Held(v)
    BY <1>1, <1>2 DEF Held
<1>6. ASSUME NEW v \in Threads PROVE Running(v)' <=> Running(v)
    BY DEF Running
<1> QED BY <1>3, <1>4, <1>5, <1>6

\* notify: the last waiter is signalled and leaves the list, and nobody else.
LEMMA NotifyKeepsList ==
    ASSUME TypeOK, \A v \in Threads : SleeperIsListed(v), Notify
    PROVE  /\ event' \in [Threads -> BOOLEAN]
           /\ waiters' \in Seq(Threads) /\ IsInjective(waiters')
           /\ \A v \in Threads :
                /\ v \in Range(waiters') <=> pc[v] = "asleep" /\ ~event'[v]
                /\ event'[v] => pc[v] = "asleep"
           /\ waiters # <<>> => \E v \in Threads : pc[v] = "asleep" /\ event'[v]
<1>1. /\ event \in [Threads -> BOOLEAN] /\ waiters \in Seq(Threads) /\ IsInjective(waiters)
      /\ \A v \in Threads : /\ v \in Range(waiters) <=> pc[v] = "asleep" /\ ~event[v]
                            /\ event[v] => pc[v] = "asleep"
    BY DEF TypeOK, SleeperIsListed
<1>2. CASE waiters = <<>>
    BY <1>1, <1>2 DEF Notify
<1>3. CASE waiters # <<>>
    <2>1. PICK l : l = waiters[Len(waiters)]
        OBVIOUS
    <2>2. /\ event' = [event EXCEPT ![l] = TRUE]
          /\ waiters' = SubSeq(waiters, 1, Len(waiters) - 1)
        BY <1>3, <2>1 DEF Notify
    <2>3. /\ waiters' \in Seq(Threads) /\ IsInjective(waiters')
          /\ l \in Range(waiters) /\ l \in Threads /\ Range(waiters') = Range(waiters) \ {l}
        <3>1. waiters \in Seq(Threads) /\ IsInjective(waiters) /\ waiters # <<>>
            BY <1>1, <1>3
        <3> QED BY <2>1, <2>2, <3>1, RangeFront
    <2>4. event' \in [Threads -> BOOLEAN] /\ event'[l]
          /\ \A v \in Threads \ {l} : event'[v] = event[v]
        BY <1>1, <2>2, <2>3
    <2> QED BY <1>1, <2>3, <2>4
<1> QED BY <1>2, <1>3

\* A signal is used up.
LEMMA WakeIInv == ASSUME IInv, NEW w \in Threads, Wake(w) PROVE IInv'
<1>1. TypeOK /\ TasksAreSound /\ \A v \in Threads : SleeperIsListed(v)
    BY IInvIs
<1>2. /\ pc[w] = "asleep" /\ event[w] /\ pc'[w] = "woken" /\ ~event'[w]
      /\ \A v \in Threads \ {w} : pc'[v] = pc[v] /\ event'[v] = event[v]
      /\ UNCHANGED <<locals, deques, public, waiters, shutdown, hist>>
    BY <1>1 DEF Wake, Goto, TypeOK
<1>3. \A v \in Threads : /\ Sound(v)' /\ ThiefIsSound(v)'
                         /\ Held(v)' = Held(v) /\ (Running(v)' <=> Running(v))
    BY <1>2, DequesStay
<1>4. TasksAreSound'
    BY <1>1, <1>2, <1>3, TasksStay DEF locals
<1>5. TypeOK'
    <2>1. pc' \in [Threads -> Labels] /\ event' \in [Threads -> BOOLEAN]
        BY <1>1 DEF TypeOK, Wake, Goto, Labels
    <2> QED BY <1>1, <1>2, <2>1 DEF TypeOK, locals, deques, hist
<1>6. \A v \in Threads : SleeperIsListed(v)'
    BY <1>1, <1>2 DEF SleeperIsListed
<1>7. PublicTaskIsSeen'
    BY <1>2 DEF PublicTaskIsSeen, Awake
<1> QED BY <1>3, <1>4, <1>5, <1>6, <1>7 DEF IInv, Sound, TasksAreSound

\* A task that pushed wakes another thread, if one still waits.
LEMMA WakeOneIInv == ASSUME IInv, NEW w \in Threads, WakeOne(w) PROVE IInv'
<1>1. TypeOK /\ TasksAreSound /\ \A v \in Threads : SleeperIsListed(v)
    BY IInvIs
<1>2. /\ pc[w] = "notify" /\ pc'[w] = "run" /\ Notify
      /\ \A v \in Threads \ {w} : pc'[v] = pc[v]
      /\ UNCHANGED <<locals, deques, public, shutdown, hist>>
    BY <1>1 DEF WakeOne, Goto, TypeOK
<1>3. \A v \in Threads : /\ Sound(v)' /\ ThiefIsSound(v)'
                         /\ Held(v)' = Held(v) /\ (Running(v)' <=> Running(v))
    BY <1>2, DequesStay
<1>4. TasksAreSound'
    BY <1>1, <1>2, <1>3, TasksStay DEF locals
<1>5. /\ event' \in [Threads -> BOOLEAN]
      /\ waiters' \in Seq(Threads) /\ IsInjective(waiters')
      /\ \A v \in Threads : /\ v \in Range(waiters') <=> pc[v] = "asleep" /\ ~event'[v]
                            /\ event'[v] => pc[v] = "asleep"
    BY <1>1, <1>2, NotifyKeepsList
<1>6. TypeOK'
    <2>1. pc' \in [Threads -> Labels]
        BY <1>1 DEF TypeOK, WakeOne, Goto, Labels
    <2> QED BY <1>1, <1>2, <1>5, <2>1 DEF TypeOK, locals, deques, hist
<1>7. \A v \in Threads : SleeperIsListed(v)'
    BY <1>1, <1>2, <1>5 DEF SleeperIsListed
<1>8. PublicTaskIsSeen'
    BY <1>2 DEF PublicTaskIsSeen, Awake
<1> QED BY <1>3, <1>4, <1>6, <1>7, <1>8 DEF IInv, Sound, TasksAreSound

\* The destructor signals every thread of the list.
LEMMA ShutdownIInv == ASSUME IInv, Shutdown PROVE IInv'
<1>1. TypeOK /\ TasksAreSound /\ \A v \in Threads : SleeperIsListed(v)
    BY IInvIs
<1>2. /\ ~shutdown /\ shutdown' = TRUE /\ waiters' = <<>>
      /\ event' = [w \in Threads |-> event[w] \/ w \in Range(waiters)]
      /\ UNCHANGED <<pc, locals, deques, public, hist>>
    BY DEF Shutdown
<1>3. \A v \in Threads : /\ Sound(v)' /\ ThiefIsSound(v)'
                         /\ Held(v)' = Held(v) /\ (Running(v)' <=> Running(v))
    BY <1>2, DequesStay
<1>4. TasksAreSound'
    BY <1>1, <1>2, <1>3, TasksStay DEF locals
<1>5. Range(waiters') = {} /\ IsInjective(waiters') /\ waiters' \in Seq(Threads)
    BY <1>2, RangeEmpty
<1>6. event' \in [Threads -> BOOLEAN]
      /\ \A v \in Threads : event'[v] <=> event[v] \/ v \in Range(waiters)
    BY <1>1, <1>2 DEF TypeOK
<1>7. TypeOK'
    BY <1>1, <1>2, <1>5, <1>6 DEF TypeOK, locals, deques, hist
<1>8. \A v \in Threads : SleeperIsListed(v)'
    BY <1>1, <1>2, <1>5, <1>6 DEF SleeperIsListed
<1>9. PublicTaskIsSeen'
    <2>1. PICK v \in Threads : TRUE
        BY ThreadPoolAssumption
    <2>2. Awake(v)'
        BY <1>1, <1>2, <1>6 DEF Awake, SleeperIsListed
    <2> QED BY <2>2 DEF PublicTaskIsSeen
<1> QED BY <1>3, <1>4, <1>7, <1>8, <1>9 DEF IInv, Sound, TasksAreSound

-------------------------------------------------------------------------------
(* The steps that move a task.                                             *)

\* The others, and what all see of the deques, when one thread takes a task.
LEMMA StepIInv ==
    ASSUME IInv, NEW w \in Threads, NEW l \in Labels \ {"asleep", "exited"},
           pc[w] \notin {"asleep", "exited"}, Goto(w, l), UNCHANGED pool,
           \A v \in Threads \ {w} : Kept(v), \A v \in Threads : MovesOn(v) /\ Sound(v)',
           TypeOK', TasksAreSound', ThiefIsSound(w)'
    PROVE  IInv'
<1>1. /\ TypeOK /\ PublicTaskIsSeen
      /\ \A v \in Threads : ThiefIsSound(v) /\ SleeperIsListed(v)
    BY IInvIs
<1>2. top' \in [Threads -> Nat]
    BY DEF TypeOK
<1>3. ASSUME NEW v \in Threads PROVE ThiefIsSound(v)'
    BY <1>1, <1>2, ThiefStays
<1>4. (\A v \in Threads : SleeperIsListed(v)') /\ PublicTaskIsSeen'
    BY <1>1, PoolStays
<1> QED BY <1>3, <1>4 DEF IInv, Sound, TasksAreSound

\* A task that waits is taken from where it waits, and is run.
LEMMA TaskRuns ==
    ASSUME TypeOK, TasksAreSound, NEW w \in Threads, ~Running(w), Running(w)',
           \A v \in Threads \ {w} : Running(v)' <=> Running(v),
           NEW task \in given \ Range(begun), Run(w, task),
           \A v \in Threads :
              /\ DOMAIN (Held(v)') \subseteq DOMAIN Held(v)
              /\ \A i \in DOMAIN Held(v) :
                    /\ i \in DOMAIN (Held(v)') <=> Held(v)[i] # task
                    /\ i \in DOMAIN (Held(v)') => (Held(v)')[i] = Held(v)[i],
           IsInjective(public'), Range(public') = Range(public) \ {task}
    PROVE  TasksAreSound'
<1> DEFINE H(v) == Held(v)
           G(v) == Held(v)'
<1>1. /\ UNCHANGED <<given, done>> /\ begun' = Append(begun, task)
      /\ cur' = [cur EXCEPT ![w] = task] /\ todo' = [todo EXCEPT ![w] = Kids[task]]
    BY DEF Run
<1>2. /\ cur'[w] = task /\ todo'[w] = Kids[task] /\ task \in Tasks
      /\ \A v \in Threads \ {w} : cur'[v] = cur[v] /\ todo'[v] = todo[v]
    BY <1>1 DEF TypeOK
<1>3. Range(begun') = Range(begun) \cup {task} /\ IsInjective(begun')
    BY <1>1, <1>2, RangeAppend DEF TypeOK, TasksAreSound, BegunOnce
<1>4. HeldOnce'
    <2> SUFFICES ASSUME NEW u \in Threads, NEW v \in Threads,
                        NEW i \in DOMAIN G(u), NEW j \in DOMAIN G(v), G(u)[i] = G(v)[j]
                 PROVE  u = v /\ i = j
        BY DEF HeldOnce
    <2>1. /\ i \in DOMAIN H(u) /\ j \in DOMAIN H(v)
          /\ G(u)[i] = H(u)[i] /\ G(v)[j] = H(v)[j]
        OBVIOUS
    <2>2. H(u)[i] = H(v)[j]
        BY <2>1
    <2>3. \A p, q \in Threads : \A k \in DOMAIN H(p), m \in DOMAIN H(q) :
             H(p)[k] = H(q)[m] => p = q /\ k = m
        BY DEF TasksAreSound, HeldOnce
    <2> HIDE DEF H, G
    <2> QED BY <2>1, <2>2, <2>3
<1>5. HeldWaits'
    <2> SUFFICES ASSUME NEW v \in Threads, NEW i \in DOMAIN G(v)
                 PROVE  G(v)[i] \in (given' \ Range(begun')) \ Range(public')
        BY DEF HeldWaits
    <2>1. i \in DOMAIN H(v) /\ G(v)[i] = H(v)[i] /\ H(v)[i] # task
        OBVIOUS
    <2>2. H(v)[i] \in (given \ Range(begun)) \ Range(public)
        BY <2>1 DEF TasksAreSound, HeldWaits
    <2> QED BY <1>1, <1>3, <2>1, <2>2
<1>6. PublicWaits' /\ BegunOnce'
    BY <1>1, <1>3 DEF TasksAreSound, PublicWaits, BegunOnce
<1>7. NoneIsLost'
    <2> SUFFICES ASSUME NEW other \in given, other \notin Range(public'),
                        other \notin Range(begun')
                 PROVE  \E v \in Threads : \E i \in DOMAIN G(v) : G(v)[i] = other
        BY <1>1 DEF NoneIsLost
    <2>1. other # task /\ other \notin Range(public) /\ other \notin Range(begun)
        BY <1>3
    <2>2. PICK v \in Threads : \E i \in DOMAIN H(v) : H(v)[i] = other
        BY <2>1 DEF TasksAreSound, NoneIsLost
    <2>3. PICK i \in DOMAIN H(v) : H(v)[i] = other
        BY <2>2
    <2>4. i \in DOMAIN G(v) /\ G(v)[i] = other
        BY <2>1, <2>3
    <2> QED BY <2>4
<1>8. RunIsBegun'
    <2>1. /\ \A v \in Threads : IF Running(v) THEN cur[v] \in Range(begun) \ done
                                              ELSE todo[v] = {}
          /\ \A u, v \in Threads : Running(u) /\ Running(v) /\ cur[u] = cur[v] => u = v
          /\ done \subseteq Range(begun)
          /\ \A k \in Range(begun) \ done : \E v \in Threads : Running(v) /\ cur[v] = k
        BY DEF TasksAreSound, RunIsBegun
    <2>2. \A v \in Threads : IF Running(v)' THEN cur'[v] \in Range(begun') \ done'
                                            ELSE todo'[v] = {}
        BY <1>1, <1>2, <1>3, <2>1
    <2>3. \A u, v \in Threads : Running(u)' /\ Running(v)' /\ cur'[u] = cur'[v] => u = v
        BY <1>2, <2>1
    <2>4. \A k \in Range(begun') \ done' : \E v \in Threads : Running(v)' /\ cur'[v] = k
        <3> TAKE k \in Range(begun') \ done'
        <3>1. CASE k = task
            BY <1>2, <3>1
        <3>2. CASE k # task
            <4>1. PICK v \in Threads : Running(v) /\ cur[v] = k
                BY <1>1, <1>3, <2>1, <3>2
            <4>2. v # w
                BY <4>1
            <4> QED BY <1>2, <4>1, <4>2
        <3> QED BY <3>1, <3>2
    <2>5. done' \subseteq Range(begun')
        BY <1>1, <1>3, <2>1
    <2> QED BY <2>2, <2>3, <2>4, <2>5 DEF RunIsBegun
<1>9. KidsAreNew'
    <2>1. Kids[task] \cap given = {}
        BY <1>2 DEF TasksAreSound, KidsAreNew
    <2> QED BY <1>1, <1>2, <1>3, <2>1 DEF TasksAreSound, KidsAreNew
<1> QED BY <1>4, <1>5, <1>6, <1>7, <1>8, <1>9 DEF TasksAreSound

\* From a deque: the task at one index.
LEMMA HeldTaskRuns ==
    ASSUME TypeOK, TasksAreSound, NEW w \in Threads, ~Running(w), Running(w)',
           \A v \in Threads \ {w} : Running(v)' <=> Running(v),
           NEW v \in Threads, NEW i \in DOMAIN Held(v), Run(w, Held(v)[i]),
           DOMAIN (Held(v)') = DOMAIN Held(v) \ {i},
           \A j \in DOMAIN (Held(v)') : (Held(v)')[j] = Held(v)[j],
           \A u \in Threads \ {v} : Held(u)' = Held(u), UNCHANGED public
    PROVE  TasksAreSound'
<1>1. PICK task : task = Held(v)[i]
    OBVIOUS
<1>2. task \in given \ Range(begun) /\ task \notin Range(public)
    BY <1>1 DEF TasksAreSound, HeldWaits
<1>3. ASSUME NEW u \in Threads, NEW j \in DOMAIN Held(u)
      PROVE  Held(u)[j] = task <=> u = v /\ j = i
    BY <1>1 DEF TasksAreSound, HeldOnce
<1>4. \A u \in Threads :
         /\ DOMAIN (Held(u)') \subseteq DOMAIN Held(u)
         /\ \A j \in DOMAIN Held(u) :
               /\ j \in DOMAIN (Held(u)') <=> Held(u)[j] # task
               /\ j \in DOMAIN (Held(u)') => (Held(u)')[j] = Held(u)[j]
    <2> TAKE u \in Threads
    <2>1. CASE u = v
        BY <1>3, <2>1
    <2>2. CASE u # v
        BY <1>3, <2>2
    <2> QED BY <2>1, <2>2
<1>5. IsInjective(public') /\ Range(public') = Range(public) \ {task}
    BY <1>2 DEF TasksAreSound, PublicWaits
<1> QED BY <1>1, <1>2, <1>4, <1>5, TaskRuns

\* What a thread is like after pop, steal or the public queue gave it a task.
LEMMA RunIs ==
    ASSUME TypeOK, NEW w \in Threads, NEW task \in Tasks, Run(w, task),
           w \notin left[w], pc[w] \notin {"run", "publish", "peek", "notify"}
    PROVE  /\ pc'[w] = "run" /\ Goto(w, "run") /\ ~Running(w) /\ Running(w)'
           /\ ThiefIsSound(w)'
           /\ \A v \in Threads \ {w} : Kept(v) /\ (Running(v)' <=> Running(v))
           /\ pc' \in [Threads -> Labels] /\ cur' \in [Threads -> Tasks \cup {None}]
           /\ todo' \in [Threads -> SUBSET Tasks]
           /\ left' \in [Threads -> SUBSET Threads] /\ victim' \in [Threads -> Threads]
           /\ b' \in [Threads -> Nat] /\ t' \in [Threads -> Nat]
           /\ x' \in [Threads -> Tasks \cup {None}]
           /\ given' \subseteq Tasks /\ begun' \in Seq(Tasks) /\ done' \subseteq Tasks
<1>1. /\ Goto(w, "run") /\ Leave(w) /\ UNCHANGED <<left, given, done>>
      /\ begun' = Append(begun, task)
      /\ cur' = [cur EXCEPT ![w] = task] /\ todo' = [todo EXCEPT ![w] = Kids[task]]
    BY DEF Run
<1>2. /\ pc'[w] = "run" /\ pc' \in [Threads -> Labels]
      /\ \A v \in Threads \ {w} : pc'[v] = pc[v]
    BY <1>1 DEF Goto, TypeOK, Labels
<1>3. \A v \in Threads \ {w} : Kept(v)
    BY <1>1, <1>2 DEF Kept, Leave, TypeOK
<1>4. /\ victim' \in [Threads -> Threads] /\ b' \in [Threads -> Nat]
      /\ t' \in [Threads -> Nat] /\ x' \in [Threads -> Tasks \cup {None}]
    BY <1>1 DEF Leave, TypeOK
<1>5. /\ cur' \in [Threads -> Tasks \cup {None}] /\ todo' \in [Threads -> SUBSET Tasks]
      /\ begun' \in Seq(Tasks)
    BY <1>1, ThreadPoolAssumption DEF TypeOK
<1>6. ThiefIsSound(w)'
    BY <1>1, <1>2 DEF ThiefIsSound
<1>7. ~Running(w) /\ Running(w)' /\ \A v \in Threads \ {w} : Running(v)' <=> Running(v)
    BY <1>2 DEF Running
<1> QED BY <1>1, <1>2, <1>3, <1>4, <1>5, <1>6, <1>7 DEF TypeOK

\* pop takes a task that no thief can reach.
LEMMA PopTakeIInv == ASSUME IInv, NEW w \in Threads, PopTake(w) PROVE IInv'
<1>1. TypeOK /\ TasksAreSound /\ Sound(w) /\ ThiefIsSound(w) /\ pc[w] = "check"
    BY IInvIs DEF PopTake
<1>2. /\ bottom[w] \in Nat /\ top[w] \in Nat /\ b[w] = bottom[w] /\ top[w] < bottom[w]
      /\ Limit(w) = bottom[w] + 1 /\ Limit(w) <= top[w] + Size(items[w])
      /\ Size(items[w]) \in Nat /\ IsArray(items[w])
    <2>1. Limit(w) = bottom[w] + 1
        BY <1>1 DEF Limit
    <2> QED BY <1>1, <2>1 DEF TypeOK, PopTake, Sound, DequeIsSound, IsArray
<1>3. bottom[w] \in DOMAIN Held(w) /\ Held(w)[bottom[w]] = Slot(items[w], b[w])
    BY <1>2 DEF Held
<1>4. PICK task \in Tasks : task = Held(w)[bottom[w]]
    BY <1>1, <1>3 DEF TasksAreSound, HeldWaits, TypeOK
<1>5. Run(w, task) /\ UNCHANGED <<items, top, bottom, pool>>
    BY <1>3, <1>4 DEF PopTake, deques
<1>6. /\ pc'[w] = "run" /\ Goto(w, "run") /\ ~Running(w) /\ Running(w)' /\ ThiefIsSound(w)'
      /\ \A v \in Threads \ {w} : Kept(v) /\ (Running(v)' <=> Running(v))
    BY <1>1, <1>5, RunIs DEF ThiefIsSound
<1>7. TypeOK'
    BY <1>1, <1>5, RunIs DEF TypeOK, pool, ThiefIsSound
<1>8. Limit(w)' = bottom[w]
    BY <1>5, <1>6 DEF Limit
<1>9. ASSUME NEW v \in Threads \ {w} PROVE Sound(v)' /\ Held(v)' = Held(v) /\ MovesOn(v)
    <2>1. Kept(v) /\ DequeKept(v) /\ Sound(v)
        BY <1>5, <1>6 DEF IInv, Sound, DequeKept
    <2> QED BY <1>1, <1>5, <2>1, BystanderStays, DequeStaysMovesOn
<1>10. MovesOn(w)
    BY <1>2, <1>5, <1>8 DEF MovesOn
<1>11. Sound(w)'
    BY <1>2, <1>5, <1>6, <1>8 DEF Sound, DequeIsSound, LookerIsEmpty, Looking
<1>12. /\ DOMAIN (Held(w)') = DOMAIN Held(w) \ {bottom[w]}
       /\ \A j \in DOMAIN (Held(w)') : (Held(w)')[j] = Held(w)[j]
    BY <1>2, <1>5, <1>8 DEF Held, Slot
<1>13. TasksAreSound'
    BY <1>1, <1>3, <1>4, <1>5, <1>6, <1>9, <1>12, HeldTaskRuns DEF pool
<1> QED BY <1>1, <1>5, <1>6, <1>7, <1>9, <1>10, <1>11, <1>13, StepIInv DEF Labels

\* pop wins the last task,
LEMMA WonLastIInv ==
    ASSUME IInv, NEW w \in Threads, PopLast(w), top[w] = t[w]
    PROVE  IInv'
<1>1. TypeOK /\ TasksAreSound /\ Sound(w) /\ ThiefIsSound(w) /\ pc[w] = "last"
    BY IInvIs DEF PopLast
<1>2. /\ bottom[w] \in Nat /\ top[w] = bottom[w] /\ b[w] = bottom[w]
      /\ Limit(w) = bottom[w] + 1 /\ x[w] = Slot(items[w], top[w])
      /\ Size(items[w]) \in Nat \ {0} /\ IsArray(items[w])
    <2>1. Limit(w) = bottom[w] + 1
        BY <1>1 DEF Limit
    <2> QED BY <1>1, <2>1 DEF TypeOK, Sound, DequeIsSound, IsArray
<1>3. top[w] \in DOMAIN Held(w) /\ Held(w)[top[w]] = x[w] /\ DOMAIN Held(w) = {top[w]}
    BY <1>2 DEF Held
<1>4. PICK task \in Tasks : task = Held(w)[top[w]]
    BY <1>1, <1>3 DEF TasksAreSound, HeldWaits, TypeOK
<1>5. /\ Run(w, task) /\ UNCHANGED <<items, pool>>
      /\ top' = [top EXCEPT ![w] = t[w] + 1] /\ bottom' = [bottom EXCEPT ![w] = b[w] + 1]
    BY <1>3, <1>4 DEF PopLast
<1>6. /\ pc'[w] = "run" /\ Goto(w, "run") /\ ~Running(w) /\ Running(w)' /\ ThiefIsSound(w)'
      /\ \A v \in Threads \ {w} : Kept(v) /\ (Running(v)' <=> Running(v))
    BY <1>1, <1>5, RunIs DEF ThiefIsSound
<1>7. /\ top' \in [Threads -> Nat] /\ bottom' \in [Threads -> Nat]
      /\ top'[w] = bottom[w] + 1 /\ bottom'[w] = bottom[w] + 1
      /\ \A v \in Threads \ {w} : DequeKept(v)
    <2>1. /\ top' = [top EXCEPT ![w] = bottom[w] + 1] /\ bottom[w] + 1 \in Nat
          /\ bottom' = [bottom EXCEPT ![w] = bottom[w] + 1] /\ items' = items
        <3>1. t[w] = bottom[w] /\ b[w] = bottom[w] /\ bottom[w] \in Nat
            BY <1>2
        <3>2. bottom[w] + 1 \in Nat
            BY <3>1
        <3>3. UNCHANGED items
            BY <1>5
        <3> QED BY <1>5, <3>1, <3>2, <3>3
    <2> QED BY <1>1, <2>1 DEF TypeOK, DequeKept
<1>8. TypeOK'
    BY <1>1, <1>5, <1>7, RunIs DEF TypeOK, pool, ThiefIsSound
<1>9. Limit(w)' = bottom[w] + 1
    BY <1>6, <1>7 DEF Limit
<1>10. ASSUME NEW v \in Threads \ {w} PROVE Sound(v)' /\ Held(v)' = Held(v) /\ MovesOn(v)
    <2>1. Kept(v) /\ DequeKept(v) /\ Sound(v)
        BY <1>6, <1>7 DEF IInv, Sound
    <2> QED BY <1>1, <2>1, BystanderStays, DequeStaysMovesOn DEF DequeKept
<1>11. MovesOn(w)
    BY <1>2, <1>7 DEF MovesOn
<1>12. Sound(w)'
    BY <1>2, <1>5, <1>6, <1>7, <1>9 DEF Sound, DequeIsSound, LookerIsEmpty, Looking
<1>13. DOMAIN (Held(w)') = {}
    BY <1>2, <1>7, <1>9 DEF Held
<1>14. TasksAreSound'
    BY <1>1, <1>3, <1>4, <1>5, <1>6, <1>10, <1>13, HeldTaskRuns DEF pool
<1> QED BY <1>1, <1>5, <1>6, <1>8, <1>10, <1>11, <1>12, <1>14, StepIInv DEF Labels

\* and a thief the first one.
LEMMA WonCasIInv ==
    ASSUME IInv, NEW w \in Threads, StealCas(w), top[victim[w]] = t[w]
    PROVE  IInv'
<1>1. TypeOK /\ TasksAreSound /\ Sound(w) /\ ThiefIsSound(w) /\ pc[w] = "cas"
    BY IInvIs DEF StealCas
<1>2. PICK u \in Threads : u = victim[w] /\ u # w
    BY <1>1 DEF TypeOK, ThiefIsSound
<1>3. /\ top[u] \in Nat /\ t[w] = top[u] /\ top[u] < Limit(u) /\ x[w] = Slot(items[u], top[u])
      /\ Sound(u) /\ bottom[u] \in Nat /\ Limit(u) \in Nat
    BY <1>1, <1>2 DEF TypeOK, ThiefIsSound, IInv, Sound, Limit
<1>4. top[u] \in DOMAIN Held(u) /\ Held(u)[top[u]] = x[w]
    BY <1>3 DEF Held
<1>5. PICK task \in Tasks : task = Held(u)[top[u]]
    BY <1>1, <1>4 DEF TasksAreSound, HeldWaits, TypeOK
<1>6. /\ Run(w, task) /\ UNCHANGED <<items, bottom, pool>>
      /\ top' = [top EXCEPT ![u] = top[u] + 1]
    BY <1>2, <1>3, <1>4, <1>5 DEF StealCas
<1>7. /\ pc'[w] = "run" /\ Goto(w, "run") /\ ~Running(w) /\ Running(w)' /\ ThiefIsSound(w)'
      /\ \A v \in Threads \ {w} : Kept(v) /\ (Running(v)' <=> Running(v))
    BY <1>1, <1>6, RunIs DEF ThiefIsSound
<1>8. /\ top' \in [Threads -> Nat] /\ top'[u] = top[u] + 1
      /\ \A v \in Threads \ {u} : DequeKept(v)
    BY <1>1, <1>3, <1>6 DEF TypeOK, DequeKept
<1>9. TypeOK'
    BY <1>1, <1>6, <1>8, RunIs DEF TypeOK, pool, ThiefIsSound
<1>10. ASSUME NEW v \in Threads PROVE Limit(v)' = Limit(v)
    <2>1. CASE v = w
        BY <1>1, <1>6, <1>7, <2>1 DEF Limit
    <2>2. CASE v # w
        BY <1>6, <1>7, <2>2 DEF Limit, Kept
    <2> QED BY <2>1, <2>2
<1>11. ASSUME NEW v \in Threads \ {u} PROVE Sound(v)' /\ Held(v)' = Held(v) /\ MovesOn(v)
    <2>1. Held(v)' = Held(v) /\ MovesOn(v)
        BY <1>1, <1>8, <1>10, DequeStaysMovesOn DEF DequeKept
    <2>2. CASE v = w
        BY <1>1, <1>7, <1>8, <1>10, <2>1, <2>2
           DEF Sound, DequeIsSound, LookerIsEmpty, Looking, DequeKept
    <2>3. CASE v # w
        <3>1. Sound(v)
            BY DEF IInv, Sound
        <3> QED BY <1>7, <1>8, <2>1, <2>3, <3>1, BystanderStays
    <2> QED BY <2>1, <2>2, <2>3
<1>12. MovesOn(u)
    BY <1>3, <1>8 DEF MovesOn
<1>13. Sound(u)'
    <2>1. /\ Limit(u)' = Limit(u) /\ items'[u] = items[u] /\ bottom'[u] = bottom[u]
          /\ Kept(u)
        BY <1>2, <1>6, <1>7, <1>10
    <2>2. pc[u] \notin Looking
        BY <1>3 DEF Sound, LookerIsEmpty
    <2>3. LookerIsEmpty(u)'
        BY <2>1, <2>2 DEF LookerIsEmpty, Kept
    <2>4. IsArray(items[u]) /\ Size(items[u]) \in Nat /\ Limit(u) <= top[u] + Size(items[u])
        BY <1>3 DEF Sound, DequeIsSound, IsArray
    <2>5. /\ IsArray(items'[u]) /\ top'[u] <= Limit(u)'
          /\ Limit(u)' <= top'[u] + Size(items'[u])
        BY <1>3, <1>8, <2>1, <2>4
    <2>6. /\ pc'[u] = "reserve" => b'[u] = bottom'[u] - 1
          /\ pc'[u] \in {"check", "last"} => b'[u] = bottom'[u]
        BY <1>3, <2>1 DEF Sound, DequeIsSound, Kept
    <2>7. pc'[u] = "last" => t'[u] = b'[u] /\ t'[u] <= top'[u] /\ t'[u] # top'[u]
        <3>1. pc[u] = "last" => t[u] = b[u] /\ t[u] <= top[u]
            BY <1>3 DEF Sound, DequeIsSound
        <3>2. t[u] \in Nat
            BY <1>1 DEF TypeOK
        <3> QED BY <1>3, <1>8, <2>1, <3>1, <3>2 DEF Kept
    <2>8. DequeIsSound(u)'
        BY <2>5, <2>6, <2>7 DEF DequeIsSound
    <2> QED BY <2>3, <2>8 DEF Sound
<1>14. /\ DOMAIN (Held(u)') = DOMAIN Held(u) \ {top[u]}
       /\ \A j \in DOMAIN (Held(u)') : (Held(u)')[j] = Held(u)[j]
    <2>1. Limit(u)' = Limit(u) /\ items'[u] = items[u]
        BY <1>6, <1>10
    <2>2. Held(u)' = [i \in top[u] + 1 .. Limit(u) - 1 |-> Slot(items[u], i)]
        BY <1>8, <2>1 DEF Held
    <2>3. Held(u) = [i \in top[u] .. Limit(u) - 1 |-> Slot(items[u], i)]
        BY DEF Held
    <2> QED BY <1>3, <2>2, <2>3
<1>15. TasksAreSound'
    BY <1>1, <1>4, <1>5, <1>6, <1>7, <1>11, <1>14, HeldTaskRuns DEF pool
<1> QED BY <1>1, <1>6, <1>7, <1>9, <1>11, <1>12, <1>13, <1>15, StepIInv DEF Labels

\* A task is taken from the public queue.
LEMMA FetchTaskIInv ==
    ASSUME IInv, NEW w \in Threads, Fetch(w), public # <<>>
    PROVE  IInv'
<1>1. /\ TypeOK /\ TasksAreSound /\ pc[w] = "fetch"
      /\ \A v \in Threads : Sound(v) /\ ThiefIsSound(v) /\ SleeperIsListed(v)
    BY IInvIs DEF Fetch
<1>2. public \in Seq(Tasks) /\ IsInjective(public)
    BY <1>1 DEF TypeOK, TasksAreSound, PublicWaits
<1>3. /\ Tail(public) \in Seq(Tasks) /\ IsInjective(Tail(public))
      /\ Head(public) \in Tasks /\ Head(public) \in Range(public)
      /\ Range(Tail(public)) = Range(public) \ {Head(public)}
    BY <1>2, RangeTail
<1>4. PICK task \in Tasks : task = Head(public)
    BY <1>3
<1>5. /\ Run(w, task) /\ public' = Tail(public)
      /\ UNCHANGED <<items, top, bottom, event, waiters, shutdown>>
    BY <1>4 DEF Fetch, deques
<1>6. /\ pc'[w] = "run" /\ Goto(w, "run") /\ ~Running(w) /\ Running(w)' /\ ThiefIsSound(w)'
      /\ \A v \in Threads \ {w} : Kept(v) /\ (Running(v)' <=> Running(v))
    BY <1>1, <1>5, RunIs DEF ThiefIsSound
<1>7. TypeOK'
    BY <1>1, <1>3, <1>5, RunIs DEF TypeOK, ThiefIsSound
<1>8. ASSUME NEW v \in Threads PROVE Limit(v)' = Limit(v)
    <2>1. CASE v = w
        BY <1>1, <1>5, <1>6, <2>1 DEF Limit
    <2>2. CASE v # w
        BY <1>5, <1>6, <2>2 DEF Limit, Kept
    <2> QED BY <2>1, <2>2
<1>9. ASSUME NEW v \in Threads PROVE Held(v)' = Held(v) /\ MovesOn(v)
    BY <1>1, <1>5, <1>8, DequeStaysMovesOn
<1>10. ASSUME NEW v \in Threads PROVE Sound(v)'
    <2>1. Sound(v) /\ Limit(v)' = Limit(v)
        BY <1>1, <1>8
    <2>2. CASE v = w
        BY <1>1, <1>5, <1>6, <2>1, <2>2 DEF Sound, DequeIsSound, LookerIsEmpty, Looking
    <2>3. CASE v # w
        BY <1>5, <1>6, <2>1, <2>3, BystanderStays DEF DequeKept
    <2> QED BY <2>2, <2>3
<1>11. ASSUME NEW v \in Threads PROVE ThiefIsSound(v)'
    <2>1. top' \in [Threads -> Nat]
        BY <1>7 DEF TypeOK
    <2> QED BY <1>1, <1>6, <1>9, <2>1, ThiefStays
<1>12. TasksAreSound'
    <2>1. task \in given \ Range(begun)
        BY <1>1, <1>3, <1>4 DEF TasksAreSound, PublicWaits
    <2>2. \A v \in Threads :
             /\ DOMAIN (Held(v)') \subseteq DOMAIN Held(v)
             /\ \A i \in DOMAIN Held(v) :
                   /\ i \in DOMAIN (Held(v)') <=> Held(v)[i] # task
                   /\ i \in DOMAIN (Held(v)') => (Held(v)')[i] = Held(v)[i]
        <3>1. \A v \in Threads : \A i \in DOMAIN Held(v) : Held(v)[i] # task
            BY <1>1, <1>3, <1>4 DEF TasksAreSound, HeldWaits
        <3> QED BY <1>9, <3>1
    <2>3. IsInjective(public') /\ Range(public') = Range(public) \ {task}
        BY <1>3, <1>4, <1>5
    <2> QED BY <1>1, <1>5, <1>6, <2>1, <2>2, <2>3, TaskRuns
<1>13. \A v \in Threads : SleeperIsListed(v)'
    BY <1>1, <1>5, <1>6 DEF SleeperIsListed, Kept
<1>14. PublicTaskIsSeen'
    BY <1>6 DEF PublicTaskIsSeen, Awake
<1> QED BY <1>7, <1>10, <1>11, <1>12, <1>13, <1>14 DEF IInv, Sound, TasksAreSound

\* The thread finds none and ends, or sleeps.
LEMMA FetchNoneIInv ==
    ASSUME IInv, NEW w \in Threads, Fetch(w), public = <<>>
    PROVE  IInv'
<1>1. TypeOK /\ TasksAreSound /\ pc[w] = "fetch" /\ \A v \in Threads : SleeperIsListed(v)
    BY IInvIs DEF Fetch
<1>2. UNCHANGED <<locals, deques, public, event, shutdown, hist>>
    BY DEF Fetch
<1>3. PICK l \in {"asleep", "exited"} :
        /\ Goto(w, l)
        /\ l = "exited" => shutdown /\ waiters' = waiters
        /\ l = "asleep" => waiters' = Append(waiters, w)
    BY DEF Fetch
<1>4. pc'[w] = l /\ \A v \in Threads \ {w} : pc'[v] = pc[v]
    BY <1>1, <1>3 DEF Goto, TypeOK
<1>5. \A v \in Threads : /\ Sound(v)' /\ ThiefIsSound(v)'
                         /\ Held(v)' = Held(v) /\ (Running(v)' <=> Running(v))
    BY <1>1, <1>2, <1>4, DequesStay
<1>6. TasksAreSound'
    BY <1>1, <1>2, <1>5, TasksStay DEF locals
<1>7. /\ waiters' \in Seq(Threads) /\ IsInjective(waiters')
      /\ Range(waiters') = IF l = "asleep" THEN Range(waiters) \cup {w} ELSE Range(waiters)
    <2>1. waiters \in Seq(Threads) /\ IsInjective(waiters) /\ w \notin Range(waiters)
        BY <1>1 DEF TypeOK, SleeperIsListed
    <2>2. /\ Append(waiters, w) \in Seq(Threads) /\ IsInjective(Append(waiters, w))
          /\ Range(Append(waiters, w)) = Range(waiters) \cup {w}
        BY <2>1, RangeAppend
    <2> QED BY <1>3, <2>1, <2>2
<1>8. TypeOK'
    <2>1. pc' \in [Threads -> Labels]
        BY <1>1, <1>3 DEF TypeOK, Goto, Labels
    <2> QED BY <1>1, <1>2, <1>7, <2>1 DEF TypeOK, locals, deques, hist
<1>9. ASSUME NEW v \in Threads PROVE SleeperIsListed(v)'
    <2>1. SleeperIsListed(v) /\ SleeperIsListed(w)
        BY <1>1
    <2>2. CASE v = w
        BY <1>1, <1>2, <1>3, <1>4, <1>7, <2>1, <2>2 DEF SleeperIsListed
    <2>3. CASE v # w
        BY <1>2, <1>4, <1>7, <2>1, <2>3 DEF SleeperIsListed
    <2> QED BY <2>2, <2>3
<1>10. PublicTaskIsSeen'
    BY <1>2 DEF PublicTaskIsSeen
<1> QED BY <1>5, <1>6, <1>8, <1>9, <1>10 DEF IInv, Sound, TasksAreSound

\* A task from outside joins the public queue.
LEMMA SubmitIInv == ASSUME IInv, NEW task \in Tasks, Submit(task) PROVE IInv'
<1>1. TypeOK /\ TasksAreSound /\ \A v \in Threads : SleeperIsListed(v)
    BY IInvIs
<1>2. /\ ~shutdown /\ task \in Roots /\ task \notin given /\ given' = given \cup {task}
      /\ public' = Append(public, task) /\ Notify
      /\ UNCHANGED <<pc, locals, deques, shutdown, begun, done>>
    BY DEF Submit
<1>3. \A v \in Threads : /\ Sound(v)' /\ ThiefIsSound(v)'
                         /\ Held(v)' = Held(v) /\ (Running(v)' <=> Running(v))
    BY <1>2, DequesStay
<1>4. /\ event' \in [Threads -> BOOLEAN]
      /\ waiters' \in Seq(Threads) /\ IsInjective(waiters')
      /\ \A v \in Threads : /\ v \in Range(waiters') <=> pc[v] = "asleep" /\ ~event'[v]
                            /\ event'[v] => pc[v] = "asleep"
      /\ waiters # <<>> => \E v \in Threads : pc[v] = "asleep" /\ event'[v]
    BY <1>1, <1>2, NotifyKeepsList
<1>5. /\ public' \in Seq(Tasks) /\ IsInjective(public')
      /\ Range(public') = Range(public) \cup {task}
    <2>1. public \in Seq(Tasks) /\ IsInjective(public) /\ task \notin Range(public)
        BY <1>1, <1>2 DEF TypeOK, TasksAreSound, PublicWaits
    <2> QED BY <1>2, <2>1, RangeAppend
<1>6. TypeOK'
    BY <1>1, <1>2, <1>4, <1>5 DEF TypeOK, locals, deques
<1>7. \A v \in Threads : SleeperIsListed(v)'
    BY <1>1, <1>2, <1>4 DEF SleeperIsListed
<1>8. PublicTaskIsSeen'
    <2>1. CASE waiters # <<>>
        BY <1>2, <1>4, <2>1 DEF PublicTaskIsSeen, Awake
    <2>2. CASE waiters = <<>>
        <3>1. PICK v \in Threads : TRUE
            BY ThreadPoolAssumption
        <3>2. Range(waiters) = {} /\ event' = event
            BY <1>2, <2>2, RangeEmpty DEF Notify
        <3>3. Awake(v)'
            BY <1>1, <1>2, <3>2 DEF Awake, SleeperIsListed
        <3> QED BY <3>3 DEF PublicTaskIsSeen
    <2> QED BY <2>1, <2>2
<1>9. TasksAreSound'
    <2>1. UNCHANGED <<cur, todo, begun, done>> /\ task \notin Range(begun)
        BY <1>1, <1>2 DEF locals, TasksAreSound, BegunOnce
    <2>2. HeldOnce'
        BY <1>1, <1>3 DEF TasksAreSound, HeldOnce
    <2>3. HeldWaits'
        <3>1. \A v \in Threads : \A i \in DOMAIN Held(v) :
                 Held(v)[i] \in (given \ Range(begun)) \ Range(public)
            BY <1>1 DEF TasksAreSound, HeldWaits
        <3> QED BY <1>2, <1>3, <1>5, <2>1, <3>1 DEF HeldWaits
    <2>4. PublicWaits' /\ BegunOnce'
        BY <1>1, <1>2, <1>5, <2>1 DEF TasksAreSound, PublicWaits, BegunOnce
    <2>5. NoneIsLost'
        BY <1>1, <1>2, <1>3, <1>5, <2>1 DEF TasksAreSound, NoneIsLost
    <2>6. RunIsBegun'
        BY <1>1, <1>3, <2>1 DEF TasksAreSound, RunIsBegun
    <2>7. KidsAreNew'
        <3>1. /\ \A v \in Threads : \A kid \in todo[v] : kid \in Kids[cur[v]] \ given
              /\ \A other \in Tasks \ Range(begun) : Kids[other] \cap given = {}
            BY <1>1 DEF TasksAreSound, KidsAreNew
        <3>2. \A other \in Tasks : task \notin Kids[other]
            BY <1>2, ThreadPoolAssumption
        <3>3. \A v \in Threads : todo[v] # {} => cur[v] \in Tasks
            <4>1. \A v \in Threads : todo[v] # {} => cur[v] \in Range(begun)
                BY <1>1 DEF TasksAreSound, RunIsBegun
            <4>2. Range(begun) \subseteq Tasks
                BY <1>1 DEF TasksAreSound, BegunOnce, TypeOK
            <4> QED BY <4>1, <4>2
        <3> QED BY <1>2, <2>1, <3>1, <3>2, <3>3 DEF KidsAreNew
    <2> QED BY <2>2, <2>3, <2>4, <2>5, <2>6, <2>7 DEF TasksAreSound
<1> QED BY <1>3, <1>6, <1>7, <1>8, <1>9 DEF IInv, Sound, TasksAreSound

\* A task that another one schedules joins a deque.
LEMMA TaskIsPushed ==
    ASSUME TypeOK, TasksAreSound, NEW w \in Threads, NEW task \in todo[w],
           \A v \in Threads : Running(v)' <=> Running(v),
           given' = given \cup {task}, todo'[w] = todo[w] \ {task},
           \A v \in Threads \ {w} : todo'[v] = todo[v] /\ Held(v)' = Held(v),
           UNCHANGED <<cur, public, begun, done>>,
           NEW hi, DOMAIN (Held(w)') = DOMAIN Held(w) \cup {hi}, (Held(w)')[hi] = task,
           \A i \in DOMAIN Held(w) : (Held(w)')[i] = Held(w)[i]
    PROVE  TasksAreSound'
<1> DEFINE H(v) == Held(v)
           G(v) == Held(v)'
<1>1. task \in Kids[cur[w]] /\ task \notin given /\ Running(w)
    BY DEF TasksAreSound, KidsAreNew, RunIsBegun
<1>2. task \notin Range(begun) /\ task \notin Range(public)
    BY <1>1 DEF TasksAreSound, BegunOnce, PublicWaits
<1>3. /\ \A p, q \in Threads : \A k \in DOMAIN H(p), m \in DOMAIN H(q) :
            H(p)[k] = H(q)[m] => p = q /\ k = m
      /\ \A p \in Threads : \A k \in DOMAIN H(p) :
            H(p)[k] \in (given \ Range(begun)) \ Range(public) /\ H(p)[k] # task
    BY <1>1 DEF TasksAreSound, HeldOnce, HeldWaits
<1>4. \A p \in Threads : \A k \in DOMAIN G(p) :
         \/ p = w /\ G(p)[k] = task /\ k = hi
         \/ k \in DOMAIN H(p) /\ G(p)[k] = H(p)[k]
    <2> TAKE p \in Threads
    <2>1. CASE p = w
        BY <2>1
    <2>2. CASE p # w
        BY <2>2
    <2> QED BY <2>1, <2>2
<1>5. HeldOnce'
    <2>1. \A p, q \in Threads : \A k \in DOMAIN G(p), m \in DOMAIN G(q) :
             G(p)[k] = G(q)[m] => p = q /\ k = m
        <3> HIDE DEF G, H
        <3> QED BY <1>3, <1>4
    <2> QED BY <2>1 DEF HeldOnce
<1>6. HeldWaits'
    <2>1. \A p \in Threads : \A k \in DOMAIN G(p) :
             G(p)[k] \in (given' \ Range(begun)) \ Range(public)
        <3> HIDE DEF G, H
        <3> QED BY <1>2, <1>3, <1>4
    <2> QED BY <2>1 DEF HeldWaits
<1>7. PublicWaits' /\ BegunOnce'
    BY DEF TasksAreSound, PublicWaits, BegunOnce
<1>8. NoneIsLost'
    <2> SUFFICES ASSUME NEW other \in given', other \notin Range(public),
                        other \notin Range(begun)
                 PROVE  \E v \in Threads : \E i \in DOMAIN G(v) : G(v)[i] = other
        BY DEF NoneIsLost
    <2>1. CASE other = task
        BY <2>1
    <2>2. CASE other # task
        <3>1. PICK v \in Threads : \E i \in DOMAIN H(v) : H(v)[i] = other
            BY <2>2 DEF TasksAreSound, NoneIsLost
        <3>2. PICK i \in DOMAIN H(v) : H(v)[i] = other
            BY <3>1
        <3>3. i \in DOMAIN G(v) /\ G(v)[i] = other
            BY <3>2
        <3> QED BY <3>3
    <2> QED BY <2>1, <2>2
<1>9. RunIsBegun'
    BY DEF TasksAreSound, RunIsBegun
<1>10. KidsAreNew'
    <2>1. /\ \A v \in Threads : \A kid \in todo[v] : kid \in Kids[cur[v]] \ given
          /\ \A other \in Tasks \ Range(begun) : Kids[other] \cap given = {}
        BY DEF TasksAreSound, KidsAreNew
    <2>2. cur[w] \in Range(begun) /\ Range(begun) \subseteq Tasks
        BY <1>1 DEF TasksAreSound, RunIsBegun, BegunOnce, TypeOK
    <2>3. \A other \in Tasks : other # cur[w] => task \notin Kids[other]
        BY <1>1, <2>2, ThreadPoolAssumption
    <2>4. ASSUME NEW v \in Threads, NEW kid \in todo'[v] PROVE kid \in Kids[cur[v]] \ given'
        <3>1. CASE v = w
            BY <2>1, <3>1
        <3>2. CASE v # w
            <4>1. kid \in todo[v]
                BY <3>2
            <4>2. cur[v] \in Tasks /\ cur[v] # cur[w]
                BY <1>1, <2>2, <3>2, <4>1 DEF TasksAreSound, RunIsBegun
            <4> QED BY <2>1, <2>3, <4>1, <4>2
        <3> QED BY <3>1, <3>2
    <2>5. \A other \in Tasks \ Range(begun) : Kids[other] \cap given' = {}
        BY <2>1, <2>2, <2>3
    <2> QED BY <2>4, <2>5 DEF KidsAreNew
<1> QED BY <1>5, <1>6, <1>7, <1>8, <1>9, <1>10 DEF TasksAreSound

\* A task returns, with nothing left to schedule.
LEMMA ReturnIInv == ASSUME IInv, NEW w \in Threads, Return(w) PROVE IInv'
<1>1. /\ TypeOK /\ TasksAreSound /\ pc[w] = "run" /\ todo[w] = {}
      /\ Sound(w) /\ ThiefIsSound(w)
    BY IInvIs DEF Return
<1>2. /\ done' = done \cup {cur[w]} /\ cur' = [cur EXCEPT ![w] = None] /\ Goto(w, "loop")
      /\ UNCHANGED <<todo, left, victim, b, t, x, items, top, bottom, pool, given, begun>>
    BY DEF Return, deques
<1>3. /\ pc'[w] = "loop" /\ cur'[w] = None
      /\ \A v \in Threads \ {w} : pc'[v] = pc[v] /\ cur'[v] = cur[v] /\ Kept(v)
    BY <1>1, <1>2 DEF Goto, TypeOK, Kept
<1>4. ~Running(w)' /\ Running(w) /\ \A v \in Threads \ {w} : Running(v)' <=> Running(v)
    BY <1>1, <1>3 DEF Running
<1>5. /\ \A v \in Threads : IF Running(v) THEN cur[v] \in Range(begun) \ done
                                          ELSE todo[v] = {}
      /\ \A u, v \in Threads : Running(u) /\ Running(v) /\ cur[u] = cur[v] => u = v
      /\ done \subseteq Range(begun)
      /\ \A k \in Range(begun) \ done : \E v \in Threads : Running(v) /\ cur[v] = k
    BY <1>1 DEF TasksAreSound, RunIsBegun
<1>6. cur[w] \in Range(begun) /\ cur[w] \in Tasks /\ Range(begun) \subseteq Tasks
    BY <1>1, <1>4, <1>5 DEF TasksAreSound, BegunOnce, TypeOK
<1>7. TypeOK'
    <2>1. pc' \in [Threads -> Labels] /\ cur' \in [Threads -> Tasks \cup {None}]
          /\ done' \subseteq Tasks
        BY <1>1, <1>2, <1>6 DEF TypeOK, Labels, Goto
    <2> QED BY <1>1, <1>2, <2>1 DEF TypeOK, pool
<1>8. ASSUME NEW v \in Threads PROVE Limit(v)' = Limit(v)
    BY <1>1, <1>2, <1>3 DEF Limit
<1>9. ASSUME NEW v \in Threads PROVE Held(v)' = Held(v) /\ MovesOn(v)
    BY <1>1, <1>2, <1>8, DequeStaysMovesOn
<1>10. ASSUME NEW v \in Threads PROVE Sound(v)'
    <2>1. Sound(v) /\ Limit(v)' = Limit(v)
        BY <1>8 DEF IInv, Sound
    <2>2. CASE v = w
        BY <1>1, <1>2, <1>3, <2>1, <2>2 DEF Sound, DequeIsSound, LookerIsEmpty, Looking
    <2>3. CASE v # w
        BY <1>2, <1>3, <2>1, <2>3, BystanderStays DEF DequeKept
    <2> QED BY <2>2, <2>3
<1>11. ThiefIsSound(w)'
    BY <1>1, <1>2, <1>3 DEF ThiefIsSound
<1>12. TasksAreSound'
    <2>1. UNCHANGED <<todo, public, given, begun>>
        BY <1>2 DEF pool
    <2>2. HeldOnce' /\ HeldWaits'
        BY <1>1, <1>9, <2>1 DEF TasksAreSound, HeldOnce, HeldWaits
    <2>3. PublicWaits' /\ BegunOnce'
        BY <1>1, <2>1 DEF TasksAreSound, PublicWaits, BegunOnce
    <2>4. NoneIsLost'
        BY <1>1, <1>9, <2>1 DEF TasksAreSound, NoneIsLost
    <2>5. RunIsBegun'
        <3>1. \A v \in Threads : IF Running(v)' THEN cur'[v] \in Range(begun') \ done'
                                                ELSE todo'[v] = {}
            BY <1>1, <1>2, <1>3, <1>4, <1>5, <2>1
        <3>2. \A u, v \in Threads : Running(u)' /\ Running(v)' /\ cur'[u] = cur'[v] => u = v
            BY <1>3, <1>4, <1>5
        <3>3. done' \subseteq Range(begun')
            BY <1>2, <1>5, <1>6, <2>1
        <3>4. \A k \in Range(begun') \ done' : \E v \in Threads : Running(v)' /\ cur'[v] = k
            BY <1>2, <1>3, <1>4, <1>5, <2>1
        <3> QED BY <3>1, <3>2, <3>3, <3>4 DEF RunIsBegun
    <2>6. KidsAreNew'
        BY <1>1, <1>3, <2>1 DEF TasksAreSound, KidsAreNew
    <2> QED BY <2>2, <2>3, <2>4, <2>5, <2>6 DEF TasksAreSound
<1> QED BY <1>1, <1>2, <1>3, <1>7, <1>9, <1>10, <1>11, <1>12, StepIInv DEF Labels

\* push: the array keeps what the deque holds and has the new task next to it.
LEMMA PushIInv == ASSUME IInv, NEW w \in Threads, NEW task \in Tasks, Push(w, task) PROVE IInv'
<1>1. /\ TypeOK /\ TasksAreSound /\ pc[w] = "run" /\ task \in todo[w]
      /\ Sound(w) /\ ThiefIsSound(w)
    BY IInvIs DEF Push
<1> DEFINE lo == top[w]
           hi == bottom[w]
           a  == items[w]
<1>2. /\ lo \in Nat /\ hi \in Nat /\ Limit(w) = hi /\ lo <= hi
      /\ IsArray(a) /\ Size(a) \in Nat \ {0} /\ hi <= lo + Size(a)
    BY <1>1 DEF TypeOK, Sound, DequeIsSound, Limit, IsArray
<1>3. PICK room : /\ room = IF hi - lo >= Size(a) THEN Grow(a, lo, hi) ELSE a
                  /\ items' = [items EXCEPT ![w] = [room EXCEPT ![hi % Size(room)] = task]]
    BY DEF Push
<1>4. /\ IsArray(room) /\ Size(room) \in Nat /\ hi < lo + Size(room)
      /\ \A i \in lo .. hi - 1 : Slot(room, i) = Slot(a, i)
    <2>1. CASE hi - lo >= Size(a)
        <3>1. /\ IsArray(Grow(a, lo, hi)) /\ Size(Grow(a, lo, hi)) = 2 * Size(a)
              /\ \A i \in lo .. hi - 1 : Slot(Grow(a, lo, hi), i) = Slot(a, i)
            BY <1>2, GrowKeeps
        <3>2. room = Grow(a, lo, hi)
            BY <1>3, <2>1
        <3> QED BY <1>2, <3>1, <3>2
    <2>2. CASE ~(hi - lo >= Size(a))
        BY <1>2, <1>3, <2>2
    <2> QED BY <2>1, <2>2
<1>5. PICK s : s = [room EXCEPT ![hi % Size(room)] = task] /\ items' = [items EXCEPT ![w] = s]
    BY <1>3
<1>6. /\ IsArray(s) /\ Size(s) = Size(room) /\ Slot(s, hi) = task
      /\ \A i \in lo .. hi - 1 : Slot(s, i) = Slot(a, i)
    <2>1. /\ IsArray(s) /\ Size(s) = Size(room) /\ Slot(s, hi) = task
          /\ \A i \in lo .. hi - 1 : Slot(s, i) = Slot(room, i)
        <3>1. hi % Size(room) \in DOMAIN room
            BY <1>2, <1>4, RemainderInRange DEF IsArray
        <3>2. /\ DOMAIN s = DOMAIN room /\ s[hi % Size(room)] = task
              /\ \A i \in DOMAIN room \ {hi % Size(room)} : s[i] = room[i]
            BY <1>5, <3>1
        <3> HIDE DEF hi, lo, a
        <3> QED BY <1>2, <1>4, <3>2, StoreKeeps
    <2> QED BY <1>4, <2>1
<1>7. /\ items'[w] = s /\ DOMAIN items' = Threads
      /\ \A v \in Threads \ {w} : items'[v] = items[v]
    BY <1>1, <1>5 DEF TypeOK
<1>8. /\ Goto(w, "publish") /\ given' = given \cup {task}
      /\ todo' = [todo EXCEPT ![w] = @ \ {task}]
      /\ UNCHANGED <<cur, left, victim, b, t, x, top, bottom, pool, begun, done>>
    BY DEF Push
<1>9. /\ pc'[w] = "publish" /\ todo'[w] = todo[w] \ {task}
      /\ \A v \in Threads \ {w} : /\ pc'[v] = pc[v] /\ todo'[v] = todo[v]
                                  /\ Kept(v) /\ DequeKept(v)
    BY <1>1, <1>7, <1>8 DEF Goto, TypeOK, Kept, DequeKept
<1>10. \A v \in Threads : Running(v)' <=> Running(v)
    BY <1>1, <1>9 DEF Running
<1>11. TypeOK'
    <2>1. /\ pc' \in [Threads -> Labels] /\ todo' \in [Threads -> SUBSET Tasks]
          /\ given' \subseteq Tasks
        BY <1>1, <1>8 DEF TypeOK, Labels, Goto
    <2> QED BY <1>1, <1>7, <1>8, <2>1 DEF TypeOK, pool
<1>12. Limit(w)' = hi + 1
    BY <1>8, <1>9 DEF Limit
<1>13. ASSUME NEW v \in Threads \ {w} PROVE Sound(v)' /\ Held(v)' = Held(v) /\ MovesOn(v)
    <2>1. Kept(v) /\ DequeKept(v) /\ Sound(v)
        BY <1>9 DEF IInv, Sound
    <2> QED BY <1>1, <2>1, BystanderStays, DequeStaysMovesOn DEF DequeKept
<1>14. MovesOn(w)
    <2>1. top'[w] = lo /\ lo < hi => lo \in lo .. hi - 1
        BY <1>2, <1>8
    <2> QED BY <1>2, <1>6, <1>7, <1>8, <1>12, <2>1 DEF MovesOn
<1>15. Sound(w)'
    <2>1. /\ IsArray(items'[w]) /\ top'[w] <= Limit(w)'
          /\ Limit(w)' <= top'[w] + Size(items'[w])
        BY <1>2, <1>4, <1>6, <1>7, <1>8, <1>12
    <2> QED BY <1>9, <2>1 DEF Sound, DequeIsSound, LookerIsEmpty, Looking
<1>16. ThiefIsSound(w)'
    BY <1>1, <1>8, <1>9 DEF ThiefIsSound
<1>17. /\ DOMAIN (Held(w)') = DOMAIN Held(w) \cup {hi} /\ (Held(w)')[hi] = task
       /\ \A i \in DOMAIN Held(w) : (Held(w)')[i] = Held(w)[i]
    <2>1. Held(w)' = [i \in lo .. hi |-> Slot(s, i)]
        BY <1>2, <1>7, <1>8, <1>12 DEF Held
    <2>2. Held(w) = [i \in lo .. hi - 1 |-> Slot(a, i)]
        BY <1>2 DEF Held
    <2> QED BY <1>2, <1>6, <2>1, <2>2
<1>18. TasksAreSound'
    BY <1>1, <1>8, <1>9, <1>10, <1>13, <1>17, TaskIsPushed DEF pool
<1> QED BY <1>1, <1>8, <1>9, <1>11, <1>13, <1>14, <1>15, <1>16, <1>18, StepIInv DEF Labels

-------------------------------------------------------------------------------
(* The invariant, and what follows from it.                                *)

\* Init establishes the invariant,
LEMMA InitIInv == Init => IInv
<1> SUFFICES ASSUME Init PROVE IInv
    OBVIOUS
<1> USE DEF Init
<1>1. ArraySize \in Nat \ {0}
    BY ThreadPoolAssumption
<1>2. Range(<<>>) = {} /\ IsInjective(<<>>)
    BY RangeEmpty
<1>3. TypeOK
    <2>1. /\ pc \in [Threads -> Labels] /\ cur \in [Threads -> Tasks \cup {None}]
          /\ todo \in [Threads -> SUBSET Tasks] /\ left \in [Threads -> SUBSET Threads]
          /\ victim \in [Threads -> Threads] /\ x \in [Threads -> Tasks \cup {None}]
          /\ event \in [Threads -> BOOLEAN] /\ DOMAIN items = Threads
        BY DEF Labels
    <2>2. /\ b \in [Threads -> Nat] /\ t \in [Threads -> Nat]
          /\ top \in [Threads -> Nat] /\ bottom \in [Threads -> Nat]
        OBVIOUS
    <2>3. public \in Seq(Tasks) /\ waiters \in Seq(Threads) /\ begun \in Seq(Tasks)
        OBVIOUS
    <2> QED BY <1>2, <2>1, <2>2, <2>3 DEF TypeOK
<1>4. ASSUME NEW w \in Threads
      PROVE  /\ pc[w] = "loop" /\ top[w] = 0 /\ bottom[w] = 0 /\ Limit(w) = 0
             /\ items[w] = [i \in 0 .. ArraySize - 1 |-> None] /\ DOMAIN Held(w) = {}
    <2>1. pc[w] = "loop" /\ top[w] = 0 /\ bottom[w] = 0
        OBVIOUS
    <2>2. Limit(w) = 0
        BY <2>1 DEF Limit
    <2>3. DOMAIN Held(w) = 0 .. 0 - 1
        BY <2>1, <2>2 DEF Held
    <2> QED BY <2>1, <2>2, <2>3
<1>5. ASSUME NEW w \in Threads PROVE DequeIsSound(w) /\ LookerIsEmpty(w)
    <2>1. DOMAIN items[w] = 0 .. ArraySize - 1
        BY <1>4
    <2>2. Size(items[w]) = ArraySize
        BY <1>1, <2>1, SizeIs
    <2>3. IsArray(items[w])
        BY <1>1, <1>4, <2>1, <2>2 DEF IsArray
    <2> QED BY <1>1, <1>4, <2>2, <2>3 DEF DequeIsSound, LookerIsEmpty, Looking
<1>6. ASSUME NEW w \in Threads PROVE ThiefIsSound(w) /\ SleeperIsListed(w)
    BY <1>2, <1>4 DEF ThiefIsSound, SleeperIsListed
<1>7. HeldOnce /\ HeldWaits /\ PublicWaits /\ BegunOnce /\ NoneIsLost
    BY <1>2, <1>4 DEF HeldOnce, HeldWaits, PublicWaits, BegunOnce, NoneIsLost
<1>8. RunIsBegun /\ KidsAreNew /\ PublicTaskIsSeen
    BY <1>2, <1>4 DEF RunIsBegun, Running, KidsAreNew, PublicTaskIsSeen
<1> QED BY <1>3, <1>5, <1>6, <1>7, <1>8 DEF IInv

\* a step of nobody keeps it,
LEMMA StutterIInv == ASSUME IInv, UNCHANGED vars PROVE IInv'
<1>1. UNCHANGED <<pc, locals, deques, pool, hist>>
    BY DEF vars
<1>2. \A v \in Threads : /\ Sound(v)' /\ ThiefIsSound(v)'
                         /\ Held(v)' = Held(v) /\ (Running(v)' <=> Running(v))
    BY <1>1, DequesStay
<1>3. TasksAreSound'
    BY <1>1, <1>2, TasksStay, IInvIs DEF locals, pool
<1>4. TypeOK'
    BY <1>1 DEF IInv, TypeOK, locals, deques, pool, hist
<1>5. \A v \in Threads : SleeperIsListed(v)'
    BY <1>1 DEF IInv, SleeperIsListed, pool
<1>6. PublicTaskIsSeen'
    BY <1>1 DEF IInv, PublicTaskIsSeen, Awake, pool
<1> QED BY <1>2, <1>3, <1>4, <1>5, <1>6 DEF IInv, Sound, TasksAreSound

\* and so does every step of the pool.
LEMMA NextIInv == IInv /\ [Next]_vars => IInv'
<1> SUFFICES ASSUME IInv, [Next]_vars PROVE IInv'
    OBVIOUS
<1>1. ASSUME NEW w \in Threads, Step(w) PROVE IInv'
    <2>1. CASE PopLast(w)
        BY <2>1, WonLastIInv, LostLastIInv
    <2>2. CASE StealCas(w)
        BY <2>2, WonCasIInv, LostCasIInv
    <2>3. CASE Fetch(w)
        BY <2>3, FetchTaskIInv, FetchNoneIInv
    <2>4. CASE PopRead(w) \/ PopReserve(w) \/ PopTake(w) \/ PopGone(w) \/ PopContend(w)
        BY <2>4, PopReadIInv, PopReserveIInv, PopTakeIInv, PopGoneIInv, PopContendIInv
    <2>5. CASE Victim(w) \/ StealTop(w) \/ StealBottom(w) \/ StealItem(w)
        BY <2>5, VictimIInv, StealTopIInv, StealBottomIInv, StealItemIInv
    <2>6. CASE Wake(w) \/ Woken(w) \/ WakeOne(w)
        BY <2>6, WakeIInv, WokenIInv, WakeOneIInv
    <2>7. CASE \E task \in Tasks : Push(w, task)
        BY <2>7, PushIInv
    <2>8. CASE Publish(w) \/ Peek(w) \/ Return(w)
        BY <2>8, PublishIInv, PeekIInv, ReturnIInv
    <2> QED BY <1>1, <2>1, <2>2, <2>3, <2>4, <2>5, <2>6, <2>7, <2>8 DEF Step
<1>2. ASSUME NEW task \in Tasks, Submit(task) PROVE IInv'
    BY <1>2, SubmitIInv
<1>3. CASE Shutdown
    BY <1>3, ShutdownIInv
<1>4. CASE UNCHANGED vars
    BY <1>4, StutterIInv
<1> QED BY <1>1, <1>2, <1>3, <1>4 DEF Next

\* The parts of the invariant hold together in every state the pool reaches.
THEOREM Invariance == Spec => []IInv
BY InitIInv, NextIInv, PTL DEF Spec

\* The variables keep their types; no thread is on the list of waiters twice, so
\* that the array with a place for each thread is never overrun.
THEOREM TypeCorrect == Spec => []TypeOK
<1>1. IInv => TypeOK
    BY DEF IInv
<1> QED BY Invariance, <1>1, PTL

\* A task in the public queue has a thread that is awake: no wakeup is lost
\* between a thread that goes to sleep and a call of schedule.
THEOREM PublicTaskSeen == Spec => []PublicTaskIsSeen
<1>1. IInv => PublicTaskIsSeen
    BY DEF IInv
<1> QED BY Invariance, <1>1, PTL

\* The destructor returns when every scheduled task has: the threads end with
\* their own deques and the public queue empty, and none is still running one.
THEOREM JoinedDrained == Spec => []JoinedIsDrained
<1>1. ASSUME IInv, Joined PROVE done = given
    <2>1. \A w \in Threads : pc[w] = "exited" /\ ~Running(w) /\ DOMAIN Held(w) = {}
        <3> TAKE w \in Threads
        <3>1. pc[w] = "exited"
            BY <1>1 DEF Joined
        <3>2. top[w] = Limit(w) /\ top[w] \in Nat
            BY <1>1, <3>1 DEF IInv, LookerIsEmpty, Looking, TypeOK
        <3> QED BY <3>1, <3>2 DEF Running, Held
    <2>2. Range(public) = {}
        <3>1. public = <<>>
            BY <1>1, <2>1, ThreadPoolAssumption DEF IInv, SleeperIsListed
        <3> QED BY <3>1, RangeEmpty
    <2>3. given \subseteq Range(begun)
        BY <1>1, <2>1, <2>2 DEF IInv, NoneIsLost
    <2>4. Range(begun) \subseteq done
        BY <1>1, <2>1 DEF IInv, RunIsBegun
    <2>5. done \subseteq given
        BY <1>1 DEF IInv, RunIsBegun, BegunOnce
    <2> QED BY <2>3, <2>4, <2>5
<1>2. IInv => JoinedIsDrained
    BY <1>1 DEF JoinedIsDrained
<1> QED BY Invariance, <1>2, PTL

-------------------------------------------------------------------------------
(* The refinement, step by step.                                           *)

\* A step that WorkPool allows.
Promised == [Abstract!Next]_(Abstract!wpvars)

\* A task that is taken from where it waits has not been started.
LEMMA RunIsBegin ==
    ASSUME TypeOK, NEW w \in Threads, NEW task \in given \ Range(begun), Run(w, task)
    PROVE  Promised
<1>1. task \in Tasks
    BY DEF TypeOK
<1>2. Abstract!Begin(task)
    BY DEF Run, Abstract!Begin, Abstract!Range, Range
<1> QED BY <1>1, <1>2 DEF Promised, Abstract!Next

\* A step that starts, ends and schedules nothing.
LEMMA QuietIsPromised == ASSUME UNCHANGED hist PROVE Promised
BY DEF hist, Promised, Abstract!wpvars

\* Every step is one of WorkPool's or leaves its variables alone.
LEMMA NextIsPromised == IInv /\ [Next]_vars => Promised
<1> SUFFICES ASSUME IInv, [Next]_vars PROVE Promised
    OBVIOUS
<1>1. TypeOK /\ TasksAreSound
    BY IInvIs
<1>2. \A w \in Threads : \A i \in DOMAIN Held(w) : Held(w)[i] \in given \ Range(begun)
    BY <1>1 DEF TasksAreSound, HeldWaits
<1>3. ASSUME NEW w \in Threads, Step(w) PROVE Promised
    <2> USE QuietIsPromised
    <2>1. CASE PopTake(w)
        <3>1. Sound(w) /\ pc[w] = "check" /\ top[w] \in Nat /\ bottom[w] \in Nat
            BY <1>1, <2>1, IInvIs DEF PopTake, TypeOK
        <3>2. b[w] \in DOMAIN Held(w) /\ Held(w)[b[w]] = Slot(items[w], b[w])
            <4>1. Limit(w) = bottom[w] + 1 /\ b[w] = bottom[w] /\ b[w] > top[w]
                BY <2>1, <3>1 DEF PopTake, Sound, DequeIsSound, Limit
            <4> QED BY <3>1, <4>1 DEF Held
        <3> QED BY <1>1, <1>2, <2>1, <3>2, RunIsBegin DEF PopTake
    <2>2. CASE PopLast(w)
        <3>1. CASE top[w] # t[w]
            BY <2>2, <3>1 DEF PopLast, ToSteal
        <3>2. CASE top[w] = t[w]
            <4>1. Sound(w) /\ pc[w] = "last" /\ top[w] \in Nat /\ bottom[w] \in Nat
                BY <1>1, <2>2, IInvIs DEF PopLast, TypeOK
            <4>2. Limit(w) = bottom[w] + 1 /\ top[w] = bottom[w] /\ x[w] = Slot(items[w], top[w])
                BY <3>2, <4>1 DEF Sound, DequeIsSound, Limit
            <4>3. top[w] \in DOMAIN Held(w) /\ Held(w)[top[w]] = x[w]
                BY <4>1, <4>2 DEF Held
            <4> QED BY <1>1, <1>2, <2>2, <3>2, <4>3, RunIsBegin DEF PopLast
        <3> QED BY <3>1, <3>2
    <2>3. CASE StealCas(w)
        <3>1. PICK u \in Threads : u = victim[w]
            BY <1>1 DEF TypeOK
        <3>2. CASE top[u] # t[w]
            BY <2>3, <3>1, <3>2 DEF StealCas
        <3>3. CASE top[u] = t[w]
            <4>1. ThiefIsSound(w) /\ pc[w] = "cas" /\ top[u] \in Nat /\ bottom[u] \in Nat
                BY <1>1, <2>3, IInvIs DEF StealCas, TypeOK
            <4>2. top[u] < Limit(u) /\ x[w] = Slot(items[u], top[u]) /\ Limit(u) \in Nat
                BY <3>1, <3>3, <4>1 DEF ThiefIsSound, Limit
            <4>3. top[u] \in DOMAIN Held(u) /\ Held(u)[top[u]] = x[w]
                BY <4>1, <4>2 DEF Held
            <4> QED BY <1>1, <1>2, <2>3, <3>1, <3>3, <4>3, RunIsBegin DEF StealCas
        <3> QED BY <3>2, <3>3
    <2>4. CASE Fetch(w)
        <3>1. CASE public = <<>>
            BY <2>4, <3>1 DEF Fetch
        <3>2. CASE public # <<>>
            <4>1. Head(public) \in Range(public)
                BY <1>1, <3>2, RangeTail DEF TypeOK, TasksAreSound, PublicWaits
            <4>2. Head(public) \in given \ Range(begun)
                BY <1>1, <4>1 DEF TasksAreSound, PublicWaits
            <4> QED BY <1>1, <2>4, <3>2, <4>2, RunIsBegin DEF Fetch
        <3> QED BY <3>1, <3>2
    <2>5. CASE PopRead(w) \/ PopReserve(w) \/ PopGone(w) \/ PopContend(w)
        BY <2>5 DEF PopRead, PopReserve, PopGone, PopContend, ToSteal
    <2>6. CASE Victim(w) \/ StealTop(w) \/ StealBottom(w) \/ StealItem(w)
        BY <2>6 DEF Victim, StealTop, StealBottom, StealItem
    <2>7. CASE Wake(w) \/ Woken(w) \/ WakeOne(w) \/ Publish(w) \/ Peek(w)
        BY <2>7 DEF Wake, Woken, WakeOne, Publish, Peek, ToSteal
    <2>8. ASSUME NEW task \in Tasks, Push(w, task) PROVE Promised
        <3>1. task \notin given
            BY <1>1, <2>8 DEF Push, TasksAreSound, KidsAreNew
        <3>2. Abstract!Give(task)
            BY <2>8, <3>1 DEF Push, Abstract!Give
        <3> QED BY <3>2 DEF Promised, Abstract!Next
    <2>9. CASE Return(w)
        <3>1. cur[w] \in Range(begun) \ done /\ cur[w] \in Tasks
            BY <1>1, <2>9 DEF Return, TasksAreSound, RunIsBegun, Running, BegunOnce, TypeOK
        <3>2. Abstract!End(cur[w])
            BY <2>9, <3>1 DEF Return, Abstract!End, Abstract!Range, Range
        <3> QED BY <3>1, <3>2 DEF Promised, Abstract!Next
    <2> QED BY <1>3, <2>1, <2>2, <2>3, <2>4, <2>5, <2>6, <2>7, <2>8, <2>9 DEF Step
<1>4. ASSUME NEW task \in Tasks, Submit(task) PROVE Promised
    <2>1. Abstract!Give(task)
        BY <1>4 DEF Submit, Abstract!Give
    <2> QED BY <2>1 DEF Promised, Abstract!Next
<1>5. CASE Shutdown
    BY <1>5, QuietIsPromised DEF Shutdown
<1>6. CASE UNCHANGED vars
    BY <1>6, QuietIsPromised DEF vars
<1> QED BY <1>3, <1>4, <1>5, <1>6 DEF Next

\* The pool implements WorkPool: a task is scheduled once, run once after that,
\* by whichever thread, and returns at most once after that.
THEOREM PoolImplementsWorkPool == Spec => ImplementsWorkPool
<1>1. Init => Abstract!Init
    BY DEF Init, Abstract!Init
<1>2. IInv /\ [Next]_vars => Promised
    BY NextIsPromised
<1> QED BY Invariance, <1>1, <1>2, PTL DEF Spec, Promised, ImplementsWorkPool, Abstract!Spec

===============================================================================
