----------------------------- MODULE MCThreadPool -----------------------------
(***************************************************************************)
(* A small instance of ThreadPool: r and q come from outside; r schedules  *)
(* two tasks from inside the pool, for which the first array of a deque is *)
(* too small, and one of those, on whichever thread it runs, another.      *)
(***************************************************************************)
EXTENDS ThreadPool
CONSTANTS r, q, k1, k2, k3, w1, w2

MCTasks == {r, q, k1, k2, k3}
MCKids  == [task \in MCTasks |-> CASE task = r  -> {k1, k2}
                                   [] task = k1 -> {k3}
                                   [] OTHER     -> {}]

===============================================================================
