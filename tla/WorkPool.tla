------------------------------- MODULE WorkPool -------------------------------
(***************************************************************************)
(* What a pool of threads promises to the one who gives it tasks: a task   *)
(* is started once, after it was given, and ends.                          *)
(***************************************************************************)
EXTENDS Sequences, Functions

CONSTANT Tasks

VARIABLES
    given,    \* the tasks scheduled so far
    started,  \* the tasks in the order in which they were started
    ended     \* the tasks that have ended

wpvars == <<given, started, ended>>

Init == given = {} /\ started = <<>> /\ ended = {}

Give(t) ==
    /\ t \notin given
    /\ given' = given \cup {t}
    /\ UNCHANGED <<started, ended>>

Begin(t) ==
    /\ t \in given \ Range(started)
    /\ started' = Append(started, t)
    /\ UNCHANGED <<given, ended>>

End(t) ==
    /\ t \in Range(started) \ ended
    /\ ended' = ended \cup {t}
    /\ UNCHANGED <<given, started>>

Next == \E t \in Tasks : Give(t) \/ Begin(t) \/ End(t)

Spec == Init /\ [][Next]_wpvars

\* Nothing that was given is left.
Live == \A t \in Tasks : t \in given ~> t \in ended

===============================================================================
