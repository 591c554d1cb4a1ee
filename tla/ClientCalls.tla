------------------------------ MODULE ClientCalls ------------------------------
(***************************************************************************)
(* What the instances together promise a client that calls one of them,    *)
(* whichever instance does the work: a call takes effect at most once; an  *)
(* answer that says so means that it has; one that nothing was found to    *)
(* call means that it never will; an error means that the matter is        *)
(* settled, and not which way: the call has taken effect or never will;    *)
(* and to a caller who lost the connection it may still happen.            *)
(***************************************************************************)
EXTENDS Naturals

CONSTANT Reqs  \* the calls

VARIABLES
    state,     \* idle, asked, ok, failed, refused or lost
    effect     \* how often a call has taken effect

vars == <<state, effect>>

Init ==
    /\ state = [r \in Reqs |-> "idle"]
    /\ effect = [r \in Reqs |-> 0]

Become(r, s) == state' = [state EXCEPT ![r] = s] /\ UNCHANGED effect

Ask(r) == state[r] = "idle" /\ Become(r, "asked")

TakeEffect(r) ==
    /\ state[r] \in {"asked", "lost"} /\ effect[r] = 0
    /\ effect' = [effect EXCEPT ![r] = 1]
    /\ UNCHANGED state

AnswerOk(r) == state[r] = "asked" /\ effect[r] = 1 /\ Become(r, "ok")

\* The error is that of a check before the effect or of a step after it, and the
\* answer may come with the effect.
Fail(r) ==
    /\ state[r] = "asked"
    /\ state' = [state EXCEPT ![r] = "failed"]
    /\ effect' \in {effect, [effect EXCEPT ![r] = 1]}

\* A call that nothing could be found for is refused at once.
Refuse(r) == state[r] = "idle" /\ Become(r, "refused")

\* The calls that an instance was asked are lost together when it stops.
Lose(lost) ==
    /\ \A r \in lost : state[r] = "asked"
    /\ state' = [r \in Reqs |-> IF r \in lost THEN "lost" ELSE state[r]]
    /\ UNCHANGED effect

Next ==
    \/ \E r \in Reqs : Ask(r) \/ TakeEffect(r) \/ AnswerOk(r) \/ Fail(r) \/ Refuse(r)
    \/ \E lost \in SUBSET Reqs : Lose(lost)

Spec == Init /\ [][Next]_vars

===============================================================================
