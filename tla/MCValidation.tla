----------------------------- MODULE MCValidation -----------------------------
(***************************************************************************)
(* Small instances of Validation: one or two threads, two client secrets.  *)
(***************************************************************************)
EXTENDS Validation, TLC

CONSTANTS w1, w2, k1, k2

Symmetry == Permutations(Workers) \cup Permutations(Keys)

\* No action reads an answer, and the properties look only at the answer of a
\* SubmitToken as it is given: states that differ in earlier answers need not be
\* told apart.  Nor need those that differ in what a request asks for that can
\* only be answered: a check, or a submission for the session of another key,
\* since the key of a session never changes.
Futile(o) ==
    \/ o.kind = "check"
    \/ o.kind = "submit" /\ "key" \in DOMAIN o
       /\ o.sid \in DOMAIN sessions /\ sessions[o.sid].key # o.key
Matters(w) == IF Futile(op[w]) THEN [kind |-> "futile"] ELSE op[w]
AllButAnswers == <<pool, now, db, maincounter, pc,
                   [w \in Workers |-> Matters(w)]>>

===============================================================================
