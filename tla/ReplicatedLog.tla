----------------------------- MODULE ReplicatedLog -----------------------------
(***************************************************************************)
(* What log replication promises, without instances, polls and failures:   *)
(* one log to which records are added under fresh ids, and replicas that   *)
(* take over its records one by one, in the order of the ids and without   *)
(* leaving one out.  Nothing is ever removed.                              *)
(***************************************************************************)
EXTENDS TransLog

CONSTANTS
    Replicas,  \* the copies
    Ids,       \* log ids
    Recs,      \* records
    Start      \* the log at the start

VARIABLES
    committed, \* the log: id -> record
    copy       \* per replica, its log

Init ==
    /\ committed = Start
    /\ copy = [r \in Replicas |-> EmptyLog]

\* A record is added.  Concurrent commits write their records in any order.
Write ==
    /\ \E id \in Ids \ DOMAIN committed, rec \in Recs :
         committed' = Put(committed, id, rec)
    /\ UNCHANGED copy

\* A replica takes over the record after its last one.
Copy(r) ==
    LET id == LastKey(copy[r]) + 1
    IN  /\ id \in DOMAIN committed
        /\ copy' = [copy EXCEPT ![r] = Put(@, id, committed[id])]
        /\ UNCHANGED committed

Next == Write \/ \E r \in Replicas : Copy(r)

Spec == Init /\ [][Next]_<<committed, copy>>

===============================================================================
