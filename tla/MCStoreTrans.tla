----------------------------- MODULE MCStoreTrans -----------------------------
(***************************************************************************)
(* Small instances of StoreTrans: the row of an association, an index row  *)
(* of it, and a row that is deleted (a pending mail).                      *)
(***************************************************************************)
EXTENDS StoreTrans, TLC

CONSTANTS w1, w2, assoc, uniq, mail, a, b, s1

\* Two values for the association, a batch with an index row, and a mail row
\* that is written and deleted.
AllBatches ==
    {assoc :> a, (assoc :> b) @@ (uniq :> a), mail :> a, mail :> Absent}

\* One association row written with either value.
TwoValues == {assoc :> a, assoc :> b}

===============================================================================
