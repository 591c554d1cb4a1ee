--------------------------- MODULE StoreTableProofs ---------------------------
(***************************************************************************)
(* Proofs about StoreTable, for any number of request threads, keys and    *)
(* ids: the rows of the secondary keys never dangle and never mislead.     *)
(***************************************************************************)
EXTENDS StoreTable, TLAPS, NaturalsInduction, WellFoundedInduction

\* The counter an instance starts from is at least 1, covers every id of its
\* log and, when there is one, is the id of a record (StoreLevel::Initialize).
LEMMA LastKeyIsLast ==
    ASSUME NEW log, NEW c \in Nat,
           \A i \in DOMAIN log : i \in Nat /\ 2 <= i /\ i <= c
    PROVE  /\ LastKey(log) \in Nat \ {0}
           /\ \A i \in DOMAIN log : i <= LastKey(log)
           /\ LastKey(log) = 1 \/ LastKey(log) \in DOMAIN log
<1>1. CASE DOMAIN log = {}
    BY <1>1 DEF LastKey
<1>2. CASE DOMAIN log # {}
    <2> DEFINE R == OpToRel(<, Nat)
               T == {c - i : i \in DOMAIN log}
    <2>1. \A i \in DOMAIN log : c - i \in Nat
        OBVIOUS
    <2>2. PICK x \in T : \A y \in T : <<y, x>> \notin R
        <3>1. IsWellFoundedOn(R, Nat) /\ T \subseteq Nat /\ T # {}
            BY <1>2, <2>1, NatLessThanWellFounded
        <3> HIDE DEF R, T
        <3> QED BY <3>1, WFMin
    <2>3. PICK m \in DOMAIN log : x = c - m
        OBVIOUS
    <2>4. ASSUME NEW i \in DOMAIN log PROVE i <= m
        <3>1. ~(c - i < c - m) /\ c - i \in Nat /\ c - m \in Nat
            BY <2>1, <2>2, <2>3 DEF OpToRel
        <3> QED BY <3>1
    <2> QED BY <1>2, <2>4 DEF LastKey
<1> QED BY <1>1, <1>2

\* A new table is empty and no request is under way.
LEMMA InitIInv == Init => IInv
BY StoreTableAssumption
   DEF Init, IInv, TypeOK, UpdatesKeepKey, InsertsAreNew, Inserts,
       SecondaryKeysSound, RowsAreIndexed, EmptyLog

\* Looking a record up: an update has the key it was found by, an insertion takes
\* an id beyond those of all others.
LEMMA FindIInv ==
    ASSUME IInv, NEW w \in Workers, NEW k \in Keys, NEW v \in Vals, Find(w, k, v)
    PROVE  IInv'
<1> USE DEF IInv, table
<1>1. /\ pc[w] = "idle" /\ pc' = [pc EXCEPT ![w] = "found"]
      /\ UNCHANGED <<rows, uniq, index>>
    BY DEF Find
<1>2. SecondaryKeysSound' /\ RowsAreIndexed'
    BY <1>1 DEF SecondaryKeysSound, RowsAreIndexed
<1>3. CASE GetOne(k)
    <2>1. /\ rec' = [rec EXCEPT ![w] = [id |-> uniq[k], key |-> k, val |-> v,
                                        upsert |-> TRUE]]
          /\ UNCHANGED maincounter
        BY <1>3 DEF Find
    <2>2. uniq[k] \in Ids /\ uniq[k] \in DOMAIN rows /\ rows[uniq[k]].key = k
        BY <1>3 DEF GetOne, TypeOK, SecondaryKeysSound
    <2>3. TypeOK'
        BY <1>1, <2>1, <2>2 DEF TypeOK, Recs
    <2>4. UpdatesKeepKey' /\ InsertsAreNew'
        BY <1>1, <2>1, <2>2 DEF TypeOK, UpdatesKeepKey, InsertsAreNew, Inserts
    <2> QED BY <1>2, <2>3, <2>4
<1>4. CASE ~GetOne(k)
    <2>1. /\ maincounter < MaxId /\ maincounter' = maincounter + 1
          /\ rec' = [rec EXCEPT ![w] = [id |-> maincounter + 1, key |-> k,
                                        val |-> v, upsert |-> FALSE]]
        BY <1>4 DEF Find
    <2>2. maincounter + 1 \in Ids /\ maincounter' \in 1 .. MaxId
        BY <2>1, StoreTableAssumption DEF TypeOK, Ids
    <2>3. TypeOK'
        BY <1>1, <2>1, <2>2 DEF TypeOK, Recs
    <2>4. UpdatesKeepKey'
        BY <1>1, <2>1 DEF TypeOK, UpdatesKeepKey
    <2>5. InsertsAreNew'
        <3>1. \A u \in Workers : u # w => pc'[u] = pc[u] /\ rec'[u] = rec[u]
            BY <1>1, <2>1 DEF TypeOK
        <3>2. pc'[w] = "found" /\ rec'[w].id = maincounter + 1 /\ ~rec'[w].upsert
            BY <1>1, <2>1 DEF TypeOK
        <3>3. \A u \in Workers : u # w /\ Inserts(u) => rec[u].id < maincounter + 1
            BY DEF TypeOK, InsertsAreNew, Inserts, Recs, Ids
        <3>4. \A u \in Workers : Inserts(u)' => rec'[u].id <= maincounter'
            BY <3>1, <3>2, <3>3, <2>1 DEF TypeOK, Inserts, Recs, Ids, InsertsAreNew
        <3> QED BY <1>1, <3>1, <3>2, <3>3, <3>4 DEF InsertsAreNew, Inserts, TypeOK
    <2> QED BY <1>2, <2>3, <2>4, <2>5
<1> QED BY <1>3, <1>4

\* AddRecord lets an insertion through only when no record has its id.
LEMMA AddRecordIInv ==
    ASSUME IInv, NEW w \in Workers, AddRecord(w)
    PROVE  IInv'
<1> USE DEF IInv, AddRecord, table
<1>1. SecondaryKeysSound' /\ RowsAreIndexed'
    BY DEF SecondaryKeysSound, RowsAreIndexed
<1>2. TypeOK'
    BY DEF TypeOK
<1>3. UpdatesKeepKey'
    BY DEF TypeOK, UpdatesKeepKey
<1>4. InsertsAreNew'
    BY DEF TypeOK, InsertsAreNew, Inserts, Refused
<1> QED BY <1>1, <1>2, <1>3, <1>4

\* Commit of an update: the record keeps its key, and the secondary rows stay.
LEMMA CommitUpdateIInv ==
    ASSUME IInv, NEW w \in Workers, Commit(w), rec[w].upsert
    PROVE  IInv'
<1> USE DEF IInv
<1> DEFINE r == rec[w]
<1>1. /\ pc[w] = "commit" /\ r \in Recs
      /\ r.id \in DOMAIN rows /\ rows[r.id].key = r.key
    BY DEF Commit, TypeOK, UpdatesKeepKey
<1>2. /\ rows' = Put(rows, r.id, [key |-> r.key, val |-> r.val])
      /\ UNCHANGED <<uniq, index, maincounter>>
      /\ pc' = [pc EXCEPT ![w] = "idle"] /\ rec' = [rec EXCEPT ![w] = NoRec]
    BY DEF Commit
<1>3. /\ DOMAIN rows' = DOMAIN rows
      /\ \A i \in DOMAIN rows : rows'[i].key = rows[i].key
      /\ \A i \in DOMAIN rows : rows'[i] \in [key : Keys, val : Vals]
    <2>1. r.key \in Keys /\ r.val \in Vals
        BY <1>1 DEF Recs
    <2>2. /\ DOMAIN rows' = DOMAIN rows
          /\ rows'[r.id] = [key |-> r.key, val |-> r.val]
          /\ \A i \in DOMAIN rows : i # r.id => rows'[i] = rows[i]
        BY <1>1, <1>2 DEF Put
    <2> QED BY <1>1, <2>1, <2>2 DEF TypeOK
<1>4. \A u \in Workers : pc'[u] # "idle" => u # w /\ pc'[u] = pc[u] /\ rec'[u] = rec[u]
    BY <1>2 DEF TypeOK
<1>5. TypeOK'
    BY <1>2, <1>3 DEF TypeOK
<1>6. SecondaryKeysSound' /\ RowsAreIndexed'
    BY <1>2, <1>3 DEF SecondaryKeysSound, RowsAreIndexed
<1>7. UpdatesKeepKey' /\ InsertsAreNew'
    BY <1>2, <1>3, <1>4 DEF UpdatesKeepKey, InsertsAreNew, Inserts
<1> QED BY <1>5, <1>6, <1>7

\* Commit of an insertion: the id is new, so that no record is overwritten, and
\* the secondary rows of the new record lead to it.
LEMMA CommitInsertIInv ==
    ASSUME IInv, NEW w \in Workers, Commit(w), ~rec[w].upsert
    PROVE  IInv'
<1> USE DEF IInv
<1> DEFINE r == rec[w]
<1>1. /\ pc[w] = "commit" /\ r \in Recs /\ Inserts(w)
      /\ r.id \notin DOMAIN rows
    BY DEF Commit, TypeOK, InsertsAreNew, Inserts
<1>2. /\ rows' = Put(rows, r.id, [key |-> r.key, val |-> r.val])
      /\ uniq' = Put(uniq, r.key, r.id)
      /\ index' = index \cup {<<r.key, r.id>>}
      /\ UNCHANGED maincounter
      /\ pc' = [pc EXCEPT ![w] = "idle"] /\ rec' = [rec EXCEPT ![w] = NoRec]
    BY DEF Commit
<1>3. /\ DOMAIN rows' = DOMAIN rows \cup {r.id}
      /\ rows'[r.id] = [key |-> r.key, val |-> r.val]
      /\ \A i \in DOMAIN rows : i # r.id /\ rows'[i] = rows[i]
    BY <1>1, <1>2 DEF Put
<1>4. /\ DOMAIN uniq' = DOMAIN uniq \cup {r.key}
      /\ uniq'[r.key] = r.id
      /\ \A k \in DOMAIN uniq : k # r.key => uniq'[k] = uniq[k]
    BY <1>2 DEF Put
<1>5. \A u \in Workers : pc'[u] # "idle" => u # w /\ pc'[u] = pc[u] /\ rec'[u] = rec[u]
    BY <1>2 DEF TypeOK
<1>6. TypeOK'
    <2>1. r.id \in Ids /\ r.key \in Keys /\ r.val \in Vals
        BY <1>1 DEF Recs
    <2>2. /\ DOMAIN rows' \subseteq Ids
          /\ \A i \in DOMAIN rows' : rows'[i] \in [key : Keys, val : Vals]
        BY <2>1, <1>3 DEF TypeOK
    <2>3. DOMAIN uniq' \subseteq Keys /\ \A k \in DOMAIN uniq' : uniq'[k] \in Ids
        BY <2>1, <1>4 DEF TypeOK
    <2>4. index' \subseteq Keys \X Ids
        BY <2>1, <1>2 DEF TypeOK
    <2>5. /\ pc' \in [Workers -> {"idle", "found", "commit"}]
          /\ rec' \in [Workers -> {NoRec} \cup Recs]
          /\ \A u \in Workers : pc'[u] # "idle" => rec'[u] \in Recs
        BY <1>2, <1>5 DEF TypeOK
    <2> QED BY <1>2, <2>2, <2>3, <2>4, <2>5 DEF TypeOK
<1>7. SecondaryKeysSound'
    <2>1. \A k \in DOMAIN uniq' : uniq'[k] \in DOMAIN rows' /\ rows'[uniq'[k]].key = k
        BY <1>3, <1>4 DEF SecondaryKeysSound
    <2>2. \A e \in index' : e[2] \in DOMAIN rows' /\ rows'[e[2]].key = e[1]
        BY <1>2, <1>3 DEF SecondaryKeysSound
    <2> QED BY <2>1, <2>2 DEF SecondaryKeysSound
<1>8. RowsAreIndexed'
    BY <1>2, <1>3, <1>4 DEF RowsAreIndexed
<1>9. UpdatesKeepKey'
    BY <1>3, <1>5 DEF UpdatesKeepKey
<1>10. InsertsAreNew'
    <2>1. \A u \in Workers : Inserts(u)' => u # w /\ Inserts(u) /\ rec[u].id # r.id
        BY <1>1, <1>5 DEF Inserts, InsertsAreNew
    <2> QED BY <1>2, <1>3, <1>5, <2>1 DEF InsertsAreNew, Inserts
<1> QED BY <1>6, <1>7, <1>8, <1>9, <1>10

\* A crash or a change of role ends all requests; the tables stay.
LEMMA AbandonIInv ==
    ASSUME IInv, Restart \/ Promote
    PROVE  IInv'
<1> USE DEF IInv
<1>1. /\ UNCHANGED <<rows, uniq, index>>
      /\ pc' = [u \in Workers |-> "idle"] /\ rec' = [u \in Workers |-> NoRec]
    BY DEF Restart, Promote, Abandon, table
<1>2. LastKey(rows) \in 1 .. MaxId
    <2>1. MaxId \in Nat \ {0}
        BY StoreTableAssumption
    <2>2. \A i \in DOMAIN rows : i \in Nat /\ 2 <= i /\ i <= MaxId
        BY <2>1 DEF TypeOK, Ids
    <2>3. /\ LastKey(rows) \in Nat \ {0}
          /\ LastKey(rows) = 1 \/ LastKey(rows) \in DOMAIN rows
        BY <2>1, <2>2, LastKeyIsLast
    <2> QED BY <2>1, <2>2, <2>3
<1>3. maincounter' \in 1 .. MaxId
    BY <1>2, StoreTableAssumption DEF Restart, Promote
<1>4. TypeOK'
    BY <1>1, <1>3 DEF TypeOK
<1>5. SecondaryKeysSound' /\ RowsAreIndexed'
    BY <1>1 DEF SecondaryKeysSound, RowsAreIndexed
<1>6. UpdatesKeepKey' /\ InsertsAreNew'
    BY <1>1 DEF UpdatesKeepKey, InsertsAreNew, Inserts
<1> QED BY <1>4, <1>5, <1>6

\* Every step keeps the invariant.
LEMMA NextIInv == IInv /\ [Next]_vars => IInv'
<1> SUFFICES ASSUME IInv, [Next]_vars PROVE IInv'
    OBVIOUS
<1>1. CASE UNCHANGED vars
    BY <1>1 DEF vars, IInv, TypeOK, UpdatesKeepKey, InsertsAreNew, Inserts,
       SecondaryKeysSound, RowsAreIndexed
<1>2. CASE \E w \in Workers, k \in Keys, v \in Vals : Find(w, k, v)
    BY <1>2, FindIInv
<1>3. CASE \E w \in Workers : AddRecord(w)
    BY <1>3, AddRecordIInv
<1>4. CASE \E w \in Workers : Commit(w)
    BY <1>4, CommitUpdateIInv, CommitInsertIInv
<1>5. CASE Restart \/ Promote
    BY <1>5, AbandonIInv
<1> QED BY <1>1, <1>2, <1>3, <1>4, <1>5 DEF Next

\* IInv is an invariant of overlapping requests, crashes and promotions.
THEOREM Invariance == Spec => []IInv
BY InitIInv, NextIInv, PTL DEF Spec

\* Every variable keeps its type, through crashes and promotions.
THEOREM TypeCorrect == Spec => []TypeOK
<1>1. IInv => TypeOK
    BY DEF IInv
<1> QED BY <1>1, Invariance, PTL

\* The unique and index rows that AddRecord writes never lead to a missing record
\* or to one with another key, also when ids are handed out twice because the
\* counter of a promoted slave lags.
THEOREM SecondaryKeysAreSound == Spec => []SecondaryKeysSound
<1>1. IInv => SecondaryKeysSound
    BY DEF IInv
<1> QED BY <1>1, Invariance, PTL

\* Every record can be found through the index and its key through the unique
\* key, which Commit writes with the record.
THEOREM RowsStayIndexed == Spec => []RowsAreIndexed
<1>1. IInv => RowsAreIndexed
    BY DEF IInv
<1> QED BY <1>1, Invariance, PTL

===============================================================================
