------------------------------ MODULE MailProofs ------------------------------
(***************************************************************************)
(* Proofs about Mail, for any number of requests and mails and through     *)
(* crashes of the server: no mail is overwritten, deleted unsent or passed *)
(* by the cursor.                                                          *)
(***************************************************************************)
EXTENDS Mail, TLAPS, NaturalsInduction, WellFoundedInduction, FiniteSetTheorems

\* The counter an instance starts from is at least 1, covers every id of its
\* log and, when there is one, is the id of a record (StoreLevel::Initialize).
LEMMA LastKeyIsLast ==
    ASSUME NEW log, NEW c \in Nat,
           \A i \in DOMAIN log : i \in Nat /\ 2 <= i /\ i <= c
    PROVE  /\ LastKey(log) \in Nat \ {0}
           /\ \A i \in DOMAIN log : i <= LastKey(log)
           /\ LastKey(log) = 1 \/ LastKey(log) \in DOMAIN log
<1>1. CASE DOMAIN log = {}
    BY <1>1 DEF LastKey
<1>2. CASE DOMAIN log # {}
    <2> DEFINE R == OpToRel(<, Nat)
               T == {c - i : i \in DOMAIN log}
    <2>1. \A i \in DOMAIN log : c - i \in Nat
        OBVIOUS
    <2>2. PICK x \in T : \A y \in T : <<y, x>> \notin R
        <3>1. IsWellFoundedOn(R, Nat) /\ T \subseteq Nat /\ T # {}
            BY <1>2, <2>1, NatLessThanWellFounded
        <3> HIDE DEF R, T
        <3> QED BY <3>1, WFMin
    <2>3. PICK m \in DOMAIN log : x = c - m
        OBVIOUS
    <2>4. ASSUME NEW i \in DOMAIN log PROVE i <= m
        <3>1. ~(c - i < c - m) /\ c - i \in Nat /\ c - m \in Nat
            BY <2>1, <2>2, <2>3 DEF OpToRel
        <3> QED BY <3>1
    <2> QED BY <1>2, <2>4 DEF LastKey
<1> QED BY <1>1, <1>2

LEMMA InitIInv == Init => IInv
BY FS_EmptySet, MailAssumption DEF Init, EmptyLog, IInv, IdsAreNew, HeldIsSent

\* A request takes the next id, which nobody has.
LEMMA TakeIdIInv == ASSUME IInv, NEW w \in Workers, TakeId(w) PROVE IInv'
<1> USE DEF IInv, TakeId
<1>1. maincounter' = maincounter + 1 /\ maincounter \in Nat /\ BaseId \in Nat \ {0}
    BY MailAssumption DEF IdsAreNew
<1>2. /\ taken'[w] = maincounter + 1
      /\ \A v \in Workers : v # w => taken'[v] = taken[v]
      /\ DOMAIN taken' = Workers
    BY DEF IdsAreNew
<1>3. maincounter + 1 \notin DOMAIN mails /\ \A v \in Workers : taken[v] # maincounter + 1
    BY <1>1 DEF IdsAreNew
<1>4. ASSUME NEW v \in Workers, taken'[v] # 0
      PROVE  /\ taken'[v] \in Nat /\ 2 <= taken'[v] /\ taken'[v] <= maincounter'
             /\ taken'[v] \notin DOMAIN mails
             /\ \A u \in Workers \ {v} : taken'[u] # taken'[v]
    <2>1. CASE v = w
        BY <1>1, <1>2, <1>3, <2>1 DEF IdsAreNew
    <2>2. CASE v # w
        BY <1>1, <1>2, <1>3, <1>4, <2>2 DEF IdsAreNew
    <2> QED BY <2>1, <2>2
<1>5. IdsAreNew'
    BY <1>1, <1>2, <1>4 DEF IdsAreNew
<1>6. HeldIsSent'
    BY DEF HeldIsSent, reader
<1> QED BY <1>5, <1>6

LEMMA CommitMailIInv == ASSUME IInv, NEW w \in Workers, CommitMail(w) PROVE IInv'
<1> USE DEF IInv, CommitMail
<1>1. /\ DOMAIN mails' = DOMAIN mails \cup {taken[w]}
      /\ taken[w] \in Nat /\ 2 <= taken[w] /\ taken[w] <= maincounter
      /\ IsFiniteSet(DOMAIN mails')
    BY FS_AddElement DEF IdsAreNew, Put
<1>2. IdsAreNew'
    BY <1>1 DEF IdsAreNew
<1>3. HeldIsSent'
    BY DEF HeldIsSent, reader
<1> QED BY <1>2, <1>3

\* After a restart ids go on from the last one that is left.
LEMMA RestartIInv == ASSUME IInv, Restart PROVE IInv'
<1> USE DEF IInv, Restart
<1>1. /\ LastKey(mails) \in Nat
      /\ \A i \in DOMAIN mails : i <= LastKey(mails)
    BY LastKeyIsLast DEF IdsAreNew
<1>2. BaseId \in Nat /\ maincounter' \in Nat /\ BaseId <= maincounter'
      /\ \A i \in DOMAIN mails : i <= maincounter'
    BY <1>1, MailAssumption DEF IdsAreNew
<1>3. IdsAreNew'
    BY <1>2 DEF IdsAreNew
<1>4. HeldIsSent'
    BY DEF HeldIsSent, reader
<1> QED BY <1>3, <1>4

\* A program that asks only takes mails out of the table.
LEMMA RemainingIInv ==
    ASSUME IInv, NEW ids, mails' = Remaining(mails, ids), UNCHANGED <<maincounter, taken>>
    PROVE  IdsAreNew'
<1>1. DOMAIN mails' \subseteq DOMAIN mails
    BY DEF Remaining, Pick
<1>2. IsFiniteSet(DOMAIN mails')
    BY <1>1, FS_Subset DEF IInv, IdsAreNew
<1> QED BY <1>1, <1>2 DEF IInv, IdsAreNew

\* What a scan finds are rows after the id, up to its last one without a gap.
LEMMA ScanTableIsNext ==
    ASSUME NEW rows, IsFiniteSet(DOMAIN rows), NEW c \in Nat, NEW after \in Nat,
           \A i \in DOMAIN rows : i \in Nat /\ 2 <= i /\ i <= c,
           ScanTable(rows, after) # EmptyLog
    PROVE  /\ LastKey(ScanTable(rows, after)) \in Nat
           /\ \A i \in DOMAIN rows :
                i > after => \/ i > LastKey(ScanTable(rows, after))
                             \/ i \in DOMAIN ScanTable(rows, after)
<1> DEFINE all == {i \in DOMAIN rows : i > after}
           F == {i \in all : Limit = 0 \/ Cardinality({j \in all : j <= i}) <= Limit}
           found == ScanTable(rows, after)
           m == LastKey(found)
<1>1. DOMAIN found = F
    BY DEF ScanTable, Pick
<1>2. F # {}
    <2> SUFFICES ASSUME F = {} PROVE FALSE
        OBVIOUS
    <2>1. found = [i \in F |-> rows[i]]
        BY DEF ScanTable, Pick
    <2>2. [i \in {} |-> rows[i]] = [i \in {} |-> 0]
        OBVIOUS
    <2> HIDE DEF F, found
    <2>3. found = EmptyLog
        BY <2>1, <2>2 DEF EmptyLog
    <2> QED BY <2>3 DEF found
<1> HIDE DEF found
<1>3. m \in Nat /\ (\A i \in F : i <= m) /\ m \in F
    <2>1. \A i \in DOMAIN found : i \in Nat /\ 2 <= i /\ i <= c
        BY <1>1
    <2>2. /\ LastKey(found) \in Nat \ {0}
          /\ \A i \in DOMAIN found : i <= LastKey(found)
          /\ LastKey(found) = 1 \/ LastKey(found) \in DOMAIN found
        BY <2>1, LastKeyIsLast
    <2> HIDE DEF F
    <2>3. PICK i \in F : TRUE
        BY <1>2
    <2>4. m # 1
        BY <1>1, <2>1, <2>2, <2>3
    <2> QED BY <1>1, <2>2, <2>4
<1> HIDE DEF m
<1>4. ASSUME NEW i \in all, i <= m PROVE i \in F
    <2>1. {j \in all : j <= i} \subseteq {j \in all : j <= m}
        BY <1>3, <1>4
    <2>2. IsFiniteSet({j \in all : j <= m})
        BY FS_Subset
    <2>3. /\ Cardinality({j \in all : j <= i}) <= Cardinality({j \in all : j <= m})
          /\ Cardinality({j \in all : j <= i}) \in Nat
          /\ Cardinality({j \in all : j <= m}) \in Nat
        BY <2>1, <2>2, FS_Subset, FS_CardinalityType
    <2> QED BY <1>3, <2>3, MailAssumption
<1>5. ASSUME NEW i \in DOMAIN rows, i > after PROVE i > m \/ i \in F
    BY <1>3, <1>4, <1>5
<1> QED BY <1>1, <1>3, <1>5 DEF m, found

LEMMA PollIInv == ASSUME IInv, Poll PROVE IInv'
<1> DEFINE rest  == Remaining(mails, DOMAIN payload)
           found == ScanTable(rest, lastid)
<1>1. /\ mails' = rest /\ payload' = found /\ done' = (found = EmptyLog)
      /\ lastid' = IF found = EmptyLog THEN lastid ELSE LastKey(found)
      /\ UNCHANGED <<maincounter, taken, made, sent>>
    BY DEF Poll
<1>2. IdsAreNew'
    BY <1>1, RemainingIInv
<1>3. found # EmptyLog => LastKey(found) \in Nat
    BY <1>1, <1>2, ScanTableIsNext DEF IdsAreNew, IInv, HeldIsSent
<1> HIDE DEF found
<1>4. HeldIsSent'
    BY <1>1, <1>3 DEF IInv, HeldIsSent, EmptyLog
<1> QED BY <1>2, <1>4 DEF IInv

LEMMA NextIInv == IInv /\ [Next]_vars => IInv'
<1> SUFFICES ASSUME IInv, [Next]_vars PROVE IInv'
    OBVIOUS
<1>1. CASE UNCHANGED vars
    BY <1>1 DEF vars, reader, IInv, IdsAreNew, HeldIsSent
<1>2. CASE PollLost
    BY <1>2, RemainingIInv DEF PollLost, reader, IInv, HeldIsSent
<1>3. CASE Deliver
    <2>1. IdsAreNew'
        BY <1>3 DEF Deliver, IInv, IdsAreNew
    <2>2. HeldIsSent'
        BY <1>3 DEF Deliver, SendAll, IInv, HeldIsSent
    <2> QED BY <2>1, <2>2 DEF IInv
<1>4. CASE GetMail
    <2>1. sent \subseteq sent' /\ UNCHANGED <<mails, maincounter, taken, made, reader>>
        BY <1>4 DEF GetMail, SendAll
    <2> QED BY <2>1 DEF reader, IInv, IdsAreNew, HeldIsSent
<1> QED BY <1>1, <1>2, <1>3, <1>4, TakeIdIInv, CommitMailIInv, RestartIInv, PollIInv DEF Next

LEMMA Invariance == Spec => []IInv
BY InitIInv, NextIInv, PTL DEF Spec

-------------------------------------------------------------------------------
\* A mail in the table is not overwritten by another, although ids are handed out
\* again after a restart (GetNext, StoreLevel::Initialize).
THEOREM MailsStay == Spec => MailNotOverwritten
<1> DEFINE Kept == \A i \in (DOMAIN mails) \cap (DOMAIN mails') : mails'[i] = mails[i]
<1>1. IInv /\ [Next]_vars => [Kept]_vars
    <2> SUFFICES ASSUME IInv, Next PROVE Kept
        OBVIOUS
    <2>1. ASSUME NEW w \in Workers, CommitMail(w) PROVE Kept
        BY <2>1 DEF CommitMail, Put, IInv, IdsAreNew
    <2>2. CASE Poll \/ PollLost
        BY <2>2 DEF Poll, PollLost, Remaining, Pick
    <2> QED BY <2>1, <2>2 DEF Next, TakeId, Restart, Deliver, GetMail
<1>2. Spec => [][Kept]_vars
    BY <1>1, Invariance, PTL DEF Spec
<1> QED BY <1>2 DEF MailNotOverwritten

\* PendingAction deletes a mail only when the reader has sent it, or one that had
\* its id before.
THEOREM DeletedIsDone == Spec => DeletedIsSent
<1> DEFINE Done == \A i \in DOMAIN mails \ DOMAIN mails' :
                     \/ mails[i] \in sent
                     \/ i \in DOMAIN payload /\ payload[i] # mails[i] /\ payload[i] \in sent
<1>1. IInv /\ [Next]_vars => [Done]_vars
    <2> SUFFICES ASSUME IInv, Next PROVE Done
        OBVIOUS
    <2>1. CASE Poll \/ PollLost
        <3>1. done /\ mails' = Remaining(mails, DOMAIN payload)
            BY <2>1 DEF Poll, PollLost
        <3>2. \A i \in DOMAIN mails \ DOMAIN mails' : i \in DOMAIN payload
            BY <3>1 DEF Remaining, Pick
        <3> QED BY <3>1, <3>2 DEF IInv, HeldIsSent
    <2> QED BY <2>1 DEF Next, TakeId, CommitMail, Put, Restart, Deliver, GetMail
<1>2. Spec => [][Done]_vars
    BY <1>1, Invariance, PTL DEF Spec
<1> QED BY <1>2 DEF DeletedIsSent

\* A scan from the reader's cursor passes no mail (ParAvionTable::ScanTable).
THEOREM CursorIsExact == Spec => CursorSkipsNothing
<1> DEFINE Seen == \A i \in DOMAIN mails \cap DOMAIN mails' :
                     i > lastid => i > lastid' \/ i \in DOMAIN payload'
<1>1. IInv /\ [Next]_vars => [Seen]_vars
    <2> SUFFICES ASSUME IInv, Next PROVE Seen
        OBVIOUS
    <2>1. CASE Poll
        <3> DEFINE found == ScanTable(mails', lastid)
        <3>1. /\ payload' = found
              /\ lastid' = IF found = EmptyLog THEN lastid ELSE LastKey(found)
            BY <2>1 DEF Poll
        <3>2. /\ IsFiniteSet(DOMAIN mails') /\ maincounter' \in Nat
              /\ \A i \in DOMAIN mails' : i \in Nat /\ 2 <= i /\ i <= maincounter'
            BY <2>1, PollIInv DEF IInv, IdsAreNew
        <3>3. lastid \in Nat
            BY DEF IInv, HeldIsSent
        <3>4. found # EmptyLog => \A i \in DOMAIN mails' :
                 i > lastid => i > LastKey(found) \/ i \in DOMAIN found
            BY <3>2, <3>3, ScanTableIsNext
        <3> HIDE DEF found
        <3> QED BY <3>1, <3>4
    <2> QED BY <2>1 DEF Next, TakeId, CommitMail, Restart, PollLost, Deliver, GetMail, reader
<1>2. Spec => [][Seen]_vars
    BY <1>1, Invariance, PTL DEF Spec
<1> QED BY <1>2 DEF CursorSkipsNothing

===============================================================================
