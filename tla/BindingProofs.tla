---------------------------- MODULE BindingProofs ----------------------------
(***************************************************************************)
(* Proofs about Binding, for any number of request threads, addresses and  *)
(* Matrix ids: overlapping binds never let a local and a global            *)
(* association come apart, and invites wait for a bind.  With one request  *)
(* thread, what a request reads still holds when it writes, so that every  *)
(* invite to a bound address is sent and the two lookups agree.            *)
(***************************************************************************)
EXTENDS Binding, TLAPS, NaturalsInduction, WellFoundedInduction, FiniteSetTheorems

\* A non-empty set of numbers has a smallest element.
LEMMA SetHasMin ==
    ASSUME NEW S, S \subseteq Nat, S # {}
    PROVE  \E m \in S : \A i \in S : m <= i
<1> DEFINE R == OpToRel(<, Nat)
<1>1. PICK m \in S : \A i \in S : ~ (<<i, m>> \in R)
    <2>1. IsWellFoundedOn(R, Nat)
        BY NatLessThanWellFounded
    <2> HIDE DEF R
    <2> QED BY <2>1, WFMin
<1>2. \A i \in S : ~(i < m)
    BY <1>1 DEF OpToRel
<1> QED BY <1>2

\* Empty tables, and no request under way.
LEMMA InitIInv == Init => IInv
<1> SUFFICES ASSUME Init PROVE IInv
    OBVIOUS
<1> USE DEF Init, EmptyLog
<1>1. TypeOK
    BY DEF TypeOK
<1>2. IdsBelowCounter /\ PairedOneToOne /\ InvitesWaitForBind
    BY DEF IdsBelowCounter, PairedOneToOne, InvitesWaitForBind
<1>3. BindsApart /\ RequestsReady
    BY DEF BindsApart, RequestsReady, Binds
<1> QED BY <1>1, <1>2, <1>3 DEF IInv

\* What a step of one request does to the others.
LEMMA StepOfOne ==
    ASSUME IInv, NEW w \in Workers, NEW next, NEW o, Step(w, next, o)
    PROVE  /\ pc'[w] = next /\ op'[w] = o
           /\ DOMAIN pc' = Workers /\ DOMAIN op' = Workers
           /\ \A v \in Workers : v # w => pc'[v] = pc[v] /\ op'[v] = op[v]
BY DEF IInv, RequestsReady, Step

\* A bind finds the pair of the address, or takes two new ids.
LEMMA BindFindAssocsIInv ==
    ASSUME IInv, UNCHANGED pool,
           NEW w \in Workers, NEW a \in Addrs, NEW m \in Mxids, BindFindAssocs(w, a, m)
    PROVE  IInv'
<1> USE DEF IInv
<1> DEFINE o == [addr |-> a, mxid |-> m, lid |-> ulocal[a], gid |-> uglobal[ulocal[a]]]
           n == [addr |-> a, mxid |-> m, lid |-> maincounter + 1, gid |-> maincounter + 2]
<1>1. /\ pc[w] = "idle"
      /\ UNCHANGED <<local, ulocal, global, uglobal, invites, notified, cache>>
      /\ maincounter \in Nat \ {0} /\ maincounter' \in Nat \ {0} /\ maincounter <= maincounter'
    BY DEF BindFindAssocs, assocs, IdsBelowCounter
<1>2. TypeOK' /\ PairedOneToOne' /\ InvitesWaitForBind'
    BY <1>1 DEF TypeOK, PairedOneToOne, InvitesWaitForBind
<1>3. IdsBelowCounter'
    BY <1>1 DEF IdsBelowCounter
<1>4. CASE a \in DOMAIN ulocal /\ Step(w, "invites", o) /\ UNCHANGED maincounter
    <2>1. /\ pc'[w] = "invites" /\ op'[w] = o
          /\ DOMAIN pc' = Workers /\ DOMAIN op' = Workers
          /\ \A v \in Workers : v # w => pc'[v] = pc[v] /\ op'[v] = op[v]
        BY <1>4, StepOfOne
    <2>2. /\ o.lid \in DOMAIN local /\ o.gid = uglobal[o.lid] /\ o.gid \in DOMAIN global
          /\ o.addr \in DOMAIN ulocal
        BY <1>4 DEF TypeOK, PairedOneToOne
    <2>3. /\ o.lid \in 1 .. MaxId /\ o.gid \in 1 .. MaxId
          /\ o.lid <= maincounter /\ o.gid <= maincounter
        BY <2>2 DEF TypeOK, IdsBelowCounter
    <2> HIDE DEF o
    <2>4. o.addr \in Addrs /\ o.mxid \in Mxids
        BY DEF o
    <2>5. BindsApart'
        BY <1>1, <1>4, <2>1, <2>2, <2>3, <2>4 DEF BindsApart, Binds
    <2>6. RequestsReady'
        BY <1>1, <1>4, <2>1 DEF RequestsReady
    <2> QED BY <1>2, <1>3, <2>5, <2>6
<1>5. CASE /\ a \notin DOMAIN ulocal /\ maincounter + 2 <= MaxId
           /\ maincounter' = maincounter + 2 /\ Step(w, "invites", n)
    <2>1. /\ pc'[w] = "invites" /\ op'[w] = n
          /\ DOMAIN pc' = Workers /\ DOMAIN op' = Workers
          /\ \A v \in Workers : v # w => pc'[v] = pc[v] /\ op'[v] = op[v]
        BY <1>5, StepOfOne
    <2>2. /\ n.lid \in 1 .. MaxId /\ n.gid \in 1 .. MaxId
          /\ n.lid <= maincounter' /\ n.gid <= maincounter'
          /\ n.lid \notin DOMAIN local /\ n.gid \notin DOMAIN global
        BY <1>1, <1>5, BindingAssumption DEF IdsBelowCounter
    <2>3. \A v \in Workers : Binds(v) =>
             /\ op[v].lid # n.lid /\ op[v].gid # n.gid
             /\ op[v].lid <= maincounter' /\ op[v].gid <= maincounter'
        <3> SUFFICES ASSUME NEW v \in Workers, Binds(v)
                     PROVE  /\ op[v].lid # n.lid /\ op[v].gid # n.gid
                            /\ op[v].lid <= maincounter' /\ op[v].gid <= maincounter'
            OBVIOUS
        <3>1. /\ op[v].lid \in Nat /\ op[v].gid \in Nat
              /\ op[v].lid <= maincounter /\ op[v].gid <= maincounter
            BY DEF BindsApart
        <3> QED BY <1>1, <1>5, <3>1
    <2> HIDE DEF n
    <2>4. n.addr \in Addrs /\ n.mxid \in Mxids
        BY DEF n
    <2>5. BindsApart'
        BY <1>1, <1>5, <2>1, <2>2, <2>3, <2>4 DEF BindsApart, Binds
    <2>6. RequestsReady'
        <3>1. \A v \in Workers : pc[v] = "invite" => op[v].id <= maincounter'
            BY <1>1 DEF RequestsReady
        <3> QED BY <1>1, <2>1, <3>1 DEF RequestsReady
    <2> QED BY <1>2, <1>3, <2>5, <2>6
<1> QED BY <1>4, <1>5 DEF BindFindAssocs

\* It finds the invites of its address; the first of them is the least id.
LEMMA BindFindInvitesIInv ==
    ASSUME IInv, UNCHANGED pool, NEW w \in Workers, BindFindInvites(w)
    PROVE  IInv'
<1> USE DEF IInv
<1> DEFINE found == ScanIndex(invites, op[w].addr)
           first == IF found = {} THEN {} ELSE {CHOOSE i \in found : \A j \in found : i <= j}
           o == [addr |-> op[w].addr, mxid |-> op[w].mxid, lid |-> op[w].lid,
                 gid |-> op[w].gid, stamped |-> found, first |-> first]
<1>1. /\ pc[w] = "invites" /\ Step(w, "commit", o)
      /\ UNCHANGED <<local, ulocal, global, uglobal, invites, notified, cache, maincounter>>
    BY DEF BindFindInvites, assocs
<1>2. first \subseteq found
    <2>1. found \subseteq Nat
        BY DEF ScanIndex, IdsBelowCounter
    <2> HIDE DEF found
    <2>2. found # {} => \E i \in found : \A j \in found : i <= j
        BY <2>1, SetHasMin
    <2> QED BY <2>2
<1>3. \A i \in found : i \in DOMAIN invites /\ invites[i].addr \in Begins[op[w].addr]
    BY DEF ScanIndex
<1>4. /\ o.addr = op[w].addr /\ o.mxid = op[w].mxid /\ o.lid = op[w].lid
      /\ o.gid = op[w].gid /\ o.stamped = found /\ o.first = first
    OBVIOUS
<1> HIDE DEF o, found, first
<1>5. /\ pc'[w] = "commit" /\ op'[w] = o
      /\ DOMAIN pc' = Workers /\ DOMAIN op' = Workers
      /\ \A v \in Workers : v # w => pc'[v] = pc[v] /\ op'[v] = op[v]
    BY <1>1, StepOfOne
<1>6. TypeOK' /\ PairedOneToOne' /\ InvitesWaitForBind' /\ IdsBelowCounter'
    BY <1>1 DEF TypeOK, PairedOneToOne, InvitesWaitForBind, IdsBelowCounter
<1>7. BindsApart'
    BY <1>1, <1>4, <1>5 DEF BindsApart, Binds
<1>8. RequestsReady'
    BY <1>1, <1>2, <1>3, <1>4, <1>5 DEF RequestsReady
<1> QED BY <1>6, <1>7, <1>8

\* The commit writes both associations of the pair, old or new.
LEMMA CommitBindIInv ==
    ASSUME IInv, UNCHANGED pool, NEW w \in Workers, CommitBind(w)
    PROVE  IInv'
<1> USE DEF IInv
<1> DEFINE o == op[w]
           assoc == [addr |-> o.addr, mxid |-> o.mxid]
           done == [addr |-> o.addr, mxid |-> o.mxid, isNew |-> o.lid \notin DOMAIN local]
<1>1. /\ pc[w] = "commit"
      /\ local' = Put(local, o.lid, assoc)
      /\ global' = Put(global, o.gid, assoc)
      /\ ulocal' = IF o.lid \in DOMAIN local THEN ulocal ELSE Put(ulocal, o.addr, o.lid)
      /\ uglobal' = Put(uglobal, o.lid, o.gid)
      /\ invites' = [i \in DOMAIN invites |-> [invites[i] EXCEPT
                       !.sent = @ \/ i \in o.stamped]]
      /\ notified' = notified \cup {<<i, o.mxid>> : i \in o.first}
      /\ Step(w, "cache", done)
      /\ UNCHANGED <<cache, maincounter>>
    BY DEF CommitBind
<1>2. /\ pc'[w] = "cache" /\ op'[w] = done
      /\ DOMAIN pc' = Workers /\ DOMAIN op' = Workers
      /\ \A v \in Workers : v # w => pc'[v] = pc[v] /\ op'[v] = op[v]
    BY <1>1, StepOfOne
<1>3. /\ o.addr \in Addrs /\ o.mxid \in Mxids /\ assoc \in Assocs
      /\ o.lid \in 1 .. MaxId /\ o.gid \in 1 .. MaxId
      /\ o.lid <= maincounter /\ o.gid <= maincounter
      /\ \/ /\ o.lid \in DOMAIN local /\ uglobal[o.lid] = o.gid
            /\ o.addr \in DOMAIN ulocal
         \/ /\ o.lid \notin DOMAIN local /\ o.gid \notin DOMAIN global
            /\ \A v \in Workers : v # w /\ Binds(v) =>
                  op[v].lid # o.lid /\ op[v].gid # o.gid
    BY <1>1 DEF BindsApart, Binds, Assocs
<1>4. /\ o.first \subseteq o.stamped
      /\ \A i \in o.stamped : i \in DOMAIN invites /\ invites[i].addr \in Begins[o.addr]
    BY <1>1 DEF RequestsReady
<1> HIDE DEF o, assoc, done
<1>5. /\ DOMAIN local' = DOMAIN local \cup {o.lid} /\ local'[o.lid] = assoc
      /\ DOMAIN global' = DOMAIN global \cup {o.gid} /\ global'[o.gid] = assoc
      /\ DOMAIN uglobal' = DOMAIN uglobal \cup {o.lid} /\ uglobal'[o.lid] = o.gid
      /\ \A i \in DOMAIN local : i # o.lid => local'[i] = local[i]
      /\ \A i \in DOMAIN uglobal : i # o.lid => uglobal'[i] = uglobal[i]
      /\ \A g \in DOMAIN global : g # o.gid => global'[g] = global[g]
    BY <1>1 DEF Put
<1>6. /\ DOMAIN ulocal \subseteq DOMAIN ulocal' /\ o.addr \in DOMAIN ulocal'
      /\ \A a \in DOMAIN ulocal' : ulocal'[a] \in DOMAIN local'
    BY <1>1, <1>3, <1>5 DEF Put, TypeOK
<1>7. /\ DOMAIN invites' = DOMAIN invites
      /\ \A i \in DOMAIN invites : /\ invites'[i] \in [addr : Addrs, sent : BOOLEAN]
                                   /\ invites'[i].addr = invites[i].addr
                                   /\ invites'[i].sent => invites[i].sent \/ i \in o.stamped
    BY <1>1 DEF TypeOK
<1>8. DOMAIN uglobal = DOMAIN local
    BY DEF TypeOK
<1>9. TypeOK'
    <2>1. notified' \subseteq (DOMAIN invites') \X Mxids
        BY <1>1, <1>3, <1>4, <1>7 DEF TypeOK
    <2>2. \A a \in DOMAIN cache' : a \in DOMAIN ulocal' /\ cache'[a] \in Mxids
        BY <1>1, <1>6 DEF TypeOK
    <2>3. \A i \in DOMAIN local' : local'[i] \in Assocs
        BY <1>3, <1>5 DEF TypeOK
    <2>4. \A g \in DOMAIN global' : global'[g] \in Assocs
        BY <1>3, <1>5 DEF TypeOK
    <2>5. Assocs' = Assocs
        BY DEF Assocs
    <2> QED BY <1>3, <1>5, <1>6, <1>7, <1>8, <2>1, <2>2, <2>3, <2>4, <2>5 DEF TypeOK
<1>10. IdsBelowCounter'
    BY <1>1, <1>3, <1>5, <1>7 DEF IdsBelowCounter
<1>11. PairedOneToOne'
    <2>1. CASE o.lid \in DOMAIN local /\ uglobal[o.lid] = o.gid
        <3>1. /\ DOMAIN local' = DOMAIN local /\ DOMAIN uglobal' = DOMAIN uglobal
              /\ \A i \in DOMAIN uglobal : uglobal'[i] = uglobal[i]
              /\ DOMAIN global' = DOMAIN global
            BY <1>5, <1>8, <2>1 DEF PairedOneToOne
        <3>2. \A i \in DOMAIN local : i # o.lid => uglobal[i] # o.gid
            BY <1>8, <2>1 DEF PairedOneToOne
        <3> QED BY <1>5, <1>8, <2>1, <3>1, <3>2 DEF PairedOneToOne
    <2>2. CASE o.lid \notin DOMAIN local /\ o.gid \notin DOMAIN global
        <3>1. \A i \in DOMAIN local : uglobal[i] # o.gid
            BY <2>2 DEF PairedOneToOne
        <3>2. \A i, j \in DOMAIN uglobal' : uglobal'[i] = uglobal'[j] => i = j
            BY <1>5, <1>8, <2>2, <3>1 DEF PairedOneToOne
        <3>3. \A g \in DOMAIN global' : \E i \in DOMAIN uglobal' : uglobal'[i] = g
            BY <1>5, <1>8, <2>2 DEF PairedOneToOne
        <3>4. \A i \in DOMAIN local' : uglobal'[i] \in DOMAIN global'
                                       /\ global'[uglobal'[i]] = local'[i]
            BY <1>5, <1>8, <2>2, <3>1 DEF PairedOneToOne
        <3> QED BY <3>2, <3>3, <3>4 DEF PairedOneToOne
    <2> QED BY <1>3, <2>1, <2>2
<1>12. BindsApart'
    <2> SUFFICES ASSUME NEW v \in Workers, Binds(v)'
                 PROVE  /\ op'[v].addr \in Addrs /\ op'[v].mxid \in Mxids
                        /\ op'[v].lid \in 1 .. MaxId /\ op'[v].gid \in 1 .. MaxId
                        /\ op'[v].lid <= maincounter' /\ op'[v].gid <= maincounter'
                        /\ \/ /\ op'[v].lid \in DOMAIN local'
                              /\ uglobal'[op'[v].lid] = op'[v].gid
                              /\ op'[v].addr \in DOMAIN ulocal'
                           \/ /\ op'[v].lid \notin DOMAIN local'
                              /\ op'[v].gid \notin DOMAIN global'
                              /\ \A u \in Workers : u # v /\ Binds(u)' =>
                                    op'[u].lid # op'[v].lid /\ op'[u].gid # op'[v].gid
        BY DEF BindsApart
    <2>1. v # w /\ Binds(v) /\ op'[v] = op[v]
        BY <1>2 DEF Binds
    <2>2. \A u \in Workers : Binds(u)' => u # w /\ Binds(u) /\ op'[u] = op[u]
        BY <1>2 DEF Binds
    <2>3. Binds(w) /\ o = op[w]
        BY <1>1 DEF Binds, o
    <2>4. CASE op[v].lid \in DOMAIN local
        <3>1. uglobal[op[v].lid] = op[v].gid /\ op[v].addr \in DOMAIN ulocal
            BY <2>1, <2>4 DEF BindsApart
        <3>2. op[v].lid \in DOMAIN local' /\ uglobal'[op[v].lid] = op[v].gid
            BY <1>3, <1>5, <1>8, <2>4, <3>1
        <3> QED BY <1>1, <1>6, <2>1, <3>1, <3>2 DEF BindsApart
    <2>5. CASE op[v].lid \notin DOMAIN local
        <3>1. /\ op[v].gid \notin DOMAIN global
              /\ \A u \in Workers : u # v /\ Binds(u) =>
                    op[u].lid # op[v].lid /\ op[u].gid # op[v].gid
            BY <2>1, <2>5 DEF BindsApart
        <3>2. op[v].lid \notin DOMAIN local' /\ op[v].gid \notin DOMAIN global'
            BY <1>5, <2>1, <2>3, <2>5, <3>1
        <3> QED BY <1>1, <2>1, <2>2, <3>1, <3>2 DEF BindsApart
    <2> QED BY <2>4, <2>5
<1>13. RequestsReady'
    <2>1. done.addr = o.addr /\ done.mxid = o.mxid
        BY DEF done
    <2>2. \A v \in Workers : v # w => pc'[v] = pc[v] /\ op'[v] = op[v]
        BY <1>2
    <2> QED BY <1>1, <1>2, <1>3, <1>6, <1>7, <2>1, <2>2 DEF RequestsReady
<1>14. InvitesWaitForBind'
    <2> SUFFICES ASSUME NEW i \in DOMAIN invites,
                        invites'[i].sent \/ \E n \in notified' : n[1] = i
                 PROVE  \E a \in DOMAIN ulocal' : invites[i].addr \in Begins[a]
        BY <1>7 DEF InvitesWaitForBind
    <2>1. CASE i \in o.stamped
        BY <1>4, <1>6, <2>1
    <2>2. CASE i \notin o.stamped
        <3>1. invites[i].sent \/ \E n \in notified : n[1] = i
            BY <1>1, <1>4, <1>7, <2>2
        <3> QED BY <1>6, <3>1 DEF InvitesWaitForBind
    <2> QED BY <2>1, <2>2
<1> QED BY <1>9, <1>10, <1>11, <1>12, <1>13, <1>14

\* The steps that change none of the tables a bind writes.
LEMMA AddToCacheIInv ==
    ASSUME IInv, UNCHANGED pool, NEW w \in Workers, AddToCache(w)
    PROVE  IInv'
<1> USE DEF IInv
<1>1. /\ pc[w] = "cache" /\ cache' \in {cache, Put(cache, op[w].addr, op[w].mxid)}
      /\ Step(w, "idle", NoOp)
      /\ UNCHANGED <<local, ulocal, global, uglobal, invites, notified, maincounter>>
    BY DEF AddToCache, assocs
<1>2. /\ pc'[w] = "idle" /\ DOMAIN pc' = Workers /\ DOMAIN op' = Workers
      /\ \A v \in Workers : v # w => pc'[v] = pc[v] /\ op'[v] = op[v]
    BY <1>1, StepOfOne
<1>3. \A a \in DOMAIN cache' : a \in DOMAIN ulocal /\ cache'[a] \in Mxids
    BY <1>1 DEF Put, TypeOK, RequestsReady
<1>4. TypeOK' /\ IdsBelowCounter' /\ PairedOneToOne' /\ InvitesWaitForBind'
    BY <1>1, <1>3 DEF TypeOK, IdsBelowCounter, PairedOneToOne, InvitesWaitForBind, Assocs
<1>5. BindsApart' /\ RequestsReady'
    BY <1>1, <1>2 DEF BindsApart, Binds, RequestsReady
<1> QED BY <1>4, <1>5

\* An invite takes an id that no invite has.
LEMMA StoreInviteIInv ==
    ASSUME IInv, UNCHANGED pool, NEW w \in Workers, NEW a \in Addrs, StoreInvite(w, a)
    PROVE  IInv'
<1> USE DEF IInv
<1> DEFINE o == [addr |-> a, id |-> maincounter + 1]
<1>1. /\ pc[w] = "idle" /\ maincounter' = maincounter + 1 /\ Step(w, "invite", o)
      /\ UNCHANGED <<local, ulocal, global, uglobal, invites, notified, cache>>
      /\ maincounter \in Nat
    BY DEF StoreInvite, assocs, IdsBelowCounter
<1>2. /\ pc'[w] = "invite" /\ op'[w] = o /\ DOMAIN pc' = Workers /\ DOMAIN op' = Workers
      /\ \A v \in Workers : v # w => pc'[v] = pc[v] /\ op'[v] = op[v]
    BY <1>1, StepOfOne
<1>3. TypeOK' /\ IdsBelowCounter' /\ PairedOneToOne' /\ InvitesWaitForBind'
    BY <1>1 DEF TypeOK, IdsBelowCounter, PairedOneToOne, InvitesWaitForBind, Assocs
<1>4. BindsApart'
    <2>1. \A v \in Workers : Binds(v) =>
            op[v].lid <= maincounter' /\ op[v].gid <= maincounter'
        BY <1>1 DEF BindsApart
    <2> QED BY <1>1, <1>2, <2>1 DEF BindsApart, Binds
<1>5. RequestsReady'
    <2>1. /\ o.addr \in Addrs /\ o.id \in Nat /\ o.id <= maincounter'
          /\ o.id \notin DOMAIN invites
        BY <1>1 DEF IdsBelowCounter
    <2>2. \A v \in Workers : pc[v] = "invite" => op[v].id # o.id /\ op[v].id <= maincounter'
        BY <1>1 DEF RequestsReady
    <2> HIDE DEF o
    <2> QED BY <1>1, <1>2, <2>1, <2>2 DEF RequestsReady
<1> QED BY <1>3, <1>4, <1>5

LEMMA CommitInviteIInv ==
    ASSUME IInv, UNCHANGED pool, NEW w \in Workers, CommitInvite(w)
    PROVE  IInv'
<1> USE DEF IInv
<1> DEFINE id == op[w].id
           rec == [addr |-> op[w].addr, sent |-> FALSE]
<1>1. /\ pc[w] = "invite" /\ invites' = Put(invites, id, rec)
      /\ Step(w, "idle", NoOp)
      /\ UNCHANGED <<local, ulocal, global, uglobal, notified, cache, maincounter>>
    BY DEF CommitInvite, assocs
<1>2. /\ pc'[w] = "idle" /\ DOMAIN pc' = Workers /\ DOMAIN op' = Workers
      /\ \A v \in Workers : v # w => pc'[v] = pc[v] /\ op'[v] = op[v]
    BY <1>1, StepOfOne
<1>3. /\ id \in Nat /\ id <= maincounter /\ id \notin DOMAIN invites
      /\ rec \in [addr : Addrs, sent : BOOLEAN] /\ rec.sent = FALSE
      /\ \A v \in Workers : v # w /\ pc[v] = "invite" => op[v].id # id
    BY <1>1 DEF RequestsReady
<1> HIDE DEF id, rec
<1>4. /\ DOMAIN invites' = DOMAIN invites \cup {id} /\ invites'[id] = rec
      /\ \A i \in DOMAIN invites : invites'[i] = invites[i]
    BY <1>1, <1>3 DEF Put
<1>5. \A n \in notified : n[1] \in DOMAIN invites
    BY DEF TypeOK
<1>6. TypeOK'
    <2>1. notified' \subseteq (DOMAIN invites') \X Mxids
        BY <1>1, <1>4 DEF TypeOK
    <2> QED BY <1>1, <1>3, <1>4, <2>1 DEF TypeOK, Assocs
<1>7. IdsBelowCounter' /\ PairedOneToOne'
    BY <1>1, <1>3, <1>4 DEF IdsBelowCounter, PairedOneToOne
<1>8. InvitesWaitForBind'
    BY <1>1, <1>3, <1>4, <1>5 DEF InvitesWaitForBind
<1>9. BindsApart'
    BY <1>1, <1>2 DEF BindsApart, Binds
<1>10. RequestsReady'
    BY <1>1, <1>2, <1>3, <1>4 DEF RequestsReady, id
<1> QED BY <1>6, <1>7, <1>8, <1>9, <1>10

\* IInv is inductive.
LEMMA NextIInv == IInv /\ [Next]_vars => IInv'
<1> SUFFICES ASSUME IInv, [Next]_vars PROVE IInv'
    OBVIOUS
<1>1. CASE UNCHANGED vars
    BY <1>1 DEF vars, IInv, TypeOK, IdsBelowCounter, PairedOneToOne, BindsApart, Binds,
                RequestsReady, InvitesWaitForBind, Assocs
<1>2. CASE Next
    <2>1. UNCHANGED pool /\ pool \subseteq Workers
        BY <1>2 DEF Next, IInv, TypeOK
    <2>2. PICK w \in Workers :
            \/ \E a \in Addrs : \/ \E m \in Mxids : BindFindAssocs(w, a, m)
                                \/ StoreInvite(w, a) \/ RefuseInvite(w, a)
            \/ BindFindInvites(w) \/ CommitBind(w) \/ AddToCache(w) \/ CommitInvite(w)
            \/ Lookup(w)
        BY <1>2, <2>1 DEF Next
    <2>3. CASE \E a \in Addrs : RefuseInvite(w, a)
        BY <1>1, <2>3 DEF RefuseInvite
    <2>4. CASE Lookup(w)
        BY <1>1, <2>4 DEF Lookup
    <2> QED BY <2>1, <2>2, <2>3, <2>4, BindFindAssocsIInv, StoreInviteIInv,
               BindFindInvitesIInv, CommitBindIInv, AddToCacheIInv, CommitInviteIInv
<1> QED BY <1>1, <1>2

LEMMA Invariance == Spec => []IInv
BY InitIInv, NextIInv, PTL DEF Spec

-------------------------------------------------------------------------------
\* The tables of associations and invites have their types, and unique keys lead to
\* records (Bind3pidAction, StoreInviteAction).
THEOREM TypeCorrect == Spec => []TypeOK
<1>1. IInv => TypeOK
    BY DEF IInv
<1> QED BY <1>1, Invariance, PTL

\* Overlapping binds never let a local association and its global one come apart:
\* Bind3pidAction writes both in one transaction, under ids that belong together.
THEOREM PairsStayTogether == Spec => []PairsAgree
<1>1. IInv => PairsAgree
    <2> SUFFICES ASSUME IInv, NEW g \in DOMAIN global
                 PROVE  Cardinality({i \in DOMAIN uglobal : uglobal[i] = g}) = 1
        BY DEF PairsAgree, IInv, PairedOneToOne
    <2>1. PICK i \in DOMAIN uglobal : uglobal[i] = g
        BY DEF IInv, PairedOneToOne
    <2>2. {j \in DOMAIN uglobal : uglobal[j] = g} = {i}
        BY <2>1 DEF IInv, PairedOneToOne
    <2> QED BY <2>2, FS_Singleton
<1> QED BY <1>1, Invariance, PTL

\* No invite is stamped sent, and none is in a notification, before its address or
\* one that it starts with is bound (InviteService, Bind3pidAction).
THEOREM InvitesAreHeldBack == Spec => []InvitesWaitForBind
<1>1. IInv => InvitesWaitForBind
    BY DEF IInv
<1> QED BY <1>1, Invariance, PTL

-------------------------------------------------------------------------------
(* A server with one request thread.                                       *)

\* The threads of such a server are one of the workers.
LEMMA AloneIsOne == IInv /\ Alone => \E w \in Workers : pool = {w}
<1> SUFFICES ASSUME IInv, Alone PROVE \E w \in Workers : pool = {w}
    OBVIOUS
<1>1. pool \subseteq Workers /\ IsFiniteSet(pool)
    BY FS_Subset, BindingAssumption DEF IInv, TypeOK
<1>2. \E w : pool = {w}
    BY <1>1, FS_Singleton DEF Alone
<1> QED BY <1>1, <1>2

\* A bound address is found by its own index entry.
LEMMA BoundIsFound ==
    ASSUME IInv, OneEach, NEW a \in DOMAIN ulocal, a \in Addrs
    PROVE  /\ uglobal[ulocal[a]] \in ScanIndex(global, a)
           /\ global[uglobal[ulocal[a]]] = local[ulocal[a]]
<1>1. ulocal[a] \in DOMAIN local /\ local[ulocal[a]].addr = a
    BY DEF IInv, TypeOK, OneEach
<1>2. /\ uglobal[ulocal[a]] \in DOMAIN global
      /\ global[uglobal[ulocal[a]]] = local[ulocal[a]]
    BY <1>1 DEF IInv, PairedOneToOne
<1> QED BY <1>1, <1>2, BindingAssumption DEF ScanIndex

\* The only request does not start, or ends, on what another one has changed.
LEMMA AloneReads ==
    ASSUME AloneInv, Alone, UNCHANGED <<pool, local, ulocal, cache, invites>>, IInv',
           NEW w \in Workers, pool = {w}, pc[w] # "cache", pc'[w] # "cache", StillHolds(w)',
           \A v \in Workers : v # w => pc'[v] = pc[v]
    PROVE  AloneInv'
<1>1. OneEach' /\ InvitesAreSent'
    BY DEF AloneInv, OneEach, InvitesAreSent
<1>2. CacheIsCurrent'
    BY DEF AloneInv, CacheIsCurrent
<1> QED BY <1>1, <1>2 DEF AloneInv

\* The pair of an address that is bound, or two new ids.
LEMMA BindFindAssocsAlone ==
    ASSUME AloneInv, Alone, IInv', UNCHANGED pool, NEW w \in Workers, pool = {w},
           NEW a \in Addrs, NEW m \in Mxids, BindFindAssocs(w, a, m)
    PROVE  AloneInv'
<1>1. IInv
    BY DEF AloneInv
<1> DEFINE o == [addr |-> a, mxid |-> m, lid |-> ulocal[a], gid |-> uglobal[ulocal[a]]]
           n == [addr |-> a, mxid |-> m, lid |-> maincounter + 1, gid |-> maincounter + 2]
<1>2. PICK e \in {o, n} :
        /\ Step(w, "invites", e) /\ e.addr = a
        /\ IF a \in DOMAIN ulocal THEN e = o ELSE e = n
    BY DEF BindFindAssocs
<1>3. /\ pc[w] = "idle"
      /\ UNCHANGED <<local, ulocal, cache, invites>>
    BY DEF BindFindAssocs, assocs
<1>4. maincounter + 1 \notin DOMAIN local
    BY <1>1 DEF IInv, IdsBelowCounter
<1>5. /\ pc'[w] = "invites" /\ op'[w] = e
      /\ \A v \in Workers : v # w => pc'[v] = pc[v]
    BY <1>1, <1>2, StepOfOne
<1>6. StillHolds(w)'
    BY <1>2, <1>3, <1>4, <1>5 DEF StillHolds, Binds
<1> QED BY <1>3, <1>5, <1>6, AloneReads

\* Nobody invites or binds between the scan and the commit.
LEMMA BindFindInvitesAlone ==
    ASSUME AloneInv, Alone, IInv', UNCHANGED pool, NEW w \in Workers, pool = {w},
           BindFindInvites(w)
    PROVE  AloneInv'
<1>1. IInv /\ StillHolds(w) /\ pc[w] = "invites"
    BY DEF AloneInv, BindFindInvites
<1>2. PICK e : /\ Step(w, "commit", e) /\ e.addr = op[w].addr /\ e.lid = op[w].lid
               /\ e.stamped = ScanIndex(invites, op[w].addr)
    BY DEF BindFindInvites
<1>3. UNCHANGED <<local, ulocal, cache, invites>>
    BY DEF BindFindInvites, assocs
<1>4. /\ pc'[w] = "commit" /\ op'[w] = e
      /\ \A v \in Workers : v # w => pc'[v] = pc[v]
    BY <1>1, <1>2, StepOfOne
<1>5. op[w].addr \in Addrs
    BY <1>1 DEF IInv, BindsApart, Binds
<1>6. \A i \in DOMAIN invites : invites[i].addr = op[w].addr => i \in e.stamped
    BY <1>2, <1>5, BindingAssumption DEF ScanIndex
<1>7. StillHolds(w)'
    BY <1>1, <1>2, <1>3, <1>4, <1>6 DEF StillHolds, Binds
<1> QED BY <1>1, <1>3, <1>4, <1>7, AloneReads

\* The commit binds the address to one record and stamps its invites with it.
LEMMA CommitBindAlone ==
    ASSUME AloneInv, Alone, IInv', UNCHANGED pool, NEW w \in Workers, pool = {w},
           CommitBind(w)
    PROVE  AloneInv'
<1>1. /\ IInv /\ StillHolds(w) /\ pc[w] = "commit"
      /\ OneEach /\ CacheIsCurrent /\ InvitesAreSent
    BY DEF AloneInv, CommitBind
<1>2. PICK a, m, lid : a = op[w].addr /\ m = op[w].mxid /\ lid = op[w].lid
    OBVIOUS
<1>3. /\ local' = Put(local, lid, [addr |-> a, mxid |-> m])
      /\ ulocal' = IF lid \in DOMAIN local THEN ulocal ELSE Put(ulocal, a, lid)
      /\ invites' = [i \in DOMAIN invites |-> [invites[i] EXCEPT
                       !.sent = @ \/ i \in op[w].stamped]]
      /\ Step(w, "cache", [addr |-> a, mxid |-> m, isNew |-> lid \notin DOMAIN local])
      /\ UNCHANGED cache
    BY <1>2 DEF CommitBind
<1>4. /\ pc'[w] = "cache" /\ op'[w].addr = a /\ op'[w].mxid = m
      /\ op'[w].isNew = (lid \notin DOMAIN local)
      /\ \A v \in Workers : v # w => pc'[v] = pc[v] /\ op'[v] = op[v]
    BY <1>1, <1>3, StepOfOne
<1>5. /\ DOMAIN local' = DOMAIN local \cup {lid} /\ local'[lid].addr = a /\ local'[lid].mxid = m
      /\ \A i \in DOMAIN local : i # lid => local'[i] = local[i]
    BY <1>3 DEF Put
<1>6. /\ DOMAIN ulocal' = DOMAIN ulocal \cup {a} /\ ulocal'[a] = lid
      /\ \A c \in DOMAIN ulocal : c # a => ulocal'[c] = ulocal[c] /\ ulocal[c] # lid
      /\ \A i \in DOMAIN local : i # lid => local[i].addr # a
    <2>1. \A c \in DOMAIN ulocal : ulocal[c] \in DOMAIN local /\ local[ulocal[c]].addr = c
        BY <1>1 DEF IInv, TypeOK, OneEach
    <2>2. CASE a \in DOMAIN ulocal
        <3>1. lid = ulocal[a] /\ lid \in DOMAIN local
            BY <1>1, <1>2, <2>1, <2>2 DEF StillHolds, Binds
        <3>2. ulocal' = ulocal
            BY <1>3, <3>1
        <3>3. \A c \in DOMAIN ulocal : c # a => ulocal[c] # lid
            BY <2>1, <2>2, <3>1
        <3>4. \A i \in DOMAIN local : i # lid => local[i].addr # a
            BY <1>1, <3>1 DEF OneEach
        <3>5. DOMAIN ulocal = DOMAIN ulocal \cup {a}
            BY <2>2
        <3> QED BY <3>1, <3>2, <3>3, <3>4, <3>5
    <2>3. CASE a \notin DOMAIN ulocal
        <3>1. lid \notin DOMAIN local
            BY <1>1, <1>2, <2>3 DEF StillHolds, Binds
        <3>2. ulocal' = Put(ulocal, a, lid)
            BY <1>3, <3>1
        <3>3. /\ DOMAIN ulocal' = DOMAIN ulocal \cup {a} /\ ulocal'[a] = lid
              /\ \A c \in DOMAIN ulocal : c # a => ulocal'[c] = ulocal[c]
            BY <3>2 DEF Put
        <3>4. \A c \in DOMAIN ulocal : ulocal[c] # lid
            BY <2>1, <3>1
        <3>5. \A i \in DOMAIN local : local[i].addr # a
            BY <1>1, <2>3 DEF OneEach
        <3> QED BY <3>3, <3>4, <3>5
    <2> QED BY <2>2, <2>3
<1>7. OneEach'
    <2>1. ASSUME NEW c \in DOMAIN ulocal' PROVE local'[ulocal'[c]].addr = c
        <3>1. CASE c = a
            BY <1>5, <1>6, <3>1
        <3>2. CASE c # a
            <4>1. c \in DOMAIN ulocal /\ ulocal'[c] = ulocal[c] /\ ulocal[c] # lid
                BY <1>6, <3>2
            <4>2. ulocal[c] \in DOMAIN local /\ local[ulocal[c]].addr = c
                BY <1>1, <4>1 DEF IInv, TypeOK, OneEach
            <4> QED BY <1>5, <4>1, <4>2
        <3> QED BY <3>1, <3>2
    <2>2. ASSUME NEW i \in DOMAIN local'
          PROVE  local'[i].addr \in DOMAIN ulocal' /\ ulocal'[local'[i].addr] = i
        <3>1. CASE i = lid
            BY <1>5, <1>6, <3>1
        <3>2. CASE i # lid
            <4>1. i \in DOMAIN local /\ local'[i] = local[i] /\ local[i].addr # a
                BY <1>5, <1>6, <3>2
            <4>2. local[i].addr \in DOMAIN ulocal /\ ulocal[local[i].addr] = i
                BY <1>1, <4>1 DEF OneEach
            <4> QED BY <1>6, <4>1, <4>2
        <3> QED BY <3>1, <3>2
    <2> QED BY <2>1, <2>2 DEF OneEach
<1>8. CacheIsCurrent'
    <2> SUFFICES ASSUME NEW c \in DOMAIN ulocal', c # a
                 PROVE  \/ c \in DOMAIN cache /\ cache[c] = local'[ulocal'[c]].mxid
                        \/ c \in Opaque \ DOMAIN cache
        BY <1>3, <1>4 DEF CacheIsCurrent
    <2>1. c \in DOMAIN ulocal /\ ulocal'[c] = ulocal[c] /\ ulocal[c] # lid
        BY <1>6
    <2>2. ulocal[c] \in DOMAIN local
        BY <1>1, <2>1 DEF IInv, TypeOK
    <2>3. \/ c \in DOMAIN cache /\ cache[c] = local[ulocal[c]].mxid
          \/ c \in Opaque \ DOMAIN cache
        BY <1>1, <2>1 DEF CacheIsCurrent
    <2> QED BY <1>5, <2>1, <2>2, <2>3
<1>9. InvitesAreSent'
    <2> SUFFICES ASSUME NEW i \in DOMAIN invites, invites'[i].addr \in DOMAIN ulocal'
                 PROVE  invites'[i].sent
        BY <1>3 DEF InvitesAreSent
    <2>1. invites[i] \in [addr : Addrs, sent : BOOLEAN]
        BY <1>1 DEF IInv, TypeOK
    <2>2. /\ invites'[i].addr = invites[i].addr
          /\ invites'[i].sent = (invites[i].sent \/ i \in op[w].stamped)
        BY <1>3, <2>1
    <2>3. CASE invites[i].addr = a
        BY <1>1, <1>2, <2>2, <2>3 DEF StillHolds
    <2>4. CASE invites[i].addr # a
        BY <1>1, <1>6, <2>2, <2>4 DEF InvitesAreSent
    <2> QED BY <2>3, <2>4
<1>10. StillHolds(w)'
    <2>1. lid \notin DOMAIN local => a \notin DOMAIN cache
        BY <1>1, <1>2 DEF StillHolds, Binds, IInv, TypeOK
    <2>2. op'[w].isNew => a \notin DOMAIN cache'
        BY <1>3, <1>4, <2>1
    <2> QED BY <1>4, <1>5, <1>6, <2>2 DEF StillHolds, Binds
<1> QED BY <1>4, <1>7, <1>8, <1>9, <1>10 DEF AloneInv

\* The cache gets what was committed, or stays without it.
LEMMA AddToCacheAlone ==
    ASSUME AloneInv, Alone, IInv', UNCHANGED pool, NEW w \in Workers, pool = {w},
           AddToCache(w)
    PROVE  AloneInv'
<1>1. /\ IInv /\ StillHolds(w) /\ pc[w] = "cache"
      /\ OneEach /\ CacheIsCurrent /\ InvitesAreSent
    BY DEF AloneInv, AddToCache
<1>2. PICK a, m : a = op[w].addr /\ m = op[w].mxid
    OBVIOUS
<1>3. /\ \/ cache' = Put(cache, a, m)
         \/ cache' = cache /\ op[w].isNew /\ a \in Opaque
      /\ Step(w, "idle", NoOp)
      /\ UNCHANGED <<local, ulocal, invites>>
    BY <1>2 DEF AddToCache, Throws, assocs
<1>4. pc'[w] = "idle" /\ \A v \in Workers : v # w => pc'[v] = pc[v]
    BY <1>1, <1>3, StepOfOne
<1>5. m = local[ulocal[a]].mxid
    BY <1>1, <1>2 DEF StillHolds
<1>6. CacheIsCurrent'
    <2> SUFFICES ASSUME NEW c \in DOMAIN ulocal
                 PROVE  \/ c \in DOMAIN cache' /\ cache'[c] = local[ulocal[c]].mxid
                        \/ c \in Opaque \ DOMAIN cache'
        BY <1>3 DEF CacheIsCurrent
    <2>1. CASE c = a
        <3>1. op[w].isNew => a \notin DOMAIN cache
            BY <1>1, <1>2 DEF StillHolds
        <3> QED BY <1>3, <1>5, <2>1, <3>1 DEF Put
    <2>2. CASE c # a
        <3>1. \/ c \in DOMAIN cache /\ cache[c] = local[ulocal[c]].mxid
              \/ c \in Opaque \ DOMAIN cache
            BY <1>1, <1>2, <2>2 DEF CacheIsCurrent
        <3> QED BY <1>3, <2>2, <3>1 DEF Put
    <2> QED BY <2>1, <2>2
<1>7. OneEach' /\ InvitesAreSent'
    BY <1>1, <1>3 DEF OneEach, InvitesAreSent
<1>8. StillHolds(w)'
    BY <1>4 DEF StillHolds, Binds
<1> QED BY <1>4, <1>6, <1>7, <1>8 DEF AloneInv

\* An invite is taken only for an address without a binding,
LEMMA StoreInviteAlone ==
    ASSUME AloneInv, Alone, IInv', UNCHANGED pool, NEW w \in Workers, pool = {w},
           NEW a \in Addrs, StoreInvite(w, a)
    PROVE  AloneInv'
<1>1. IInv /\ pc[w] = "idle" /\ OneEach /\ ScanIndex(global, a) = {}
    BY DEF AloneInv, StoreInvite
<1>2. a \notin DOMAIN ulocal
    BY <1>1, BoundIsFound
<1>3. PICK e : Step(w, "invite", e) /\ e.addr = a
    BY DEF StoreInvite
<1>4. UNCHANGED <<local, ulocal, cache, invites>>
    BY DEF StoreInvite, assocs
<1>5. pc'[w] = "invite" /\ op'[w] = e /\ \A v \in Workers : v # w => pc'[v] = pc[v]
    BY <1>1, <1>3, StepOfOne
<1>6. StillHolds(w)'
    BY <1>2, <1>3, <1>4, <1>5 DEF StillHolds, Binds
<1> QED BY <1>1, <1>4, <1>5, <1>6, AloneReads

\* which is still without one when the invite is stored.
LEMMA CommitInviteAlone ==
    ASSUME AloneInv, Alone, IInv', UNCHANGED pool, NEW w \in Workers, pool = {w},
           CommitInvite(w)
    PROVE  AloneInv'
<1>1. /\ IInv /\ StillHolds(w) /\ pc[w] = "invite"
      /\ OneEach /\ CacheIsCurrent /\ InvitesAreSent
    BY DEF AloneInv, CommitInvite
<1>2. /\ invites' = Put(invites, op[w].id, [addr |-> op[w].addr, sent |-> FALSE])
      /\ Step(w, "idle", NoOp) /\ UNCHANGED <<local, ulocal, cache>>
    BY DEF CommitInvite, assocs
<1>3. pc'[w] = "idle" /\ \A v \in Workers : v # w => pc'[v] = pc[v]
    BY <1>1, <1>2, StepOfOne
<1>4. op[w].addr \notin DOMAIN ulocal
    BY <1>1 DEF StillHolds
<1>5. InvitesAreSent'
    BY <1>1, <1>2, <1>4 DEF InvitesAreSent, Put
<1>6. OneEach' /\ CacheIsCurrent'
    BY <1>1, <1>2, <1>3 DEF OneEach, CacheIsCurrent
<1>7. StillHolds(w)'
    BY <1>3 DEF StillHolds, Binds
<1> QED BY <1>3, <1>5, <1>6, <1>7 DEF AloneInv

\* Empty tables.
LEMMA InitAlone == Init => AloneInv
<1> SUFFICES ASSUME Init PROVE AloneInv
    OBVIOUS
<1>1. IInv
    BY InitIInv
<1>2. /\ DOMAIN local = {} /\ DOMAIN ulocal = {} /\ DOMAIN invites = {}
      /\ \A w \in Workers : pc[w] = "idle"
    BY DEF Init, EmptyLog
<1>3. pool \subseteq Workers
    BY DEF Init
<1>4. OneEach /\ CacheIsCurrent /\ InvitesAreSent
    BY <1>2 DEF OneEach, CacheIsCurrent, InvitesAreSent
<1>5. \A w \in pool : StillHolds(w)
    BY <1>2, <1>3 DEF StillHolds, Binds
<1> QED BY <1>1, <1>2, <1>4, <1>5 DEF AloneInv

\* AloneInv is inductive.
LEMMA NextAlone == AloneInv /\ [Next]_vars => AloneInv'
<1> SUFFICES ASSUME AloneInv, [Next]_vars PROVE AloneInv'
    OBVIOUS
<1>1. IInv /\ IInv'
    BY NextIInv DEF AloneInv
<1>2. ASSUME UNCHANGED vars PROVE AloneInv'
    <2>1. UNCHANGED <<pool, local, ulocal, invites, cache, pc, op>>
        BY <1>2 DEF vars
    <2>2. OneEach' <=> OneEach
        BY <2>1 DEF OneEach
    <2>3. CacheIsCurrent' <=> CacheIsCurrent
        BY <2>1 DEF CacheIsCurrent
    <2>4. InvitesAreSent' <=> InvitesAreSent
        BY <2>1 DEF InvitesAreSent
    <2>5. \A w \in pool : StillHolds(w)' <=> StillHolds(w)
        BY <2>1 DEF StillHolds, Binds
    <2> QED BY <1>1, <2>1, <2>2, <2>3, <2>4, <2>5 DEF AloneInv, Alone
<1>3. CASE Next
    <2>1. UNCHANGED pool /\ pool \subseteq Workers
        BY <1>1, <1>3 DEF Next, IInv, TypeOK
    <2>2. PICK w \in pool :
            \/ \E a \in Addrs : \/ \E m \in Mxids : BindFindAssocs(w, a, m)
                                \/ StoreInvite(w, a) \/ RefuseInvite(w, a)
            \/ BindFindInvites(w) \/ CommitBind(w) \/ AddToCache(w) \/ CommitInvite(w)
            \/ Lookup(w)
        BY <1>3 DEF Next
    <2>3. CASE Alone
        <3>1. pool = {w}
            BY <1>1, <2>2, <2>3, AloneIsOne
        <3>2. CASE UNCHANGED vars
            BY <1>2, <3>2
        <3>3. CASE \E a \in Addrs : \E m \in Mxids : BindFindAssocs(w, a, m)
            BY <1>1, <2>1, <2>3, <3>1, <3>3, BindFindAssocsAlone
        <3>4. CASE \E a \in Addrs : StoreInvite(w, a)
            BY <1>1, <2>1, <2>3, <3>1, <3>4, StoreInviteAlone
        <3>5. CASE BindFindInvites(w) \/ CommitBind(w)
            BY <1>1, <2>1, <2>3, <3>1, <3>5, BindFindInvitesAlone, CommitBindAlone
        <3>6. CASE AddToCache(w) \/ CommitInvite(w)
            BY <1>1, <2>1, <2>3, <3>1, <3>6, AddToCacheAlone, CommitInviteAlone
        <3> QED BY <2>2, <3>2, <3>3, <3>4, <3>5, <3>6 DEF RefuseInvite, Lookup
    <2>4. CASE ~Alone
        <3>1. \A v \in Workers : v # w => pc'[v] = pc[v]
            BY <1>1, <2>1, <2>2, StepOfOne
               DEF BindFindAssocs, StoreInvite, RefuseInvite, BindFindInvites, CommitBind,
                   AddToCache, CommitInvite, Lookup, vars
        <3> QED BY <1>1, <2>1, <2>2, <2>4, <3>1 DEF AloneInv, Alone
    <2> QED BY <2>3, <2>4
<1> QED BY <1>2, <1>3

\* The invariant of one request thread holds in every state.
LEMMA AloneInvariance == Spec => []AloneInv
BY InitAlone, NextAlone, PTL DEF Spec

\* With one request thread every invite to a bound address has been sent: it came
\* before the bind, which stamps it, or was refused (StoreInviteAction).
THEOREM InvitesAreDelivered == Spec => []InviteDelivered
<1>1. AloneInv => InviteDelivered
    BY DEF AloneInv, InviteDelivered, InvitesAreSent
<1> QED BY <1>1, AloneInvariance, PTL

\* With one request thread the lookup in the cache and the lookup in the table of
\* global associations (LookupAction) answer with the last bind, except that the
\* global one may find the association of an address that starts with this one,
\* and the local one may miss that of an opaque address.
THEOREM BothLookupsAgree == Spec => []LookupsAgree
<1>1. ASSUME AloneInv, Alone, Quiet, NEW a \in Addrs
      PROVE  /\ LookupGlobal(a) = Bound(a) \/ (Begins[a] # {a} /\ LookupGlobal(a) # {})
             /\ LookupLocal(a) = Bound(a) \/ (a \in Opaque /\ LookupLocal(a) = {})
    <2>1. IInv /\ OneEach /\ CacheIsCurrent
        BY <1>1 DEF AloneInv
    <2>2. pool \subseteq Workers /\ \A w \in Workers : pc[w] = "idle"
        BY <1>1, <2>1 DEF Quiet, IInv, TypeOK
    <2>3. CASE a \notin DOMAIN ulocal
        <3>1. LookupLocal(a) = {} /\ Bound(a) = {}
            BY <2>1, <2>3 DEF LookupLocal, Bound, IInv, TypeOK
        <3>2. ASSUME Begins[a] = {a}, NEW g \in ScanIndex(global, a) PROVE FALSE
            <4>1. g \in DOMAIN global /\ global[g].addr = a
                BY <3>2 DEF ScanIndex
            <4>2. PICK i \in DOMAIN local : uglobal[i] = g
                BY <2>1, <4>1 DEF IInv, PairedOneToOne, TypeOK
            <4>3. local[i].addr = a
                BY <2>1, <4>1, <4>2 DEF IInv, PairedOneToOne
            <4> QED BY <2>1, <2>3, <4>2, <4>3 DEF OneEach
        <3> QED BY <3>1, <3>2 DEF LookupGlobal
    <2>4. CASE a \in DOMAIN ulocal
        <3> DEFINE g == uglobal[ulocal[a]]
        <3>1. g \in ScanIndex(global, a) /\ global[g] = local[ulocal[a]]
            BY <2>1, <2>4, BoundIsFound
        <3>2. \/ a \in DOMAIN cache /\ cache[a] = local[ulocal[a]].mxid
              \/ a \in Opaque \ DOMAIN cache
            BY <2>1, <2>2, <2>4 DEF CacheIsCurrent
        <3>3. local[ulocal[a]] \in Assocs /\ local[ulocal[a]].addr = a
            BY <2>1, <2>4 DEF IInv, TypeOK, OneEach
        <3>4. ASSUME Begins[a] = {a} PROVE LookupGlobal(a) = {global[g]}
            <4>1. ASSUME NEW h \in ScanIndex(global, a) PROVE h = g
                <5>1. h \in DOMAIN global /\ global[h].addr = a
                    BY <3>4 DEF ScanIndex
                <5>2. PICK i \in DOMAIN local : uglobal[i] = h
                    BY <2>1, <5>1 DEF IInv, PairedOneToOne, TypeOK
                <5>3. local[i].addr = a
                    BY <2>1, <5>1, <5>2 DEF IInv, PairedOneToOne
                <5>4. ulocal[a] = i
                    BY <2>1, <5>2, <5>3 DEF OneEach
                <5> QED BY <5>2, <5>4
            <4>2. ScanIndex(global, a) = {g}
                BY <3>1, <4>1
            <4>3. g \in Nat
                BY <2>1, <3>1 DEF ScanIndex, IInv, IdsBelowCounter
            <4> HIDE DEF g
            <4>4. FirstInIndex(global, a) = g
                BY <4>2, <4>3 DEF FirstInIndex
            <4> QED BY <4>2, <4>4 DEF LookupGlobal
        <3>5. Bound(a) = {local[ulocal[a]]}
            BY <2>4 DEF Bound
        <3>6. LookupLocal(a) = Bound(a) \/ (a \in Opaque /\ LookupLocal(a) = {})
            BY <3>2, <3>3, <3>5 DEF LookupLocal, Assocs
        <3>7. LookupGlobal(a) # {}
            BY <3>1 DEF LookupGlobal
        <3> HIDE DEF g
        <3> QED BY <3>1, <3>4, <3>5, <3>6, <3>7
    <2> QED BY <2>3, <2>4
<1>2. AloneInv => LookupsAgree
    BY <1>1 DEF LookupsAgree
<1> QED BY <1>2, AloneInvariance, PTL

===============================================================================
