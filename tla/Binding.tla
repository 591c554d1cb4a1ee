-------------------------------- MODULE Binding --------------------------------
(***************************************************************************)
(* Binding a validated address to a Matrix id (ThreePidService), inviting  *)
(* an address that is not bound yet (InviteService) and looking addresses  *)
(* up (LookupService).  A request reads the tables one after the other and *)
(* commits one transaction; then the cache of local associations is        *)
(* updated.  Other requests come in between.                               *)
(*                                                                         *)
(* An index scan finds every entry that starts with the key it is given,   *)
(* and the key does not end in a separator: the entries of longer          *)
(* addresses with the same beginning are found too.  An address stands for *)
(* medium and address.  Ephemeral keys, signatures and the ids of mails    *)
(* are left out.                                                           *)
(***************************************************************************)
EXTENDS TransLog, Naturals, FiniteSets

CONSTANTS
    Workers,   \* request threads
    Addrs,     \* (medium, address)
    Mxids,     \* Matrix ids
    Begins,    \* Begins[a]: the addresses that start with a, a among them
    Rank,      \* Rank[a]: the place of a's entries in the order of the index
    Opaque,    \* those whose unique key has the length of a primary key and is
               \* no number: telephone numbers of nine digits
    MaxId      \* bound on the ids handed out

ASSUME BindingAssumption ==
    /\ \A a \in Addrs : a \in Begins[a] /\ Begins[a] \subseteq Addrs /\ Rank[a] \in Nat
    /\ Opaque \subseteq Addrs /\ IsFiniteSet(Workers) /\ MaxId \in Nat

VARIABLES
    pool,        \* the threads of the server (LIBASYNC_NUM_THREADS)
    local,       \* LocalAssoc: id -> [addr, mxid]
    ulocal,      \* its unique key: addr -> id
    global,      \* GlobalAssoc: id -> [addr, mxid]
    uglobal,     \* its unique key: origin_id, the id of a LocalAssoc -> id
    invites,     \* InviteToken: id -> [addr, sent]
    notified,    \* ParAvion, bind notifications: {<<id of the invite, mxid>>}
    cache,       \* StoreCache: addr -> mxid
    maincounter, \* the ids of associations and invites
    pc,          \* per worker: idle, invites, commit, cache, invite
    op           \* per worker: its request and what it has read so far

vars == <<pool, local, ulocal, global, uglobal, invites, notified, cache, maincounter, pc, op>>
assocs == <<local, ulocal, global, uglobal>>

NoOp == [addr |-> "none"]

Init ==
    /\ pool \in SUBSET Workers \ {{}}
    /\ local = EmptyLog /\ ulocal = EmptyLog
    /\ global = EmptyLog /\ uglobal = EmptyLog
    /\ invites = EmptyLog /\ notified = {} /\ cache = EmptyLog
    /\ maincounter = 1
    /\ pc = [w \in Workers |-> "idle"]
    /\ op = [w \in Workers |-> NoOp]

Step(w, next, o) ==
    /\ pc' = [pc EXCEPT ![w] = next]
    /\ op' = [op EXCEPT ![w] = o]

\* GetMany through the index on the address: the ids of the records whose index
\* entry starts with a.
ScanIndex(rows, a) == {i \in DOMAIN rows : rows[i].addr \in Begins[a]}

\* The first of them in the order of the index, GetMany with a limit of 1.
FirstInIndex(rows, a) ==
    CHOOSE i \in ScanIndex(rows, a) :
      \A j \in ScanIndex(rows, a) :
         \/ Rank[rows[i].addr] < Rank[rows[j].addr]
         \/ rows[i].addr = rows[j].addr /\ i <= j

-------------------------------------------------------------------------------
\* Bind3pidAction for a validated address: the local association of the address
\* and the global one of that local one, found or with new ids.
BindFindAssocs(w, a, m) ==
    /\ pc[w] = "idle"
    /\ \/ /\ a \in DOMAIN ulocal
          /\ Step(w, "invites", [addr |-> a, mxid |-> m, lid |-> ulocal[a],
                                 gid |-> uglobal[ulocal[a]]])
          /\ UNCHANGED maincounter
       \/ /\ a \notin DOMAIN ulocal
          /\ maincounter + 2 <= MaxId
          /\ maincounter' = maincounter + 2
          /\ Step(w, "invites", [addr |-> a, mxid |-> m, lid |-> maincounter + 1,
                                 gid |-> maincounter + 2])
    /\ UNCHANGED <<assocs, invites, notified, cache>>

\* Mutant of BindFindInvites: the invites of every address are found.
BindFindInvitesAll(w) ==
    /\ pc[w] = "invites"
    /\ LET o == op[w]
           found == DOMAIN invites
       IN  Step(w, "commit", [addr |-> o.addr, mxid |-> o.mxid, lid |-> o.lid,
                  gid |-> o.gid, stamped |-> found,
                  first |-> IF found = {} THEN {} ELSE {CHOOSE i \in found : \A j \in found : i <= j}])
    /\ UNCHANGED <<assocs, invites, notified, cache, maincounter>>

\* It fetches the invites of the address; all are stamped, and the first is put
\* into the notification: the others are taken for duplicates.
BindFindInvites(w) ==
    /\ pc[w] = "invites"
    /\ LET o == op[w]
           found == ScanIndex(invites, o.addr)
       IN  Step(w, "commit", [addr |-> o.addr, mxid |-> o.mxid, lid |-> o.lid,
                  gid |-> o.gid, stamped |-> found,
                  first |-> IF found = {} THEN {} ELSE {CHOOSE i \in found : \A j \in found : i <= j}])
    /\ UNCHANGED <<assocs, invites, notified, cache, maincounter>>

\* Mutants of CommitBind: the global association is written once and not updated;
\* the row of its unique key is left out.
CommitBindOnce(w) ==
    /\ pc[w] = "commit"
    /\ LET o == op[w]
           assoc == [addr |-> o.addr, mxid |-> o.mxid]
       IN  /\ local' = Put(local, o.lid, assoc)
           /\ global' = IF o.gid \in DOMAIN global THEN global ELSE Put(global, o.gid, assoc)
           /\ ulocal' = IF o.lid \in DOMAIN local THEN ulocal ELSE Put(ulocal, o.addr, o.lid)
           /\ uglobal' = Put(uglobal, o.lid, o.gid)
           /\ invites' = [i \in DOMAIN invites |-> [invites[i] EXCEPT
                            !.sent = @ \/ i \in o.stamped]]
           /\ notified' = notified \cup {<<i, o.mxid>> : i \in o.first}
           /\ Step(w, "cache", [addr |-> o.addr, mxid |-> o.mxid,
                                isNew |-> o.lid \notin DOMAIN local])
    /\ UNCHANGED <<cache, maincounter>>
CommitBindNoOrigin(w) ==
    /\ pc[w] = "commit"
    /\ LET o == op[w]
           assoc == [addr |-> o.addr, mxid |-> o.mxid]
       IN  /\ local' = Put(local, o.lid, assoc)
           /\ global' = Put(global, o.gid, assoc)
           /\ ulocal' = IF o.lid \in DOMAIN local THEN ulocal ELSE Put(ulocal, o.addr, o.lid)
           /\ invites' = [i \in DOMAIN invites |-> [invites[i] EXCEPT
                            !.sent = @ \/ i \in o.stamped]]
           /\ notified' = notified \cup {<<i, o.mxid>> : i \in o.first}
           /\ Step(w, "cache", [addr |-> o.addr, mxid |-> o.mxid,
                                isNew |-> o.lid \notin DOMAIN local])
    /\ UNCHANGED <<uglobal, cache, maincounter>>

\* It commits associations, stamped invites and the notification.
CommitBind(w) ==
    /\ pc[w] = "commit"
    /\ LET o == op[w]
           assoc == [addr |-> o.addr, mxid |-> o.mxid]
       IN  /\ local' = Put(local, o.lid, assoc)
           /\ global' = Put(global, o.gid, assoc)
           /\ ulocal' = IF o.lid \in DOMAIN local THEN ulocal ELSE Put(ulocal, o.addr, o.lid)
           /\ uglobal' = Put(uglobal, o.lid, o.gid)
           /\ invites' = [i \in DOMAIN invites |-> [invites[i] EXCEPT
                            !.sent = @ \/ i \in o.stamped]]
           /\ notified' = notified \cup {<<i, o.mxid>> : i \in o.first}
           /\ Step(w, "cache", [addr |-> o.addr, mxid |-> o.mxid,
                                isNew |-> o.lid \notin DOMAIN local])
    /\ UNCHANGED <<cache, maincounter>>

\* The transaction writes a unique key, as that of a first bind does, which
\* AddToCache takes for a primary key and cannot decode.
Throws(w) == op[w].isNew /\ op[w].addr \in Opaque

\* Mutant of AddToCache: an address that is in the cache stays as it is.
AddToCacheOnce(w) ==
    /\ pc[w] = "cache"
    /\ cache' = IF Throws(w) \/ op[w].addr \in DOMAIN cache THEN cache
                ELSE Put(cache, op[w].addr, op[w].mxid)
    /\ Step(w, "idle", NoOp)
    /\ UNCHANGED <<assocs, invites, notified, maincounter>>

\* AddToCache, at the end of StoreTrans::Commit.  The unique key precedes the
\* record in the transaction: when it throws, nothing has been cached, and the
\* rows stay written.
AddToCache(w) ==
    /\ pc[w] = "cache"
    /\ cache' = IF Throws(w) THEN cache ELSE Put(cache, op[w].addr, op[w].mxid)
    /\ Step(w, "idle", NoOp)
    /\ UNCHANGED <<assocs, invites, notified, maincounter>>

-------------------------------------------------------------------------------
\* Mutant of StoreInvite: bound addresses are not looked for.
StoreInviteAlways(w, a) ==
    /\ pc[w] = "idle"
    /\ maincounter < MaxId
    /\ maincounter' = maincounter + 1
    /\ Step(w, "invite", [addr |-> a, id |-> maincounter + 1])
    /\ UNCHANGED <<assocs, invites, notified, cache>>

\* StoreInviteAction goes on when no binding of the address is known; otherwise
\* it throws and nothing changes.
StoreInvite(w, a) ==
    /\ pc[w] = "idle"
    /\ ScanIndex(global, a) = {}
    /\ maincounter < MaxId
    /\ maincounter' = maincounter + 1
    /\ Step(w, "invite", [addr |-> a, id |-> maincounter + 1])
    /\ UNCHANGED <<assocs, invites, notified, cache>>

CommitInvite(w) ==
    /\ pc[w] = "invite"
    /\ invites' = Put(invites, op[w].id, [addr |-> op[w].addr, sent |-> FALSE])
    /\ Step(w, "idle", NoOp)
    /\ UNCHANGED <<assocs, notified, cache, maincounter>>

\* The same request for an address that is bound: it throws.
RefuseInvite(w, a) ==
    /\ pc[w] = "idle"
    /\ ScanIndex(global, a) # {}
    /\ UNCHANGED vars

-------------------------------------------------------------------------------
\* The associations LookupGlobal and LookupLocal find for a, at most one.
LookupGlobal(a) ==
    IF ScanIndex(global, a) = {} THEN {} ELSE {global[FirstInIndex(global, a)]}

LookupLocal(a) ==
    IF a \in DOMAIN cache THEN {[addr |-> a, mxid |-> cache[a]]} ELSE {}

\* LookupAction changes nothing.
Lookup(w) == pc[w] = "idle" /\ UNCHANGED vars

Next ==
    /\ UNCHANGED pool
    /\ \E w \in pool :
         \/ \E a \in Addrs : \/ \E m \in Mxids : BindFindAssocs(w, a, m)
                             \/ StoreInvite(w, a) \/ RefuseInvite(w, a)
         \/ BindFindInvites(w) \/ CommitBind(w) \/ AddToCache(w) \/ CommitInvite(w)
         \/ Lookup(w)

Spec == Init /\ [][Next]_vars

-------------------------------------------------------------------------------
Quiet == \A w \in Workers : pc[w] = "idle"
Assocs == [addr : Addrs, mxid : Mxids]

\* The types of the variables: unique keys name existing records.
TypeOK ==
    /\ pool \subseteq Workers
    /\ DOMAIN local \subseteq 1 .. MaxId /\ DOMAIN global \subseteq 1 .. MaxId
    /\ \A i \in DOMAIN local : local[i] \in Assocs
    /\ \A i \in DOMAIN global : global[i] \in Assocs
    /\ \A a \in DOMAIN ulocal : ulocal[a] \in DOMAIN local
    /\ DOMAIN uglobal = DOMAIN local
    /\ \A i \in DOMAIN invites : invites[i] \in [addr : Addrs, sent : BOOLEAN]
    /\ notified \subseteq (DOMAIN invites) \X Mxids
    /\ \A a \in DOMAIN cache : a \in DOMAIN ulocal /\ cache[a] \in Mxids

\* Every local association has its own global association with the same content,
\* and there are no others: overlapping binds update both or neither.
PairsAgree ==
    /\ \A i \in DOMAIN local : uglobal[i] \in DOMAIN global /\ global[uglobal[i]] = local[i]
    /\ \A g \in DOMAIN global : Cardinality({i \in DOMAIN uglobal : uglobal[i] = g}) = 1

\* An invite is stamped sent, and a notification made for it, only when its
\* address has been bound, or one that it starts with.
InvitesWaitForBind ==
    \A i \in DOMAIN invites :
       invites[i].sent \/ (\E n \in notified : n[1] = i)
         => \E a \in DOMAIN ulocal : invites[i].addr \in Begins[a]

\* A server with one request thread: requests do not overlap.
Alone == Cardinality(pool) = 1

\* The association of the last bind of a.
Bound(a) == IF a \in DOMAIN ulocal THEN {local[ulocal[a]]} ELSE {}

\* On such a server, when no request is under way, both lookups answer with the
\* last bind of an address, with two exceptions.  The global lookup of an address
\* that others start with may find another's association, though it does find
\* one; and the local lookup of an opaque address may miss the association, which
\* the cache does not get from the first bind, though it never gives an old one.
LookupsAgree ==
    Alone /\ Quiet => \A a \in Addrs :
        /\ LookupGlobal(a) = Bound(a) \/ (Begins[a] # {a} /\ LookupGlobal(a) # {})
        /\ LookupLocal(a) = Bound(a) \/ (a \in Opaque /\ LookupLocal(a) = {})

\* and every invite to a bound address has been sent: it came before the bind,
\* which stamps it, or was refused ("Binding already known").
InviteDelivered ==
    Alone /\ Quiet => \A i \in DOMAIN invites :
                        invites[i].addr \in DOMAIN ulocal => invites[i].sent

\* What makes these inductive.  Ids are handed out in order.
IdsBelowCounter ==
    /\ maincounter \in Nat \ {0}
    /\ \A i \in DOMAIN local \cup DOMAIN global \cup DOMAIN invites :
          i \in Nat /\ i <= maincounter

\* Which local association a global one belongs to is one to one.
PairedOneToOne ==
    /\ \A i, j \in DOMAIN uglobal : uglobal[i] = uglobal[j] => i = j
    /\ \A g \in DOMAIN global : \E i \in DOMAIN uglobal : uglobal[i] = g
    /\ \A i \in DOMAIN local : uglobal[i] \in DOMAIN global /\ global[uglobal[i]] = local[i]

Binds(w) == pc[w] \in {"invites", "commit"}

\* A bind under way has the pair of ids of an existing pair, or a pair of its own.
BindsApart ==
    \A w \in Workers : Binds(w) =>
        /\ op[w].addr \in Addrs /\ op[w].mxid \in Mxids
        /\ op[w].lid \in 1 .. MaxId /\ op[w].gid \in 1 .. MaxId
        /\ op[w].lid <= maincounter /\ op[w].gid <= maincounter
        /\ \/ /\ op[w].lid \in DOMAIN local /\ uglobal[op[w].lid] = op[w].gid
              /\ op[w].addr \in DOMAIN ulocal
           \/ /\ op[w].lid \notin DOMAIN local /\ op[w].gid \notin DOMAIN global
              /\ \A v \in Workers : v # w /\ Binds(v) =>
                    op[v].lid # op[w].lid /\ op[v].gid # op[w].gid

\* The other requests under way: what they are about to write is still right.
RequestsReady ==
    /\ DOMAIN pc = Workers /\ DOMAIN op = Workers
    /\ \A w \in Workers :
         /\ pc[w] = "commit" =>
              /\ op[w].first \subseteq op[w].stamped
              /\ \A i \in op[w].stamped :
                    i \in DOMAIN invites /\ invites[i].addr \in Begins[op[w].addr]
         /\ pc[w] = "cache" => op[w].addr \in DOMAIN ulocal /\ op[w].mxid \in Mxids
         /\ pc[w] = "invite" =>
              /\ op[w].addr \in Addrs
              /\ op[w].id \in Nat /\ op[w].id <= maincounter
              /\ op[w].id \notin DOMAIN invites
              /\ \A v \in Workers : v # w /\ pc[v] = "invite" => op[v].id # op[w].id

IInv ==
    /\ TypeOK /\ IdsBelowCounter /\ PairedOneToOne /\ BindsApart
    /\ RequestsReady /\ InvitesWaitForBind

\* And with one request thread: an address has one local association,
OneEach ==
    /\ \A a \in DOMAIN ulocal : local[ulocal[a]].addr = a
    /\ \A i \in DOMAIN local : local[i].addr \in DOMAIN ulocal /\ ulocal[local[i].addr] = i

\* which the cache has, or will have when the bind is over, unless that throws,
CacheIsCurrent ==
    \A a \in DOMAIN ulocal :
       \/ a \in DOMAIN cache /\ cache[a] = local[ulocal[a]].mxid
       \/ a \in Opaque \ DOMAIN cache
       \/ \E w \in pool : pc[w] = "cache" /\ op[w].addr = a

\* what a request has read still holds when it writes,
StillHolds(w) ==
    /\ Binds(w) => IF op[w].addr \in DOMAIN ulocal THEN op[w].lid = ulocal[op[w].addr]
                                                   ELSE op[w].lid \notin DOMAIN local
    /\ pc[w] = "commit" => \A i \in DOMAIN invites :
                             invites[i].addr = op[w].addr => i \in op[w].stamped
    /\ pc[w] = "cache" => /\ op[w].mxid = local[ulocal[op[w].addr]].mxid
                          /\ op[w].isNew => op[w].addr \notin DOMAIN cache
    /\ pc[w] = "invite" => op[w].addr \notin DOMAIN ulocal

\* and an invite to a bound address is stamped by the transaction that binds it.
InvitesAreSent ==
    \A i \in DOMAIN invites : invites[i].addr \in DOMAIN ulocal => invites[i].sent

AloneInv ==
    /\ IInv
    /\ \A w \in Workers \ pool : pc[w] = "idle"
    /\ Alone => /\ OneEach /\ CacheIsCurrent /\ InvitesAreSent
                /\ \A w \in pool : StillHolds(w)

===============================================================================
