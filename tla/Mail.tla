--------------------------------- MODULE Mail ---------------------------------
(***************************************************************************)
(* Outgoing mail.  Requests put mails into the table ParAvion; a program   *)
(* that sends them asks the endpoint getmailstosend                        *)
(* (MailSmsService::PendingAction) for those after the last id it has      *)
(* seen, and returns the ones that are done, to be deleted.                *)
(*                                                                         *)
(* Two programs ask.  GetMail is the one of the repository.  The reader is *)
(* external: it keeps the cursor and the mails it was given and returns    *)
(* them with its next request, as the endpoint's parameters intend.        *)
(*                                                                         *)
(* The mails are the ones sent again for an existing session, whose        *)
(* transaction takes one id.  Serial numbers tell mails apart; the code    *)
(* knows their ids only.                                                   *)
(***************************************************************************)
EXTENDS TransLog, FiniteSets

CONSTANTS
    Workers,  \* request threads
    Clients,  \* which programs ask: "reader", "getmail"
    MayCrash, \* whether the server may crash
    BaseId,   \* the last id in use in the other tables
    Limit,    \* limit of a request; 0 is no limit
    MaxMade   \* bound on the mails made

ASSUME MailAssumption ==
    /\ Clients \subseteq {"reader", "getmail"} /\ MayCrash \in BOOLEAN
    /\ BaseId \in Nat \ {0} /\ Limit \in Nat /\ MaxMade \in Nat

VARIABLES
    mails,       \* ParAvion: id -> serial
    maincounter, \* SharedTable::maincounter
    taken,       \* per worker: the id of the mail it is about to commit, or 0
    made,        \* the last serial
    lastid,      \* the reader's cursor
    payload,     \* the mails the reader was given last: id -> serial
    done,        \* whether it has sent them
    sent         \* serials of mails that were sent

vars == <<mails, maincounter, taken, made, lastid, payload, done, sent>>
reader == <<lastid, payload, done>>

Init ==
    /\ mails = EmptyLog /\ made = 0
    /\ maincounter = BaseId
    /\ taken = [w \in Workers |-> 0]
    /\ lastid = 0 /\ payload = EmptyLog /\ done = TRUE
    /\ sent = {}

\* GetNext, when the transaction is put together.
TakeId(w) ==
    /\ taken[w] = 0
    /\ made + Cardinality({v \in Workers : taken[v] # 0}) < MaxMade
    /\ maincounter' = maincounter + 1
    /\ taken' = [taken EXCEPT ![w] = maincounter + 1]
    /\ UNCHANGED <<mails, made, reader, sent>>

\* Commit.
CommitMail(w) ==
    /\ taken[w] # 0
    /\ mails' = Put(mails, taken[w], made + 1)
    /\ made' = made + 1
    /\ taken' = [taken EXCEPT ![w] = 0]
    /\ UNCHANGED <<maincounter, reader, sent>>

\* Crash and restart: the counter becomes the last id in any table.
Restart ==
    /\ MayCrash
    /\ maincounter' = IF LastKey(mails) > BaseId THEN LastKey(mails) ELSE BaseId
    /\ taken' = [w \in Workers |-> 0]
    /\ UNCHANGED <<mails, made, reader, sent>>

-------------------------------------------------------------------------------
Pick(rows, ids) == [i \in ids |-> rows[i]]

\* Mutant of ScanTable: the scan starts one too far.
ScanTableLate(rows, after) ==
    LET all == {i \in DOMAIN rows : i > after + 1}
    IN  Pick(rows, {i \in all : Limit = 0 \/ Cardinality({j \in all : j <= i}) <= Limit})

\* PendingAction's scan: the first mails after the id, at most Limit of them.
ScanTable(rows, after) ==
    LET all == {i \in DOMAIN rows : i > after}
    IN  Pick(rows, {i \in all : Limit = 0 \/ Cardinality({j \in all : j <= i}) <= Limit})

\* Mutant of Remaining: everything up to the last of them is deleted.
RemainingAfter(rows, ids) == Pick(rows, {i \in DOMAIN rows : \A j \in ids : i > j})

\* PendingAction's deletion of the mails that are returned.
Remaining(rows, ids) == Pick(rows, DOMAIN rows \ ids)

\* The reader asks, with the mails that it has sent; PendingAction deletes those
\* and returns the next ones and the last id among them.
Poll ==
    /\ "reader" \in Clients
    /\ done
    /\ LET rest  == Remaining(mails, DOMAIN payload)
           found == ScanTable(rest, lastid)
       IN  /\ mails' = rest
           /\ payload' = found
           /\ lastid' = IF found = EmptyLog THEN lastid ELSE LastKey(found)
           /\ done' = (found = EmptyLog)
    /\ UNCHANGED <<maincounter, taken, made, sent>>

\* The same, and the reply is lost: the reader will ask again.
PollLost ==
    /\ "reader" \in Clients
    /\ done
    /\ mails' = Remaining(mails, DOMAIN payload)
    /\ UNCHANGED <<maincounter, taken, made, reader, sent>>

SendAll(serials) == sent' = sent \cup serials

\* The reader sends what it was given.
Deliver ==
    /\ ~done
    /\ done' = TRUE
    /\ SendAll({payload[i] : i \in DOMAIN payload})
    /\ UNCHANGED <<mails, maincounter, taken, made, lastid, payload>>

\* A run of GetMail: lastid is 0 and "ok" is never set, so that there is one
\* request and the mails it marks for deletion are not returned.  It stops early
\* when the request fails, and a text message may not get through.
GetMail ==
    /\ "getmail" \in Clients
    /\ LET found == ScanTable(mails, 0)
       IN  \E ids \in SUBSET DOMAIN found : SendAll({found[i] : i \in ids})
    /\ UNCHANGED <<mails, maincounter, taken, made, reader>>

Next ==
    \/ \E w \in Workers : TakeId(w) \/ CommitMail(w)
    \/ Restart
    \/ Poll \/ PollLost \/ Deliver \/ GetMail

Spec == Init /\ [][Next]_vars

-------------------------------------------------------------------------------
\* A mail in the table is not overwritten by another one, also when ids are
\* handed out again after a restart.
MailNotOverwritten ==
    [][\A i \in (DOMAIN mails) \cap (DOMAIN mails') : mails'[i] = mails[i]]_vars

\* Ids: those in the table, and those of mails about to be committed, which are
\* not in it, each with one request.
IdsAreNew ==
    /\ maincounter \in Nat
    /\ IsFiniteSet(DOMAIN mails)
    /\ \A i \in DOMAIN mails : i \in Nat /\ 2 <= i /\ i <= maincounter
    /\ BaseId <= maincounter
    /\ DOMAIN taken = Workers
    /\ \A w \in Workers : taken[w] # 0 =>
         /\ taken[w] \in Nat /\ 2 <= taken[w] /\ taken[w] <= maincounter
         /\ taken[w] \notin DOMAIN mails
         /\ \A v \in Workers \ {w} : taken[v] # taken[w]

\* What the reader holds when it asks again, it has sent.
HeldIsSent ==
    /\ lastid \in Nat /\ done \in BOOLEAN
    /\ done => \A i \in DOMAIN payload : payload[i] \in sent

IInv == IdsAreNew /\ HeldIsSent

\* A mail is deleted only when it has been sent, whatever replies are lost and
\* requests repeated; or when it was given, after a restart, the id of a mail that
\* the reader has sent and that was deleted before.
DeletedIsSent ==
    [][\A i \in DOMAIN mails \ DOMAIN mails' :
         \/ mails[i] \in sent
         \/ i \in DOMAIN payload /\ payload[i] # mails[i] /\ payload[i] \in sent]_vars

\* The reader's cursor passes no mail that is in the table and not among those the
\* reader is given: only one that is committed after a later id can be missed.
CursorSkipsNothing ==
    [][\A i \in DOMAIN mails \cap DOMAIN mails' :
         i > lastid => i > lastid' \/ i \in DOMAIN payload']_vars

===============================================================================
