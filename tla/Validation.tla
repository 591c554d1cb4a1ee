------------------------------ MODULE Validation ------------------------------
(***************************************************************************)
(* Proving that one owns an address: ValidateService, and the check that   *)
(* ThreePidService and BlobDataService make of a session.  RequestToken    *)
(* makes or reuses a validation session and mails its token; SubmitToken   *)
(* marks the session validated; GetValidated3pid, Bind3pid and             *)
(* GetAccessKey ask whether it is.                                         *)
(*                                                                         *)
(* A request reads the clock, then one table, then the other, then commits *)
(* what it has made of them; requests on other threads come in between.    *)
(* The key of a session stands for its medium, address and client secret;  *)
(* two keys differ in their secrets.                                       *)
(* A token is the time at which it was made.  Only the ids of sessions are *)
(* told apart, those of tokens and mails come from the same counter.       *)
(***************************************************************************)
EXTENDS TransLog, Integers, FiniteSets

CONSTANTS
    Workers,   \* request threads
    Keys,      \* (medium, address, client secret)
    Attempts,  \* values of send_attempt
    Lifetime,  \* THREEPID_SESSION_VALID_LIFETIME_MS
    Word,      \* stands for 2^64: times are uint64_t
    MaxTime,   \* bound on the clock
    MaxId      \* bound on the session ids handed out

ASSUME ValidationAssumption ==
    /\ IsFiniteSet(Workers) /\ Attempts \subseteq Nat
    /\ Lifetime \in Nat /\ MaxTime \in Nat /\ MaxId \in Nat
    /\ Word \in Nat /\ Lifetime + MaxTime < Word

VARIABLES
    pool,        \* the threads of the server (LIBASYNC_NUM_THREADS)
    now,         \* IDENTT_CURRTIME_MS
    sessions,    \* ValidationSession: sid -> [key, mtime, validated]
    byKey,       \* its unique key: key -> sid
    tokens,      \* TokenAuth, by validation_session: sid -> [token, attempt]
    mailed,      \* ParAvion: sid -> its mails [key, token]: all of them, the last
    maincounter, \* the ids of sessions
    pc,          \* per worker: idle, begun, second (the second table), commit
    op,          \* per worker: its request and what it has read so far
    answer       \* per worker: the outcome of its last request

vars == <<pool, now, sessions, byKey, tokens, mailed, maincounter, pc, op, answer>>
db == <<sessions, byKey, tokens, mailed>>

NoOp == [kind |-> "none"]

Init ==
    /\ pool \in SUBSET Workers \ {{}}
    /\ now = 0
    /\ sessions = EmptyLog /\ byKey = EmptyLog /\ tokens = EmptyLog
    /\ mailed = EmptyLog
    /\ maincounter = 1
    /\ pc = [w \in Workers |-> "idle"]
    /\ op = [w \in Workers |-> NoOp]
    /\ answer = [w \in Workers |-> "none"]

Tick ==
    /\ now < MaxTime
    /\ now' = now + 1
    /\ UNCHANGED <<db, maincounter, pc, op, answer>>

\* Mutant of Expired: a session expires one tick early.
ExpiredEarly(curr, mtime) == (curr - mtime + Word) % Word >= Lifetime

\* currtime - mtime > LIFETIME, on unsigned numbers.
Expired(curr, mtime) == (curr - mtime + Word) % Word > Lifetime

\* A request arrives: its action begins by reading the clock.
Begin(w, request) ==
    /\ pc[w] = "idle"
    /\ pc' = [pc EXCEPT ![w] = "begun"]
    /\ op' = [op EXCEPT ![w] = request]
    /\ answer' = [answer EXCEPT ![w] = "none"]
    /\ UNCHANGED <<now, db, maincounter>>

\* The bound MaxId is taken here, so that every request that began can go on.
RequestToken(w, k, attempt) ==
    /\ \/ k \in DOMAIN byKey
       \/ maincounter + Cardinality({v \in pool : pc[v] = "begun" /\ op[v].kind = "request"})
            < MaxId
    /\ Begin(w, [kind |-> "request", curr |-> now, key |-> k, attempt |-> attempt])

SubmitToken(w, k, sid, token) ==
    Begin(w, [kind |-> "submit", curr |-> now, key |-> k, sid |-> sid, token |-> token])

GetValidated(w, k, sid) ==
    Begin(w, [kind |-> "check", curr |-> now, key |-> k, sid |-> sid])

\* A request goes on with what it has read, or ends with an answer.
Continue(w, next, o) ==
    /\ pc' = [pc EXCEPT ![w] = next]
    /\ op' = [op EXCEPT ![w] = o]
    /\ UNCHANGED answer
Finish(w, a) ==
    /\ pc' = [pc EXCEPT ![w] = "idle"]
    /\ op' = [op EXCEPT ![w] = NoOp]
    /\ answer' = [answer EXCEPT ![w] = a]

-------------------------------------------------------------------------------
\* Mutant of Rekindled: an expired session starts afresh.
RekindledAfresh(s, curr) == [s EXCEPT !.mtime = curr, !.validated = FALSE]

\* An expired session gets the current time and keeps the rest.
Rekindled(s, curr) == [s EXCEPT !.mtime = curr]

\* RequestTokenAction looks the session up by its unique key.  "store" says that
\* the session is in the transaction: it is new or expired.
RequestFindSession(w) ==
    /\ pc[w] = "begun" /\ op[w].kind = "request"
    /\ LET o       == op[w]
           sid     == byKey[o.key]
           expired == Expired(o.curr, sessions[sid].mtime)
           Having(id, s, store) ==
             Continue(w, "second", [kind |-> "request", curr |-> o.curr, sid |-> id,
                        session |-> s, store |-> store, attempt |-> o.attempt,
                        expired |-> store /\ o.key \in DOMAIN byKey])
       IN  \/ /\ o.key \in DOMAIN byKey
              /\ Having(sid, IF expired THEN Rekindled(sessions[sid], o.curr)
                             ELSE sessions[sid], expired)
              /\ UNCHANGED maincounter
           \/ /\ o.key \notin DOMAIN byKey
              /\ maincounter' = maincounter + 1
              /\ Having(maincounter + 1,
                        [key |-> o.key, mtime |-> o.curr, validated |-> FALSE], TRUE)
    /\ UNCHANGED <<now, db>>

\* It looks the token up.  A token is mailed if there is none yet, the session
\* had expired or the attempt is a new one; in the first two cases it is new.
RequestFindToken(w) ==
    /\ pc[w] = "second" /\ op[w].kind = "request"
    /\ LET o     == op[w]
           found == o.sid \in DOMAIN tokens
           fresh == ~found \/ o.expired
           token == IF fresh THEN o.curr ELSE tokens[o.sid].token
       IN  IF fresh \/ o.attempt > tokens[o.sid].attempt
           THEN Continue(w, "commit", [kind |-> "request", sid |-> o.sid,
                           session |-> o.session, store |-> o.store,
                           auth |-> [token |-> token, attempt |-> o.attempt]])
           ELSE Finish(w, "sid")
    /\ UNCHANGED <<now, db, maincounter>>

\* What a RequestToken transaction writes: the session if it is new or renewed,
\* the row of its unique key if it is new.
CommitSession(o) ==
    /\ sessions' = IF o.store THEN Put(sessions, o.sid, o.session) ELSE sessions
    /\ byKey' = IF o.store /\ o.sid \notin DOMAIN sessions
                THEN Put(byKey, o.session.key, o.sid) ELSE byKey

MailsOf(sid) == IF sid \in DOMAIN mailed THEN mailed[sid].all ELSE {}
MailOf(o) == [key |-> o.session.key, token |-> o.auth.token]
AddMail(o) ==
    mailed' = Put(mailed, o.sid,
                  [all |-> MailsOf(o.sid) \cup {MailOf(o)}, last |-> MailOf(o)])

\* Mutants of CommitRequest: the transaction lacks the row of the unique key, the
\* token or the mail.
CommitRequestNoKey(w) ==
    /\ pc[w] = "commit" /\ op[w].kind = "request"
    /\ sessions' = IF op[w].store THEN Put(sessions, op[w].sid, op[w].session) ELSE sessions
    /\ tokens' = Put(tokens, op[w].sid, op[w].auth)
    /\ AddMail(op[w])
    /\ Finish(w, "sid")
    /\ UNCHANGED <<now, maincounter, byKey>>
CommitRequestNoToken(w) ==
    /\ pc[w] = "commit" /\ op[w].kind = "request"
    /\ CommitSession(op[w])
    /\ AddMail(op[w])
    /\ Finish(w, "sid")
    /\ UNCHANGED <<now, maincounter, tokens>>
CommitRequestNoMail(w) ==
    /\ pc[w] = "commit" /\ op[w].kind = "request"
    /\ CommitSession(op[w])
    /\ tokens' = Put(tokens, op[w].sid, op[w].auth)
    /\ Finish(w, "sid")
    /\ UNCHANGED <<now, maincounter, mailed>>

\* It commits the session, the token and the mail.  AddRecord of an expired
\* session leaves the row of its unique key alone, which names that session.
CommitRequest(w) ==
    /\ pc[w] = "commit" /\ op[w].kind = "request"
    /\ CommitSession(op[w])
    /\ tokens' = Put(tokens, op[w].sid, op[w].auth)
    /\ AddMail(op[w])
    /\ Finish(w, "sid")
    /\ UNCHANGED <<now, maincounter>>

-------------------------------------------------------------------------------
\* Mutant of SubmitFindToken: the token is not compared.
SubmitFindTokenAny(w) ==
    /\ pc[w] = "begun" /\ op[w].kind = "submit"
    /\ LET o == op[w]
       IN  IF o.sid \in DOMAIN tokens THEN Continue(w, "second", o)
           ELSE Finish(w, "no_valid_session")
    /\ UNCHANGED <<now, db, maincounter>>

\* SubmitTokenAction looks the token up by the session id and compares it.
SubmitFindToken(w) ==
    /\ pc[w] = "begun" /\ op[w].kind = "submit"
    /\ LET o == op[w]
       IN  IF o.sid \in DOMAIN tokens /\ tokens[o.sid].token = o.token
           THEN Continue(w, "second", o)
           ELSE Finish(w, "no_valid_session")
    /\ UNCHANGED <<now, db, maincounter>>

\* It looks the session up: the secret, the time, whether it is validated.
\* AddRecord refuses when the unique key belongs to another session.
SubmitFindSession(w) ==
    /\ pc[w] = "second" /\ op[w].kind = "submit"
    /\ LET o == op[w]
           s == sessions[o.sid]
       IN  \/ s.key # o.key /\ Finish(w, "incorrect_client_secret")
           \/ /\ s.key = o.key /\ Expired(o.curr, s.mtime)
              /\ Finish(w, "session_expired")
           \/ /\ s.key = o.key /\ ~Expired(o.curr, s.mtime) /\ s.validated
              /\ Finish(w, "already_validated")
           \/ /\ s.key = o.key /\ ~Expired(o.curr, s.mtime) /\ ~s.validated
              /\ IF byKey[s.key] # o.sid THEN Finish(w, "cannot_insert")
                 ELSE Continue(w, "commit",
                        [kind |-> "submit", sid |-> o.sid, token |-> o.token,
                         session |-> [s EXCEPT !.validated = TRUE, !.mtime = o.curr]])
    /\ UNCHANGED <<now, db, maincounter>>

CommitSubmit(w) ==
    /\ pc[w] = "commit" /\ op[w].kind = "submit"
    /\ sessions' = Put(sessions, op[w].sid, op[w].session)
    /\ Finish(w, "now_validated")
    /\ UNCHANGED <<now, byKey, tokens, mailed, maincounter>>

-------------------------------------------------------------------------------
\* The check of GetValidated3pid, Bind3pid and GetAccessKey, with its test of
\* the time as it is written.
CheckSession(w) ==
    /\ pc[w] = "begun" /\ op[w].kind = "check"
    /\ LET o  == op[w]
           s  == sessions[o.sid]
           ok == o.sid \in DOMAIN sessions /\ s.key = o.key
       IN  \/ ~ok /\ Finish(w, "no_valid_session")
           \/ ok /\ s.validated /\ Finish(w, "validated")
           \/ /\ ok /\ ~s.validated
              /\ Finish(w, IF Lifetime + s.mtime > o.curr THEN "has_expired"
                           ELSE "not_validated")
    /\ UNCHANGED <<now, db, maincounter>>

Sids == 2 .. MaxId

Next ==
    /\ UNCHANGED pool
    /\ \/ Tick
       \/ \E w \in pool :
            \/ \E k \in Keys : \/ \E a \in Attempts : RequestToken(w, k, a)
                               \/ \E s \in Sids, t \in 0 .. MaxTime : SubmitToken(w, k, s, t)
                               \/ \E s \in Sids : GetValidated(w, k, s)
            \/ RequestFindSession(w) \/ RequestFindToken(w) \/ CommitRequest(w)
            \/ SubmitFindToken(w) \/ SubmitFindSession(w) \/ CommitSubmit(w)
            \/ CheckSession(w)

Spec == Init /\ [][Next]_vars

-------------------------------------------------------------------------------
Times == 0 .. MaxTime
Ids == Nat \ {0}
SessionRows == [key : Keys, mtime : Times, validated : BOOLEAN]

\* The types of the variables: what the requests leave in the tables.
TypeOK ==
    /\ pool \subseteq Workers
    /\ now \in Times /\ maincounter \in Ids
    /\ DOMAIN sessions \subseteq Ids
    /\ \A s \in DOMAIN sessions : sessions[s] \in SessionRows
    /\ \A k \in DOMAIN byKey : k \in Keys /\ byKey[k] \in DOMAIN sessions
    /\ DOMAIN tokens = DOMAIN sessions
    /\ \A s \in DOMAIN tokens : tokens[s] \in [token : Times, attempt : Attempts]
    /\ pc \in [Workers -> {"idle", "begun", "second", "commit"}]

\* The last mail made for a session carries the token that SubmitToken will
\* compare with and went to the session's address, whatever requests overlap:
\* the token and its mail are in one transaction.
LatestMailWorks ==
    \A s \in DOMAIN tokens :
       /\ s \in DOMAIN mailed
       /\ mailed[s].last = [key |-> sessions[s].key, token |-> tokens[s].token]

\* A request that is about to validate a session carries a token that was mailed
\* to the session's address, whatever has replaced that token since.
ValidationIsEarned ==
    \A w \in Workers :
       pc[w] = "commit" /\ op[w].kind = "submit" =>
         [key |-> sessions[op[w].sid].key, token |-> op[w].token] \in MailsOf(op[w].sid)

-------------------------------------------------------------------------------
(* What the properties rest on: the parts of an inductive invariant.       *)

\* Ids come from one counter.
IdsBelowCounter == \A s \in DOMAIN sessions : s <= maincounter

\* The row of a unique key names a session with that key.
KeysNameSessions == \A k \in DOMAIN byKey : sessions[byKey[k]].key = k

\* The last mail of a session is one of its mails.
LastIsMailed == \A s \in DOMAIN mailed : mailed[s].last \in mailed[s].all

\* What a request has read when its action has begun and after each of its reads.
Begun ==
    [kind : {"request"}, curr : 0 .. now, key : Keys, attempt : Attempts]
    \cup [kind : {"submit"}, curr : 0 .. now, key : Keys, sid : Sids, token : Times]
    \cup [kind : {"check"}, curr : 0 .. now, key : Keys, sid : Sids]
HasSession ==
    [kind : {"request"}, curr : 0 .. now, sid : Ids, session : SessionRows,
     store : BOOLEAN, attempt : Attempts, expired : BOOLEAN]
HasToken ==
    [kind : {"submit"}, curr : 0 .. now, key : Keys, sid : Sids, token : Times]
WillMail ==
    [kind : {"request"}, sid : Ids, session : SessionRows, store : BOOLEAN,
     auth : [token : Times, attempt : Attempts]]
WillValidate ==
    [kind : {"submit"}, sid : Sids, token : Times, session : SessionRows]

OpIsTyped(w) ==
    /\ pc[w] = "begun" => op[w] \in Begun
    /\ pc[w] = "second" => op[w] \in HasSession \cup HasToken
    /\ pc[w] = "commit" => op[w] \in WillMail \cup WillValidate
    /\ w \notin pool => pc[w] = "idle"
    /\ pc[w] # "idle" => answer[w] = "none"

\* A RequestToken that has its session: it holds one of the table, with its key,
\* or a new one under an id that nobody else has.
HasRequested(w) == pc[w] \in {"second", "commit"} /\ op[w].kind = "request"
RequestIsReady(w) ==
    HasRequested(w) =>
      /\ op[w].sid <= maincounter
      /\ op[w].sid \in DOMAIN sessions =>
           op[w].session.key = sessions[op[w].sid].key
      /\ op[w].sid \notin DOMAIN sessions =>
           /\ op[w].store
           /\ \A v \in Workers \ {w} : HasRequested(v) => op[v].sid # op[w].sid

\* A SubmitToken that has found its token, and one that has found its session.
HasSubmitted(w) == pc[w] \in {"second", "commit"} /\ op[w].kind = "submit"
SubmitIsReady(w) ==
    HasSubmitted(w) =>
      /\ op[w].sid \in DOMAIN sessions
      /\ [key |-> sessions[op[w].sid].key, token |-> op[w].token] \in MailsOf(op[w].sid)
      /\ pc[w] = "commit" =>
           op[w].session.key = sessions[op[w].sid].key /\ op[w].session.validated

OpsAreReady ==
    /\ DOMAIN op = Workers /\ DOMAIN answer = Workers
    /\ \A w \in Workers : OpIsTyped(w) /\ RequestIsReady(w) /\ SubmitIsReady(w)

IInv == /\ TypeOK /\ IdsBelowCounter /\ KeysNameSessions /\ LastIsMailed
        /\ LatestMailWorks /\ OpsAreReady

-------------------------------------------------------------------------------
\* A server with one request thread: requests do not overlap.
Alone == Cardinality(pool) = 1

\* On such a server a session that a client was told "is now validated" stays
\* validated, also when RequestToken renews it.
ValidatedStays ==
    [][Alone => \A s \in DOMAIN sessions :
                  sessions[s].validated => sessions'[s].validated]_vars

\* and SubmitToken never fails with "Cannot Insert vsession": a session is the
\* one its unique key names.
SessionsCanBeValidated ==
    Alone => \A s \in DOMAIN sessions :
               sessions[s].key \in DOMAIN byKey /\ byKey[sessions[s].key] = s

\* The one request of such a server knows its session as it is, and has a new one
\* only for a key that still has none.
AloneIsReady ==
    Alone => \A w \in Workers : HasRequested(w) =>
               IF op[w].sid \in DOMAIN sessions
               THEN op[w].session.validated = sessions[op[w].sid].validated
               ELSE op[w].session.key \notin DOMAIN byKey
AloneInv == IInv /\ AloneIsReady /\ SessionsCanBeValidated

\* SubmitToken answers "This validation session has expired" only for a session
\* whose last change is longer ago than its lifetime, or was made after the
\* request had read the clock, when the unsigned difference wraps around.
ExpiredIsExpired ==
    [][\A w \in Workers :
         op[w].kind = "submit" /\ pc[w] = "second" /\ answer'[w] = "session_expired"
           => \/ now > sessions[op[w].sid].mtime + Lifetime
              \/ sessions[op[w].sid].mtime > op[w].curr]_vars

===============================================================================
