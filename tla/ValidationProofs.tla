--------------------------- MODULE ValidationProofs ---------------------------
(***************************************************************************)
(* Proofs about Validation, for any number of threads, addresses, secrets  *)
(* and ticks of the clock: a mail always carries the token that is stored, *)
(* a validation is earned with a mailed token, and what requests that do   *)
(* not overlap may rely on.                                                *)
(***************************************************************************)
EXTENDS Validation, FiniteSetTheorems, TLAPS

\* Empty tables, and no request under way.
LEMMA InitIInv == Init => IInv
<1> SUFFICES ASSUME Init PROVE IInv
    OBVIOUS
<1> USE DEF Init, EmptyLog
<1>1. TypeOK
    BY ValidationAssumption DEF TypeOK, Times, Ids
<1>2. IdsBelowCounter /\ KeysNameSessions /\ LastIsMailed /\ LatestMailWorks
    BY DEF IdsBelowCounter, KeysNameSessions, LastIsMailed, LatestMailWorks
<1>3. OpsAreReady
    BY DEF OpsAreReady, OpIsTyped, RequestIsReady, SubmitIsReady, HasRequested, HasSubmitted
<1> QED BY <1>1, <1>2, <1>3 DEF IInv

\* A step of one request that leaves the tables alone: what it says of that
\* request is all there is to show.
LEMMA OneReads ==
    ASSUME IInv, NEW w \in pool, UNCHANGED <<pool, now, db>>,
           maincounter' \in Ids, maincounter <= maincounter',
           pc' \in [Workers -> {"idle", "begun", "second", "commit"}],
           DOMAIN op' = Workers, DOMAIN answer' = Workers,
           \A v \in Workers : v # w => /\ pc'[v] = pc[v] /\ op'[v] = op[v]
                                      /\ answer'[v] = answer[v],
           OpIsTyped(w)', RequestIsReady(w)', SubmitIsReady(w)'
    PROVE  IInv'
<1> USE DEF IInv, db
<1>1. w \in Workers
    BY DEF TypeOK
<1>2. TypeOK' /\ IdsBelowCounter' /\ KeysNameSessions' /\ LastIsMailed' /\ LatestMailWorks'
    BY <1>1 DEF TypeOK, IdsBelowCounter, KeysNameSessions, LastIsMailed, LatestMailWorks, Ids
<1>5. ASSUME NEW v \in Workers, v # w
      PROVE  OpIsTyped(v)' /\ RequestIsReady(v)' /\ SubmitIsReady(v)'
    <2>1. OpIsTyped(v) /\ RequestIsReady(v) /\ SubmitIsReady(v)
        BY DEF OpsAreReady
    <2>2. /\ pc'[v] = pc[v] /\ op'[v] = op[v] /\ answer'[v] = answer[v]
        BY <1>5
    <2>3. OpIsTyped(v)'
        BY <2>1, <2>2 DEF OpIsTyped, Begun, HasSession, HasToken
    <2>4. SubmitIsReady(v)'
        BY <2>1, <2>2 DEF SubmitIsReady, HasSubmitted, MailsOf
    <2>5. RequestIsReady(v)'
        <3> SUFFICES ASSUME HasRequested(v)' PROVE RequestIsReady(v)'
            BY DEF RequestIsReady
        <3>1. HasRequested(v) /\ op'[v].sid = op[v].sid
            BY <2>2 DEF HasRequested
        <3>2. op[v].sid <= maincounter'
            <4>1. op[v].sid \in Nat
                BY <2>1, <3>1 DEF HasRequested, OpIsTyped, HasSession, HasToken, WillMail,
                                  WillValidate, Ids
            <4> QED BY <4>1, <2>1, <3>1 DEF RequestIsReady, TypeOK, Ids
        <3>3. ASSUME op[v].sid \notin DOMAIN sessions, NEW u \in Workers \ {v}, HasRequested(u)'
              PROVE  op'[u].sid # op[v].sid
            <4>1. CASE u = w
                BY <1>5, <3>1, <3>3, <2>2, <4>1 DEF RequestIsReady, HasRequested
            <4>2. CASE u # w
                <5>1. HasRequested(u) /\ op'[u].sid = op[u].sid
                    BY <3>3, <4>2 DEF HasRequested
                <5> QED BY <5>1, <2>1, <3>1, <3>3 DEF RequestIsReady
            <4> QED BY <4>1, <4>2
        <3> QED BY <2>1, <2>2, <3>1, <3>2, <3>3 DEF RequestIsReady
    <2> QED BY <2>3, <2>4, <2>5
<1>6. OpsAreReady'
    BY <1>5 DEF OpsAreReady
<1> QED BY <1>2, <1>6

\* A request that begins has read the clock and nothing else.
LEMMA BeginIInv ==
    ASSUME IInv, UNCHANGED pool, NEW w \in pool, NEW request \in Begun, Begin(w, request)
    PROVE  IInv'
<1> USE DEF Begin
<1>1. /\ w \in Workers /\ DOMAIN pc = Workers /\ DOMAIN op = Workers
      /\ DOMAIN answer = Workers /\ maincounter \in Ids /\ maincounter <= maincounter
    BY DEF IInv, TypeOK, OpsAreReady, Ids
<1>2. /\ pc'[w] = "begun" /\ op'[w] = request /\ answer'[w] = "none"
      /\ pc' \in [Workers -> {"idle", "begun", "second", "commit"}]
      /\ DOMAIN op' = Workers /\ DOMAIN answer' = Workers
      /\ \A v \in Workers : v # w => /\ pc'[v] = pc[v] /\ op'[v] = op[v]
                                     /\ answer'[v] = answer[v]
    BY <1>1 DEF IInv, TypeOK
<1>3. OpIsTyped(w)'
    BY <1>2 DEF OpIsTyped, Begun
<1>4. RequestIsReady(w)' /\ SubmitIsReady(w)'
    BY <1>2 DEF RequestIsReady, SubmitIsReady, HasRequested, HasSubmitted
<1> QED BY <1>1, <1>2, <1>3, <1>4, OneReads

LEMMA ClientIInv ==
    ASSUME IInv, UNCHANGED pool, NEW w \in pool, NEW k \in Keys,
           \/ \E a \in Attempts : RequestToken(w, k, a)
           \/ \E s \in Sids, t \in 0 .. MaxTime : SubmitToken(w, k, s, t)
           \/ \E s \in Sids : GetValidated(w, k, s)
    PROVE  IInv'
<1>1. now \in 0 .. now
    BY DEF IInv, TypeOK, Times
<1>2. ASSUME NEW a \in Attempts, RequestToken(w, k, a) PROVE IInv'
    BY <1>1, <1>2, BeginIInv DEF RequestToken, Begun
<1>3. ASSUME NEW s \in Sids, NEW t \in 0 .. MaxTime, SubmitToken(w, k, s, t) PROVE IInv'
    BY <1>1, <1>3, BeginIInv DEF SubmitToken, Begun, Times
<1>4. ASSUME NEW s \in Sids, GetValidated(w, k, s) PROVE IInv'
    BY <1>1, <1>4, BeginIInv DEF GetValidated, Begun
<1> QED BY <1>2, <1>3, <1>4

\* A request that ends without a commit leaves nothing behind.
LEMMA FinishIInv ==
    ASSUME IInv, NEW w \in pool, UNCHANGED <<pool, now, db, maincounter>>,
           NEW a, Finish(w, a)
    PROVE  IInv'
<1> USE DEF Finish
<1>1. /\ w \in Workers /\ DOMAIN pc = Workers /\ DOMAIN op = Workers
      /\ DOMAIN answer = Workers /\ maincounter \in Ids /\ maincounter <= maincounter
    BY DEF IInv, TypeOK, OpsAreReady, Ids
<1>2. /\ pc'[w] = "idle"
      /\ pc' \in [Workers -> {"idle", "begun", "second", "commit"}]
      /\ DOMAIN op' = Workers /\ DOMAIN answer' = Workers
      /\ \A v \in Workers : v # w => /\ pc'[v] = pc[v] /\ op'[v] = op[v]
                                     /\ answer'[v] = answer[v]
    BY <1>1 DEF IInv, TypeOK
<1>3. OpIsTyped(w)' /\ RequestIsReady(w)' /\ SubmitIsReady(w)'
    BY <1>2 DEF OpIsTyped, RequestIsReady, SubmitIsReady, HasRequested, HasSubmitted
<1> QED BY <1>1, <1>2, <1>3, OneReads

\* What Continue makes of a request.
LEMMA ContinueIsOne ==
    ASSUME IInv, NEW w \in pool, NEW l \in {"second", "commit"}, NEW o,
           Continue(w, l, o), pc[w] # "idle"
    PROVE  /\ w \in Workers
           /\ pc'[w] = l /\ op'[w] = o /\ answer'[w] = "none"
           /\ pc' \in [Workers -> {"idle", "begun", "second", "commit"}]
           /\ DOMAIN op' = Workers /\ DOMAIN answer' = Workers
           /\ \A v \in Workers : v # w => /\ pc'[v] = pc[v] /\ op'[v] = op[v]
                                          /\ answer'[v] = answer[v]
<1>1. w \in Workers /\ answer[w] = "none"
    BY DEF IInv, TypeOK, OpsAreReady, OpIsTyped
<1> QED BY <1>1 DEF IInv, TypeOK, OpsAreReady, Continue

\* RequestToken finds the session of its key, or takes a new id.
LEMMA RequestFindSessionIInv ==
    ASSUME IInv, UNCHANGED pool, NEW w \in pool, RequestFindSession(w)
    PROVE  IInv'
<1> DEFINE o == op[w]
           sid == byKey[o.key]
           expired == Expired(o.curr, sessions[sid].mtime)
           Next1(id, s, store) ==
             [kind |-> "request", curr |-> o.curr, sid |-> id,
              session |-> s, store |-> store, attempt |-> o.attempt,
              expired |-> store /\ o.key \in DOMAIN byKey]
<1>1. /\ o \in [kind : {"request"}, curr : 0 .. now, key : Keys, attempt : Attempts]
      /\ pc[w] = "begun" /\ w \in Workers
    BY DEF RequestFindSession, IInv, TypeOK, OpsAreReady, OpIsTyped, Begun
<1>2. o.curr \in Times
    BY <1>1, ValidationAssumption DEF IInv, TypeOK, Times
<1>3. CASE /\ o.key \in DOMAIN byKey
           /\ Continue(w, "second", Next1(sid, IF expired THEN Rekindled(sessions[sid], o.curr)
                                               ELSE sessions[sid], expired))
           /\ UNCHANGED maincounter /\ UNCHANGED <<now, db>>
    <2> DEFINE s == IF expired THEN Rekindled(sessions[sid], o.curr) ELSE sessions[sid]
    <2>1. /\ sid \in DOMAIN sessions /\ sid \in Ids /\ sessions[sid] \in SessionRows
          /\ sid <= maincounter
        BY <1>3 DEF IInv, TypeOK, IdsBelowCounter
    <2>2. s \in SessionRows /\ s.key = sessions[sid].key
        BY <2>1, <1>2 DEF SessionRows, Rekindled
    <2>3. expired \in BOOLEAN
        BY DEF Expired
    <2> HIDE DEF s, expired
    <2>4. Next1(sid, s, expired) \in HasSession
        BY <1>1, <2>1, <2>2, <2>3 DEF HasSession
    <2>5. Continue(w, "second", Next1(sid, s, expired))
        BY <1>3 DEF s
    <2>6. pc'[w] = "second" /\ op'[w] = Next1(sid, s, expired) /\ answer'[w] = "none"
        BY <1>1, <2>5, ContinueIsOne
    <2>7. OpIsTyped(w)'
        BY <1>3, <2>4, <2>6 DEF OpIsTyped, HasSession, HasToken
    <2>8. RequestIsReady(w)' /\ SubmitIsReady(w)'
        BY <1>3, <2>1, <2>2, <2>6 DEF RequestIsReady, SubmitIsReady, HasSubmitted, db
    <2>9. maincounter' \in Ids /\ maincounter <= maincounter'
        BY <1>3 DEF IInv, TypeOK, Ids
    <2> QED BY <1>1, <1>3, <2>5, <2>7, <2>8, <2>9, ContinueIsOne, OneReads
<1>4. CASE /\ o.key \notin DOMAIN byKey
           /\ maincounter' = maincounter + 1
           /\ Continue(w, "second", Next1(maincounter + 1,
                        [key |-> o.key, mtime |-> o.curr, validated |-> FALSE], TRUE))
           /\ UNCHANGED <<now, db>>
    <2> DEFINE s == [key |-> o.key, mtime |-> o.curr, validated |-> FALSE]
    <2>1. /\ maincounter + 1 \in Ids /\ maincounter \in Ids
          /\ maincounter + 1 \notin DOMAIN sessions
        BY DEF IInv, TypeOK, IdsBelowCounter, Ids
    <2>2. s \in SessionRows
        BY <1>1, <1>2 DEF SessionRows
    <2> HIDE DEF s
    <2>4. Next1(maincounter + 1, s, TRUE) \in HasSession
        BY <1>1, <2>1, <2>2 DEF HasSession
    <2>5. Continue(w, "second", Next1(maincounter + 1, s, TRUE))
        BY <1>4 DEF s
    <2>6. /\ pc'[w] = "second" /\ op'[w] = Next1(maincounter + 1, s, TRUE)
          /\ answer'[w] = "none"
        BY <1>1, <2>5, ContinueIsOne
    <2>7. OpIsTyped(w)'
        BY <1>4, <2>4, <2>6 DEF OpIsTyped, HasSession, HasToken
    <2>8. ASSUME NEW v \in Workers \ {w}, HasRequested(v)'
          PROVE  op'[v].sid # maincounter + 1
        <3>1. op'[v] = op[v] /\ pc'[v] = pc[v]
            BY <2>5, <2>8 DEF Continue, IInv, TypeOK, OpsAreReady
        <3>2. op[v].sid \in Nat /\ op[v].sid <= maincounter
            BY <3>1, <2>8 DEF IInv, OpsAreReady, OpIsTyped, RequestIsReady, HasRequested,
                              HasSession, HasToken, WillMail, WillValidate, Ids
        <3> QED BY <3>1, <3>2, <2>1 DEF Ids
    <2>9. RequestIsReady(w)' /\ SubmitIsReady(w)'
        BY <1>4, <2>1, <2>6, <2>8 DEF RequestIsReady, SubmitIsReady, HasSubmitted, db, Ids
    <2>10. maincounter' \in Ids /\ maincounter <= maincounter'
        BY <1>4, <2>1 DEF Ids
    <2> QED BY <1>1, <1>4, <2>5, <2>7, <2>9, <2>10, ContinueIsOne, OneReads
<1> QED BY <1>3, <1>4 DEF RequestFindSession

\* It goes on to mail the stored token or a new one.
LEMMA RequestFindTokenIInv ==
    ASSUME IInv, UNCHANGED pool, NEW w \in pool, RequestFindToken(w)
    PROVE  IInv'
<1> DEFINE o == op[w]
           found == o.sid \in DOMAIN tokens
           fresh == ~found \/ o.expired
           token == IF fresh THEN o.curr ELSE tokens[o.sid].token
           n == [kind |-> "request", sid |-> o.sid, session |-> o.session,
                 store |-> o.store, auth |-> [token |-> token, attempt |-> o.attempt]]
<1>1. /\ o \in HasSession /\ pc[w] = "second" /\ w \in Workers
      /\ RequestIsReady(w)
      /\ UNCHANGED <<pool, now, db, maincounter>>
      /\ maincounter \in Ids /\ maincounter <= maincounter
    BY DEF RequestFindToken, IInv, TypeOK, OpsAreReady, OpIsTyped, HasToken, Ids
<1>2. o.curr \in Times
    BY <1>1, ValidationAssumption DEF IInv, TypeOK, Times, HasSession
<1>3. token \in Times
    BY <1>2 DEF IInv, TypeOK
<1> HIDE DEF token
<1>4. n \in WillMail
    BY <1>1, <1>3 DEF WillMail, HasSession
<1>5. ASSUME Continue(w, "commit", n) PROVE IInv'
    <2>1. pc'[w] = "commit" /\ op'[w] = n /\ answer'[w] = "none"
        BY <1>1, <1>5, ContinueIsOne
    <2>2. OpIsTyped(w)'
        BY <1>1, <1>4, <2>1 DEF OpIsTyped, WillMail, WillValidate
    <2>3. SubmitIsReady(w)'
        BY <2>1 DEF SubmitIsReady, HasSubmitted
    <2>4. /\ HasRequested(w) /\ op'[w].sid = o.sid /\ op'[w].session = o.session
          /\ op'[w].store = o.store
        BY <1>1, <2>1 DEF HasRequested, HasSession
    <2>5. \A v \in Workers \ {w} : HasRequested(v)' => HasRequested(v) /\ op'[v].sid = op[v].sid
        BY <1>1, <1>5, ContinueIsOne DEF HasRequested
    <2> HIDE DEF n
    <2>6. RequestIsReady(w)'
        BY <1>1, <2>4, <2>5 DEF RequestIsReady, db
    <2> QED BY <1>1, <1>5, <2>2, <2>3, <2>6, ContinueIsOne, OneReads
<1>6. Continue(w, "commit", n) \/ Finish(w, "sid")
    BY DEF RequestFindToken, token
<1> QED BY <1>1, <1>5, <1>6, FinishIInv

\* SubmitToken goes on with the token it was sent if that is the stored one, which
\* is the one of the last mail.
LEMMA SubmitFindTokenIInv ==
    ASSUME IInv, UNCHANGED pool, NEW w \in pool, SubmitFindToken(w)
    PROVE  IInv'
<1> DEFINE o == op[w]
<1>1. /\ o \in HasToken /\ pc[w] = "begun" /\ w \in Workers
      /\ UNCHANGED <<pool, now, db, maincounter>>
      /\ maincounter \in Ids /\ maincounter <= maincounter
    BY DEF SubmitFindToken, IInv, TypeOK, OpsAreReady, OpIsTyped, Begun, HasToken, Ids
<1>2. ASSUME Continue(w, "second", o), o.sid \in DOMAIN tokens, tokens[o.sid].token = o.token
      PROVE  IInv'
    <2>1. pc'[w] = "second" /\ op'[w] = o /\ answer'[w] = "none"
        BY <1>1, <1>2, ContinueIsOne
    <2>2. OpIsTyped(w)'
        BY <1>1, <2>1 DEF OpIsTyped, HasToken
    <2>3. RequestIsReady(w)'
        BY <1>1, <2>1 DEF RequestIsReady, HasRequested, HasToken
    <2>4. o.sid \in DOMAIN sessions /\ o.sid \in DOMAIN mailed
        BY <1>2 DEF IInv, TypeOK, LatestMailWorks
    <2>5. [key |-> sessions[o.sid].key, token |-> o.token] \in MailsOf(o.sid)
        BY <1>2, <2>4 DEF IInv, LatestMailWorks, LastIsMailed, MailsOf
    <2>6. SubmitIsReady(w)'
        BY <1>1, <2>1, <2>4, <2>5 DEF SubmitIsReady, db, MailsOf
    <2> QED BY <1>1, <1>2, <2>2, <2>3, <2>6, ContinueIsOne, OneReads
<1> QED BY <1>1, <1>2, FinishIInv DEF SubmitFindToken

\* and with the session, marked validated.
LEMMA SubmitFindSessionIInv ==
    ASSUME IInv, UNCHANGED pool, NEW w \in pool, SubmitFindSession(w)
    PROVE  IInv'
<1> DEFINE o == op[w]
           s == sessions[o.sid]
           n == [kind |-> "submit", sid |-> o.sid, token |-> o.token,
                 session |-> [s EXCEPT !.validated = TRUE, !.mtime = o.curr]]
<1>1. /\ o \in HasToken /\ pc[w] = "second" /\ w \in Workers
      /\ SubmitIsReady(w)
      /\ UNCHANGED <<pool, now, db, maincounter>>
      /\ maincounter \in Ids /\ maincounter <= maincounter
    BY DEF SubmitFindSession, IInv, TypeOK, OpsAreReady, OpIsTyped, HasSession, Ids
<1>2. o.curr \in Times /\ o.sid \in DOMAIN sessions /\ s \in SessionRows
    BY <1>1, ValidationAssumption
       DEF IInv, TypeOK, Times, HasToken, SubmitIsReady, HasSubmitted
<1>3. n \in WillValidate /\ n.session.key = s.key /\ n.session.validated
    BY <1>1, <1>2 DEF WillValidate, HasToken, SessionRows
<1>4. ASSUME Continue(w, "commit", n) PROVE IInv'
    <2>1. pc'[w] = "commit" /\ op'[w] = n /\ answer'[w] = "none"
        BY <1>1, <1>4, ContinueIsOne
    <2>2. OpIsTyped(w)'
        BY <1>1, <1>3, <2>1 DEF OpIsTyped, WillMail, WillValidate
    <2>3. RequestIsReady(w)'
        BY <2>1 DEF RequestIsReady, HasRequested
    <2>4. [key |-> s.key, token |-> o.token] \in MailsOf(o.sid)
        BY <1>1 DEF SubmitIsReady, HasSubmitted, HasToken
    <2>5. SubmitIsReady(w)'
        BY <1>1, <1>2, <1>3, <2>1, <2>4 DEF SubmitIsReady, db, MailsOf
    <2> QED BY <1>1, <1>4, <2>2, <2>3, <2>5, ContinueIsOne, OneReads
<1>5. Continue(w, "commit", n) \/ \E a : Finish(w, a)
    BY DEF SubmitFindSession
<1> QED BY <1>1, <1>4, <1>5, FinishIInv

LEMMA CheckSessionIInv ==
    ASSUME IInv, UNCHANGED pool, NEW w \in pool, CheckSession(w)
    PROVE  IInv'
<1>1. \E a : Finish(w, a)
    BY DEF CheckSession
<1> QED BY <1>1, FinishIInv DEF CheckSession

LEMMA TickIInv == ASSUME IInv, UNCHANGED pool, Tick PROVE IInv'
<1> USE DEF IInv, Tick, db
<1>1. now' \in Times /\ 0 .. now \subseteq 0 .. now'
    BY ValidationAssumption DEF TypeOK, Times
<1>2. TypeOK'
    BY <1>1 DEF TypeOK, Times, Ids, SessionRows
<1>3. IdsBelowCounter' /\ KeysNameSessions' /\ LastIsMailed' /\ LatestMailWorks'
    BY DEF IdsBelowCounter, KeysNameSessions, LastIsMailed, LatestMailWorks
<1>4. ASSUME NEW w \in Workers PROVE OpIsTyped(w)' /\ RequestIsReady(w)' /\ SubmitIsReady(w)'
    <2>1. OpIsTyped(w) /\ RequestIsReady(w) /\ SubmitIsReady(w)
        BY DEF OpsAreReady
    <2>2. OpIsTyped(w)'
        BY <1>1, <2>1 DEF OpIsTyped, Begun, HasSession, HasToken, WillMail, WillValidate
    <2>3. RequestIsReady(w)' /\ SubmitIsReady(w)'
        BY <2>1 DEF RequestIsReady, SubmitIsReady, HasRequested, HasSubmitted, MailsOf
    <2> QED BY <2>2, <2>3
<1> QED BY <1>2, <1>3, <1>4 DEF OpsAreReady

\* What Finish makes of a request.
LEMMA FinishIsOne ==
    ASSUME IInv, NEW w \in pool, NEW a, Finish(w, a)
    PROVE  /\ w \in Workers /\ pc'[w] = "idle"
           /\ pc' \in [Workers -> {"idle", "begun", "second", "commit"}]
           /\ DOMAIN op' = Workers /\ DOMAIN answer' = Workers
           /\ \A v \in Workers : v # w => /\ pc'[v] = pc[v] /\ op'[v] = op[v]
                                          /\ answer'[v] = answer[v]
BY DEF IInv, TypeOK, OpsAreReady, Finish

\* A commit that keeps the keys of all sessions, adds none under an id that
\* another request holds, and loses no mail leaves the other requests ready.
LEMMA OthersAreReady ==
    ASSUME IInv, UNCHANGED <<pool, now, maincounter>>, NEW w \in pool, NEW a, Finish(w, a),
           \A s \in DOMAIN sessions : /\ s \in DOMAIN sessions'
                                      /\ sessions'[s].key = sessions[s].key
                                      /\ MailsOf(s) \subseteq MailsOf(s)',
           \A s \in DOMAIN sessions' \ DOMAIN sessions :
              HasRequested(w) /\ s = op[w].sid /\ s \notin DOMAIN sessions
    PROVE  OpsAreReady'
<1>1. /\ pc'[w] = "idle" /\ w \in Workers
      /\ DOMAIN op' = Workers /\ DOMAIN answer' = Workers
      /\ \A v \in Workers : v # w => /\ pc'[v] = pc[v] /\ op'[v] = op[v]
                                     /\ answer'[v] = answer[v]
    BY FinishIsOne
<1>2. OpIsTyped(w)' /\ RequestIsReady(w)' /\ SubmitIsReady(w)'
    BY <1>1 DEF OpIsTyped, RequestIsReady, SubmitIsReady, HasRequested, HasSubmitted
<1>3. ASSUME NEW v \in Workers, v # w
      PROVE  OpIsTyped(v)' /\ RequestIsReady(v)' /\ SubmitIsReady(v)'
    <2>1. /\ OpIsTyped(v) /\ RequestIsReady(v) /\ SubmitIsReady(v) /\ RequestIsReady(w)
          /\ pc'[v] = pc[v] /\ op'[v] = op[v] /\ answer'[v] = answer[v]
        BY <1>1, <1>3 DEF IInv, OpsAreReady
    <2>2. OpIsTyped(v)'
        BY <2>1 DEF OpIsTyped, Begun, HasSession, HasToken
    <2>3. SubmitIsReady(v)'
        BY <2>1 DEF SubmitIsReady, HasSubmitted
    <2>4. RequestIsReady(v)'
        <3> SUFFICES ASSUME HasRequested(v)' PROVE RequestIsReady(v)'
            BY DEF RequestIsReady
        <3>1. HasRequested(v)
            BY <2>1 DEF HasRequested
        <3>2. CASE op[v].sid \in DOMAIN sessions
            BY <2>1, <3>1, <3>2 DEF RequestIsReady
        <3>3. CASE op[v].sid \notin DOMAIN sessions
            <4>1. op[v].sid \notin DOMAIN sessions'
                BY <1>1, <1>3, <2>1, <3>1, <3>3 DEF RequestIsReady
            <4>2. \A u \in Workers \ {v} : HasRequested(u)' =>
                    HasRequested(u) /\ op'[u].sid = op[u].sid
                BY <1>1 DEF HasRequested
            <4> QED BY <2>1, <3>1, <3>3, <4>1, <4>2 DEF RequestIsReady
        <3> QED BY <3>2, <3>3
    <2> QED BY <2>2, <2>3, <2>4
<1> QED BY <1>1, <1>2, <1>3 DEF OpsAreReady

\* A session is validated: its key stays.
LEMMA CommitSubmitIInv ==
    ASSUME IInv, UNCHANGED pool, NEW w \in pool, CommitSubmit(w)
    PROVE  IInv'
<1> DEFINE o == op[w]
<1>1. /\ o \in WillValidate /\ pc[w] = "commit" /\ w \in Workers
      /\ SubmitIsReady(w) /\ Finish(w, "now_validated")
      /\ UNCHANGED <<pool, now, byKey, tokens, mailed, maincounter>>
      /\ sessions' = Put(sessions, o.sid, o.session)
    BY DEF CommitSubmit, IInv, TypeOK, OpsAreReady, OpIsTyped, WillMail
<1>2. /\ o.sid \in DOMAIN sessions /\ o.session.key = sessions[o.sid].key
      /\ o.session \in SessionRows
    BY <1>1 DEF SubmitIsReady, HasSubmitted, WillValidate
<1>3. /\ DOMAIN sessions' = DOMAIN sessions
      /\ \A s \in DOMAIN sessions : /\ sessions'[s].key = sessions[s].key
                                    /\ sessions[s] \in SessionRows => sessions'[s] \in SessionRows
    BY <1>1, <1>2 DEF Put
<1>4. TypeOK'
    BY <1>1, <1>3, FinishIsOne DEF IInv, TypeOK
<1>5. IdsBelowCounter' /\ KeysNameSessions' /\ LastIsMailed' /\ LatestMailWorks'
    BY <1>1, <1>3 DEF IInv, TypeOK, IdsBelowCounter, KeysNameSessions, LastIsMailed,
                      LatestMailWorks
<1>6. OpsAreReady'
    BY <1>1, <1>3, OthersAreReady DEF MailsOf
<1> QED BY <1>4, <1>5, <1>6 DEF IInv

\* What a RequestToken writes: a session under its id, with the key it had.
LEMMA RequestWrites ==
    ASSUME IInv, UNCHANGED pool, NEW w \in pool, CommitRequest(w)
    PROVE  /\ op[w] \in WillMail /\ RequestIsReady(w) /\ HasRequested(w)
           /\ DOMAIN sessions' = DOMAIN sessions \cup {op[w].sid}
           /\ sessions'[op[w].sid].key = op[w].session.key
           /\ \A s \in DOMAIN sessions : sessions'[s].key = sessions[s].key
           /\ \A s \in DOMAIN sessions' : sessions'[s] \in SessionRows
           /\ byKey' = byKey \/ byKey' = Put(byKey, op[w].session.key, op[w].sid)
<1> DEFINE o == op[w]
<1>1. /\ o \in WillMail /\ pc[w] = "commit" /\ w \in Workers
      /\ RequestIsReady(w) /\ HasRequested(w) /\ CommitSession(o)
    BY DEF CommitRequest, IInv, TypeOK, OpsAreReady, OpIsTyped, WillValidate, HasRequested
<1>2. /\ o.sid \in DOMAIN sessions => o.session.key = sessions[o.sid].key
      /\ o.sid \notin DOMAIN sessions => o.store
      /\ o.session \in SessionRows
    BY <1>1 DEF RequestIsReady, WillMail
<1>3. CASE o.store
    BY <1>1, <1>2, <1>3 DEF CommitSession, Put, IInv, TypeOK
<1>4. CASE ~o.store
    BY <1>1, <1>2, <1>4 DEF CommitSession, IInv, TypeOK
<1> QED BY <1>3, <1>4

LEMMA CommitRequestIInv ==
    ASSUME IInv, UNCHANGED pool, NEW w \in pool, CommitRequest(w)
    PROVE  IInv'
<1> DEFINE o == op[w]
<1>1. /\ o \in WillMail /\ RequestIsReady(w) /\ HasRequested(w)
      /\ DOMAIN sessions' = DOMAIN sessions \cup {o.sid}
      /\ sessions'[o.sid].key = o.session.key
      /\ \A s \in DOMAIN sessions : sessions'[s].key = sessions[s].key
      /\ \A s \in DOMAIN sessions' : sessions'[s] \in SessionRows
      /\ byKey' = byKey \/ byKey' = Put(byKey, o.session.key, o.sid)
    BY RequestWrites
<1>2. /\ Finish(w, "sid") /\ UNCHANGED <<pool, now, maincounter>>
      /\ tokens' = Put(tokens, o.sid, o.auth)
      /\ mailed' = Put(mailed, o.sid, [all |-> MailsOf(o.sid) \cup {MailOf(o)},
                                       last |-> MailOf(o)])
    BY DEF CommitRequest, AddMail
<1>3. /\ o.sid \in Ids /\ o.sid <= maincounter /\ o.session.key \in Keys
      /\ o.auth \in [token : Times, attempt : Attempts]
    BY <1>1 DEF WillMail, SessionRows, RequestIsReady
<1> HIDE DEF o
<1>4. TypeOK'
    <2>1. /\ DOMAIN sessions' \subseteq Ids
          /\ \A k \in DOMAIN byKey' : k \in Keys /\ byKey'[k] \in DOMAIN sessions'
        BY <1>1, <1>3 DEF IInv, TypeOK, Put
    <2>2. /\ DOMAIN tokens' = DOMAIN sessions'
          /\ \A s \in DOMAIN tokens' : tokens'[s] \in [token : Times, attempt : Attempts]
        BY <1>1, <1>2, <1>3 DEF IInv, TypeOK, Put
    <2>3. pc' \in [Workers -> {"idle", "begun", "second", "commit"}]
        BY <1>2, FinishIsOne
    <2> QED BY <1>1, <1>2, <2>1, <2>2, <2>3 DEF IInv, TypeOK
<1>5. IdsBelowCounter'
    BY <1>1, <1>2, <1>3 DEF IInv, IdsBelowCounter
<1>6. KeysNameSessions'
    BY <1>1 DEF IInv, TypeOK, KeysNameSessions, Put
<1>7. /\ o.sid \in DOMAIN mailed' /\ mailed'[o.sid].last = MailOf(o)
      /\ MailOf(o) \in mailed'[o.sid].all
      /\ DOMAIN mailed' = DOMAIN mailed \cup {o.sid}
      /\ \A s \in DOMAIN mailed : s # o.sid => mailed'[s] = mailed[s]
    BY <1>2 DEF Put
<1>8. LastIsMailed'
    BY <1>7 DEF IInv, LastIsMailed
<1>9. LatestMailWorks'
    BY <1>1, <1>2, <1>7 DEF IInv, TypeOK, LatestMailWorks, MailOf, Put
<1>10. \A s \in DOMAIN sessions : MailsOf(s) \subseteq MailsOf(s)'
    BY <1>2, <1>7 DEF MailsOf, Put
<1>11. OpsAreReady'
    BY <1>1, <1>2, <1>10, OthersAreReady DEF o
<1> QED BY <1>4, <1>5, <1>6, <1>8, <1>9, <1>11 DEF IInv

LEMMA StutterIInv == ASSUME IInv, UNCHANGED vars PROVE IInv'
BY DEF IInv, vars, TypeOK, Ids, Times, SessionRows, IdsBelowCounter, KeysNameSessions,
       LastIsMailed, LatestMailWorks, OpsAreReady, OpIsTyped, RequestIsReady,
       SubmitIsReady, HasRequested, HasSubmitted, MailsOf, Begun, HasSession, HasToken,
       WillMail, WillValidate, Sids

LEMMA NextIInv == IInv /\ [Next]_vars => IInv'
<1> SUFFICES ASSUME IInv, [Next]_vars PROVE IInv'
    OBVIOUS
<1>1. CASE Next
    BY <1>1, TickIInv, ClientIInv, RequestFindSessionIInv, RequestFindTokenIInv,
       CommitRequestIInv, SubmitFindTokenIInv, SubmitFindSessionIInv, CommitSubmitIInv,
       CheckSessionIInv DEF Next
<1> QED BY <1>1, StutterIInv

LEMMA Invariance == Spec => []IInv
BY InitIInv, NextIInv, PTL DEF Spec

-------------------------------------------------------------------------------
\* The tables have their types, and no session is without its token
\* (RequestTokenAction commits them together).
THEOREM TypeCorrect == Spec => []TypeOK
<1>1. IInv => TypeOK
    BY DEF IInv
<1> QED BY <1>1, Invariance, PTL

\* Whatever requests overlap, the last mail of a session carries the token that
\* SubmitToken compares with and went to the session's address.
THEOREM MailsCarryTheToken == Spec => []LatestMailWorks
<1>1. IInv => LatestMailWorks
    BY DEF IInv
<1> QED BY <1>1, Invariance, PTL

\* SubmitToken validates a session only for a token that was mailed to its address.
THEOREM OwnershipIsShown == Spec => []ValidationIsEarned
<1>1. IInv => ValidationIsEarned
    BY DEF IInv, OpsAreReady, SubmitIsReady, HasSubmitted, ValidationIsEarned
<1> QED BY <1>1, Invariance, PTL

-------------------------------------------------------------------------------
(* Requests that do not overlap.                                           *)

\* The one thread of a pool acts, and nobody else has a request.
LEMMA AloneIsOne == IInv /\ Alone => \E w \in Workers : pool = {w}
<1>1. IInv => IsFiniteSet(pool) /\ pool \subseteq Workers
    BY FS_Subset, ValidationAssumption DEF IInv, TypeOK
<1> QED BY <1>1, FS_Singleton DEF Alone

\* AddRecord leaves a row alone that names the session already, and adds one for
\* a new session.
LEMMA AloneCommits ==
    ASSUME AloneInv, Alone, UNCHANGED pool, NEW w \in pool, CommitRequest(w)
    PROVE  /\ SessionsCanBeValidated'
           /\ \A s \in DOMAIN sessions : sessions[s].validated => sessions'[s].validated
<1> DEFINE o == op[w]
<1>1. /\ o \in WillMail /\ RequestIsReady(w) /\ HasRequested(w) /\ w \in Workers
      /\ CommitSession(o)
    BY RequestWrites DEF AloneInv, IInv, TypeOK, CommitRequest
<1>2. IF o.sid \in DOMAIN sessions
      THEN /\ o.session.validated = sessions[o.sid].validated
           /\ o.session.key = sessions[o.sid].key
      ELSE o.session.key \notin DOMAIN byKey /\ o.store
    BY <1>1 DEF AloneInv, AloneIsReady, RequestIsReady
<1>3. \A s \in DOMAIN sessions : sessions[s].key \in DOMAIN byKey /\ byKey[sessions[s].key] = s
    BY DEF AloneInv, SessionsCanBeValidated
<1>4. CASE o.sid \in DOMAIN sessions
    <2>1. /\ byKey' = byKey /\ DOMAIN sessions' = DOMAIN sessions
          /\ \A s \in DOMAIN sessions : /\ sessions'[s].key = sessions[s].key
                                        /\ sessions'[s].validated = sessions[s].validated
        BY <1>1, <1>2, <1>4 DEF CommitSession, Put
    <2> QED BY <1>3, <2>1 DEF SessionsCanBeValidated
<1>5. CASE o.sid \notin DOMAIN sessions
    BY <1>1, <1>2, <1>3, <1>5 DEF CommitSession, Put, SessionsCanBeValidated
<1> QED BY <1>4, <1>5

LEMMA AloneValidates ==
    ASSUME AloneInv, Alone, UNCHANGED pool, NEW w \in pool, CommitSubmit(w)
    PROVE  /\ SessionsCanBeValidated'
           /\ \A s \in DOMAIN sessions : sessions[s].validated => sessions'[s].validated
<1> DEFINE o == op[w]
<1>1. /\ o.sid \in DOMAIN sessions /\ o.session.key = sessions[o.sid].key
      /\ o.session.validated /\ byKey' = byKey
      /\ sessions' = Put(sessions, o.sid, o.session)
    BY DEF CommitSubmit, AloneInv, IInv, TypeOK, OpsAreReady, SubmitIsReady, HasSubmitted
<1>2. DOMAIN sessions' = DOMAIN sessions
      /\ \A s \in DOMAIN sessions : /\ sessions'[s].key = sessions[s].key
                                    /\ sessions[s].validated => sessions'[s].validated
    BY <1>1 DEF Put
<1> QED BY <1>1, <1>2 DEF AloneInv, SessionsCanBeValidated

\* What the one request has read is still true when it commits.
LEMMA AloneReads ==
    ASSUME AloneInv, Alone, IInv', UNCHANGED pool, NEW w \in pool,
           RequestFindSession(w) \/ RequestFindToken(w), HasRequested(w)'
    PROVE  IF op'[w].sid \in DOMAIN sessions
           THEN op'[w].session.validated = sessions[op'[w].sid].validated
           ELSE op'[w].session.key \notin DOMAIN byKey
<1> DEFINE o == op[w]
<1>1. IInv /\ pc[w] # "idle" /\ w \in Workers
    BY DEF AloneInv, IInv, TypeOK, RequestFindSession, RequestFindToken
<1>2. \A a : ~Finish(w, a)
    BY <1>1, FinishIsOne DEF HasRequested
<1>3. CASE RequestFindSession(w)
    <2>1. o.key \in DOMAIN byKey =>
            /\ byKey[o.key] \in DOMAIN sessions
            /\ sessions[byKey[o.key]] \in SessionRows
        BY <1>1 DEF IInv, TypeOK
    <2>2. maincounter + 1 \notin DOMAIN sessions
        BY <1>1 DEF IInv, TypeOK, IdsBelowCounter, Ids
    <2>3. CASE o.key \in DOMAIN byKey
        <3>1. PICK s \in {sessions[byKey[o.key]], Rekindled(sessions[byKey[o.key]], o.curr)} :
                op'[w].sid = byKey[o.key] /\ op'[w].session = s
            BY <1>1, <1>3, <2>3, ContinueIsOne DEF RequestFindSession
        <3>2. s.validated = sessions[byKey[o.key]].validated
            BY <2>1, <2>3 DEF Rekindled, SessionRows
        <3> QED BY <2>1, <2>3, <3>1, <3>2
    <2>4. CASE o.key \notin DOMAIN byKey
        <3>1. op'[w].sid = maincounter + 1 /\ op'[w].session.key = o.key
            BY <1>1, <1>3, <2>4, ContinueIsOne DEF RequestFindSession
        <3> QED BY <2>2, <2>4, <3>1
    <2> QED BY <2>3, <2>4
<1>4. CASE RequestFindToken(w)
    <2>1. op'[w].sid = o.sid /\ op'[w].session = o.session
        BY <1>1, <1>2, <1>4, ContinueIsOne DEF RequestFindToken
    <2>2. HasRequested(w)
        BY <1>4 DEF RequestFindToken, HasRequested
    <2> QED BY <1>1, <2>1, <2>2 DEF AloneInv, AloneIsReady
<1> QED BY <1>3, <1>4

LEMMA InitAlone == Init => AloneInv
<1>1. Init => AloneIsReady /\ SessionsCanBeValidated
    BY DEF Init, EmptyLog, AloneIsReady, SessionsCanBeValidated, HasRequested
<1> QED BY <1>1, InitIInv DEF AloneInv

\* A step that writes no table, and after which no request has read more.
LEMMA AloneIdles ==
    ASSUME AloneInv, Alone, IInv', UNCHANGED <<pool, byKey, sessions>>,
           \A v \in pool : HasRequested(v)' =>
              HasRequested(v) /\ op'[v].sid = op[v].sid /\ op'[v].session = op[v].session
    PROVE  AloneInv'
<1>1. ASSUME NEW v \in Workers, HasRequested(v)'
      PROVE  IF op'[v].sid \in DOMAIN sessions
             THEN op'[v].session.validated = sessions[op'[v].sid].validated
             ELSE op'[v].session.key \notin DOMAIN byKey
    <2>1. v \in pool
        BY <1>1 DEF IInv, OpsAreReady, OpIsTyped, HasRequested
    <2> QED BY <1>1, <2>1 DEF AloneInv, AloneIsReady
<1>2. AloneIsReady' /\ SessionsCanBeValidated'
    BY <1>1 DEF AloneInv, AloneIsReady, SessionsCanBeValidated
<1> QED BY <1>2 DEF AloneInv

\* After a step by its thread, what that step makes of its request decides.
LEMMA AloneSteps ==
    ASSUME AloneInv, Alone, UNCHANGED pool, IInv', SessionsCanBeValidated', NEW w \in pool,
           HasRequested(w)' => IF op'[w].sid \in DOMAIN sessions'
                               THEN op'[w].session.validated = sessions'[op'[w].sid].validated
                               ELSE op'[w].session.key \notin DOMAIN byKey'
    PROVE  AloneInv'
<1>1. ASSUME NEW v \in Workers, HasRequested(v)' PROVE v = w
    <2>1. v \in pool
        BY <1>1 DEF IInv, OpsAreReady, OpIsTyped, HasRequested
    <2> QED BY <2>1, AloneIsOne DEF AloneInv
<1>2. AloneIsReady'
    BY <1>1 DEF AloneIsReady
<1> QED BY <1>2 DEF AloneInv

LEMMA AloneWorks ==
    ASSUME AloneInv, Alone, UNCHANGED pool, IInv', NEW w \in pool,
           \/ RequestFindSession(w) \/ RequestFindToken(w) \/ CommitRequest(w)
           \/ SubmitFindToken(w) \/ SubmitFindSession(w) \/ CommitSubmit(w)
           \/ CheckSession(w)
    PROVE  /\ AloneInv'
           /\ \A s \in DOMAIN sessions : sessions[s].validated => sessions'[s].validated
<1>1. IInv /\ w \in Workers
    BY DEF AloneInv, IInv, TypeOK
<1>2. CASE RequestFindSession(w) \/ RequestFindToken(w)
    <2>1. UNCHANGED <<sessions, byKey>>
        BY <1>2 DEF RequestFindSession, RequestFindToken, db
    <2>2. SessionsCanBeValidated'
        BY <2>1 DEF AloneInv, SessionsCanBeValidated
    <2> QED BY <1>2, <2>1, <2>2, AloneReads, AloneSteps
<1>3. CASE CommitRequest(w)
    <2>1. ~HasRequested(w)'
        BY <1>1, <1>3, FinishIsOne DEF CommitRequest, HasRequested
    <2> QED BY <1>3, <2>1, AloneCommits, AloneSteps
<1>4. CASE CommitSubmit(w)
    <2>1. ~HasRequested(w)'
        BY <1>1, <1>4, FinishIsOne DEF CommitSubmit, HasRequested
    <2> QED BY <1>4, <2>1, AloneValidates, AloneSteps
<1>5. CASE SubmitFindToken(w) \/ SubmitFindSession(w) \/ CheckSession(w)
    <2>1. UNCHANGED <<sessions, byKey>>
        BY <1>5 DEF SubmitFindToken, SubmitFindSession, CheckSession, db
    <2>2. \/ \E a : Finish(w, a)
          \/ Continue(w, "second", op[w]) /\ op[w].kind = "submit" /\ pc[w] # "idle"
          \/ \E t, s : Continue(w, "commit", [kind |-> "submit", sid |-> op[w].sid,
                                             token |-> t, session |-> s]) /\ pc[w] # "idle"
        BY <1>5 DEF SubmitFindToken, SubmitFindSession, CheckSession
    <2>3. ~HasRequested(w)'
        <3>1. CASE \E a : Finish(w, a)
            BY <1>1, <3>1, FinishIsOne DEF HasRequested
        <3>2. CASE Continue(w, "second", op[w]) /\ op[w].kind = "submit" /\ pc[w] # "idle"
            BY <1>1, <3>2, ContinueIsOne DEF HasRequested
        <3>3. ASSUME NEW t, NEW s, pc[w] # "idle",
                     Continue(w, "commit", [kind |-> "submit", sid |-> op[w].sid,
                                            token |-> t, session |-> s])
              PROVE  ~HasRequested(w)'
            <4> DEFINE n == [kind |-> "submit", sid |-> op[w].sid, token |-> t, session |-> s]
            <4>1. n.kind = "submit"
                OBVIOUS
            <4> HIDE DEF n
            <4>2. op'[w] = n
                BY <1>1, <3>3, ContinueIsOne DEF n
            <4> QED BY <4>1, <4>2 DEF HasRequested
        <3> QED BY <2>2, <3>1, <3>2, <3>3
    <2>4. SessionsCanBeValidated'
        BY <2>1 DEF AloneInv, SessionsCanBeValidated
    <2> QED BY <2>1, <2>3, <2>4, AloneSteps
<1> QED BY <1>2, <1>3, <1>4, <1>5

LEMMA AloneNext ==
    ASSUME AloneInv, [Next]_vars
    PROVE  /\ AloneInv'
           /\ [Alone => \A s \in DOMAIN sessions :
                          sessions[s].validated => sessions'[s].validated]_vars
<1> DEFINE Kept == \A s \in DOMAIN sessions : sessions[s].validated => sessions'[s].validated
<1>1. IInv' /\ UNCHANGED pool
    BY NextIInv DEF AloneInv, Next, vars
<1>2. CASE ~Alone
    BY <1>1, <1>2 DEF AloneInv, AloneIsReady, SessionsCanBeValidated, Alone
<1>3. ASSUME Alone, UNCHANGED vars PROVE AloneInv'
    BY <1>1, <1>3, AloneIdles DEF vars, HasRequested
<1>4. ASSUME Alone, Tick PROVE AloneInv' /\ Kept
    BY <1>1, <1>4, AloneIdles DEF Tick, db, HasRequested
<1>5. ASSUME Alone, NEW w \in pool, NEW request, Begin(w, request) PROVE AloneInv' /\ Kept
    <2>1. UNCHANGED <<sessions, byKey>> /\ ~HasRequested(w)'
        BY <1>5 DEF Begin, db, HasRequested, AloneInv, IInv, TypeOK
    <2>2. SessionsCanBeValidated'
        BY <1>1, <2>1 DEF AloneInv, SessionsCanBeValidated, Alone
    <2> QED BY <1>1, <1>5, <2>1, <2>2, AloneSteps
<1>6. ASSUME Alone, Next PROVE AloneInv' /\ Kept
    BY <1>1, <1>4, <1>5, <1>6, AloneWorks DEF Next, RequestToken, SubmitToken, GetValidated
<1> QED BY <1>2, <1>3, <1>6

LEMMA AloneInvariance == Spec => []AloneInv
<1>1. AloneInv /\ [Next]_vars => AloneInv'
    BY AloneNext
<1> QED BY <1>1, InitAlone, PTL DEF Spec

\* On a server with one request thread AddRecord never fails for a session: its
\* unique key names it.
THEOREM AloneNamesItsSessions == Spec => []SessionsCanBeValidated
<1>1. AloneInv => SessionsCanBeValidated
    BY DEF AloneInv
<1> QED BY <1>1, AloneInvariance, PTL

\* On such a server a session that has been validated stays validated, also when
\* RequestToken renews it.
THEOREM AloneValidatedStays == Spec => ValidatedStays
<1> DEFINE Kept == Alone => \A s \in DOMAIN sessions :
                              sessions[s].validated => sessions'[s].validated
<1>1. AloneInv /\ [Next]_vars => [Kept]_vars
    BY AloneNext
<1>2. Spec => [][Kept]_vars
    BY <1>1, AloneInvariance, PTL DEF Spec
<1> QED BY <1>2 DEF ValidatedStays

-------------------------------------------------------------------------------
\* The unsigned difference of two times of the clock.
LEMMA UnsignedDifference ==
    ASSUME NEW c \in Times, NEW m \in Times, m <= c
    PROVE  (c - m + Word) % Word = c - m
<1>1. c - m \in 0 .. Word - 1 /\ Word \in Nat /\ Word > 0
    BY ValidationAssumption DEF Times
<1> HIDE DEF Times
<1>2. \A d \in 0 .. Word - 1 : (d + Word) % Word = d
    BY <1>1
<1> QED BY <1>1, <1>2

\* SubmitToken calls a session expired only when it is older than its lifetime or
\* newer than the request.
THEOREM ExpiryIsReal == Spec => ExpiredIsExpired
<1> DEFINE Real == \A w \in Workers :
         op[w].kind = "submit" /\ pc[w] = "second" /\ answer'[w] = "session_expired"
           => \/ now > sessions[op[w].sid].mtime + Lifetime
              \/ sessions[op[w].sid].mtime > op[w].curr
<1>1. IInv /\ [Next]_vars => [Real]_vars
    <2> SUFFICES ASSUME IInv, Next, NEW w \in Workers, op[w].kind = "submit",
                        pc[w] = "second", answer'[w] = "session_expired",
                        ~(sessions[op[w].sid].mtime > op[w].curr)
                 PROVE  now > sessions[op[w].sid].mtime + Lifetime
        OBVIOUS
    <2>1. answer[w] = "none" /\ w \in pool
        BY DEF IInv, OpsAreReady, OpIsTyped
    <2>2. SubmitFindSession(w)
        <3>1. PICK v \in pool :
                \/ \E k \in Keys : \/ \E a \in Attempts : RequestToken(v, k, a)
                                   \/ \E i \in Sids, t \in 0 .. MaxTime : SubmitToken(v, k, i, t)
                                   \/ \E i \in Sids : GetValidated(v, k, i)
                \/ RequestFindSession(v) \/ RequestFindToken(v) \/ CommitRequest(v)
                \/ SubmitFindToken(v) \/ SubmitFindSession(v) \/ CommitSubmit(v)
                \/ CheckSession(v)
            BY <2>1 DEF Next, Tick
        <3>2. (\E a : Finish(v, a)) \/ (\E r : Begin(v, r)) \/ (\E l, o : Continue(v, l, o))
            <4>1. CASE SubmitFindSession(v)
                BY <4>1 DEF SubmitFindSession
            <4>2. CASE RequestFindSession(v)
                BY <4>2 DEF RequestFindSession
            <4> QED BY <3>1, <4>1, <4>2 DEF RequestToken, SubmitToken, GetValidated,
                    RequestFindToken, CommitRequest, SubmitFindToken, CommitSubmit, CheckSession
        <3>3. v = w
            BY <2>1, <3>2 DEF IInv, TypeOK, OpsAreReady, Finish, Begin, Continue
        <3>4. /\ \A r : ~Begin(v, r)
              /\ op[v].kind = "submit" /\ pc[v] = "second"
            BY <3>3 DEF Begin
        <3> QED BY <3>1, <3>3, <3>4 DEF RequestToken, SubmitToken, GetValidated,
                RequestFindSession, RequestFindToken, CommitRequest, SubmitFindToken,
                CommitSubmit, CheckSession
    <2> DEFINE o == op[w]
               s == sessions[o.sid]
    <2>3. Expired(o.curr, s.mtime)
        BY <2>1, <2>2 DEF SubmitFindSession, Finish, Continue, IInv, OpsAreReady
    <2>4. o \in HasToken /\ o.sid \in DOMAIN sessions
        BY <2>1 DEF IInv, OpsAreReady, OpIsTyped, HasSession, SubmitIsReady, HasSubmitted
    <2>5. /\ o.curr \in Times /\ s.mtime \in Times /\ s.mtime <= o.curr
          /\ o.curr <= now /\ now \in Nat
        BY <2>4, ValidationAssumption DEF IInv, TypeOK, HasToken, SessionRows, Times
    <2>6. o.curr - s.mtime > Lifetime
        BY <2>3, <2>5, UnsignedDifference DEF Expired
    <2> QED BY <2>5, <2>6, ValidationAssumption DEF Times
<1>2. Spec => [][Real]_vars
    BY <1>1, Invariance, PTL DEF Spec
<1> QED BY <1>2 DEF ExpiredIsExpired

===============================================================================
