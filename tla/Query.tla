--------------------------------- MODULE Query ---------------------------------
(***************************************************************************)
(* The endpoints of the web server: the method and path each is bound to,  *)
(* what it refuses before it acts, and where it acts.  Writes, and the     *)
(* reads that must be current, act on the master ("master"): an instance   *)
(* that is not the master forwards them.  The others act on the instance   *)
(* that was asked ("here").                                                *)
(*                                                                         *)
(* A path is its name and the number of question marks that are left after *)
(* it.  The order of the checks does not matter here: none of them changes *)
(* anything.  A handler also refuses while is_ready is FALSE, but none is  *)
(* run before it is TRUE: run() is called after that.                      *)
(***************************************************************************)
EXTENDS Naturals

\* marked: the pattern of the path is the name, a question mark, anything;
\* otherwise the name is all of it.
Post(refusals, at) ==
    [method |-> "POST", marked |-> FALSE, refuses |-> refusals, acts |-> at]
Get(refusals, at) ==
    [method |-> "GET", marked |-> TRUE, refuses |-> refusals, acts |-> at]

\* A body that is no JSON, or no form, or no query string.
BadBody   == {"M_BAD_JSON", "M_UNKNOWN"}
BadParams == {"M_UNKNOWN"}
Missing   == {"M_MISSING_PARAMS"}
\* No valid access key, for callers without the shared secret.
NoKey     == {"M_UNKNOWN"}

Help  == [method |-> "GET", marked |-> FALSE, refuses |-> {}, acts |-> "here"]
Info  == [method |-> "GET", marked |-> FALSE, refuses |-> {}, acts |-> "here"]

RequestTokenPost     == Post(BadBody, "master")
RequestTokenGet      == Get(BadParams, "master")
SubmitTokenPost      == Post(BadBody, "master")
SubmitTokenGet       == Get(BadParams, "master")
GetValidated3pidPost == Post(BadBody \cup Missing, "master")
GetValidated3pidGet  == Get(BadParams, "master")
\* The bind handlers then post the result to the homeserver of the Matrix id, on the
\* same thread, before they answer.  The post ends after 3 s at the latest, throws
\* nothing and changes nothing here whatever its outcome: it is part of the time
\* that passes until Cluster's Respond or Forwarded.
BindPost             == Post(BadBody \cup Missing, "master")
BindGet              == Get(BadParams \cup Missing, "master")
StoreInvitePost      == Post(BadBody \cup NoKey, "master")
GetMailsToSendPost   == Post(BadBody \cup NoKey, "master")
GetAccessKeyPost     == Post(BadBody \cup Missing, "master")
GetAccessKeyGet      == Get(BadParams, "master")
SetBlobDataPost      == Post(BadBody, "master")

LookupPost     == Post(BadBody \cup NoKey, "here")
LookupGet      == Get(BadParams \cup NoKey, "here")
BulkLookupPost == Post(BadBody \cup NoKey, "here")
GetBlobDataPost == Post(BadBody, "here")
GetBlobDataGet  == Get(BadParams, "here")
SignPost        == Post(BadBody \cup Missing, "here")
\* The pattern ends in the key itself, not in a question mark.
PubKeyGet ==
    [method |-> "GET", marked |-> FALSE, refuses |-> BadParams, acts |-> "here"]
PubKeyValidGet    == Get(BadParams, "here")
EphemeralValidGet == Get(BadParams, "here")

Endpoints ==
    {Help, Info, RequestTokenPost, RequestTokenGet, SubmitTokenPost,
     SubmitTokenGet, GetValidated3pidPost, GetValidated3pidGet, BindPost,
     BindGet, StoreInvitePost, GetMailsToSendPost, GetAccessKeyPost,
     GetAccessKeyGet, SetBlobDataPost, LookupPost, LookupGet, BulkLookupPost,
     GetBlobDataPost, GetBlobDataGet, SignPost, PubKeyGet, PubKeyValidGet,
     EphemeralValidGet}

-------------------------------------------------------------------------------
\* The question marks in the request line of a call: a GET with parameters, as
\* the help text writes it, has one.
MarksSent(e) == IF e.marked THEN 1 ELSE 0

\* RequestMessage::parse cuts the target at its last question mark: that one
\* and the query string after it are not part of the path.
MarksLeft(sent) == IF sent = 0 THEN 0 ELSE sent - 1

\* find_resource: the path matches the pattern of e.
Found(e, left) == IF e.marked THEN left >= 1 ELSE left = 0

===============================================================================
