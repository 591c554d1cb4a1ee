-------------------------------- MODULE MCMail --------------------------------
(***************************************************************************)
(* Small instances of Mail: two threads, six mails, two in a reply.        *)
(***************************************************************************)
EXTENDS Mail

CONSTANTS w1, w2

===============================================================================
