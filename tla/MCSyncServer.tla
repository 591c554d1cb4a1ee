----------------------------- MODULE MCSyncServer -----------------------------
(***************************************************************************)
(* Small instances of SyncServer.  The slaves are interchangeable.         *)
(***************************************************************************)
EXTENDS SyncServer, TLC
CONSTANTS p, s, t

SlaveSymmetry == Permutations({s, t})

===============================================================================
