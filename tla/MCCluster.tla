------------------------------- MODULE MCCluster -------------------------------
(***************************************************************************)
(* Small instances of Cluster.                                             *)
(***************************************************************************)
EXTENDS Cluster
CONSTANTS p, s, t, r1

===============================================================================
