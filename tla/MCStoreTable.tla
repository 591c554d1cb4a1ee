----------------------------- MODULE MCStoreTable -----------------------------
(***************************************************************************)
(* Small instances of StoreTable: two keys, so that an id can be handed    *)
(* out again for another key.                                              *)
(***************************************************************************)
EXTENDS StoreTable

CONSTANTS w1, w2, k1, k2, v1, v2

===============================================================================
