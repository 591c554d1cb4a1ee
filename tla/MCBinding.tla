------------------------------ MODULE MCBinding ------------------------------
(***************************************************************************)
(* A small instance of Binding.  Addresses are numbers: the second starts  *)
(* with the first and comes before it in the index, as a longer telephone  *)
(* number does; the first has nine digits.                                 *)
(***************************************************************************)
EXTENDS Binding

CONSTANTS w1, w2, m1, m2

TwoAddrs == {1, 2}
Prefixed == [a \in TwoAddrs |-> a .. 2]
LongerFirst == [a \in TwoAddrs |-> 3 - a]

===============================================================================
