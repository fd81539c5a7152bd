------------------------------- MODULE MCCart -------------------------------
(***************************************************************************)
(* Instances of Cart.                                                      *)
(***************************************************************************)
EXTENDS Cart, TLC

\* Slots, and calls, are interchangeable.
Symmetry == Permutations(Slot) \cup Permutations(Call)
=============================================================================
