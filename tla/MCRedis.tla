------------------------------ MODULE MCRedis ------------------------------
(***************************************************************************)
(* Values for the constants of Redis that TLC checks it with.              *)
(***************************************************************************)
EXTENDS Redis, TLC

\* Keys are interchangeable.
KeySymmetry == Permutations(Key)
=============================================================================
