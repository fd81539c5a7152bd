------------------------------- MODULE MCSite -------------------------------
(***************************************************************************)
(* Instances of Site.                                                      *)
(***************************************************************************)
EXTENDS Site, TLC

\* Workers, kits and users are interchangeable.
Symmetry == Permutations(Worker) \cup Permutations(Kit) \cup Permutations(User)
=============================================================================
