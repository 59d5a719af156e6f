------------------------------- MODULE MCRcu -------------------------------
(* Instance of Rcu for TLC: threads, rcu_ptr objects and heap objects are   *)
(* interchangeable, so each set may be reduced by symmetry.                  *)
EXTENDS Rcu, TLC

MCSymmetry == Permutations(Threads) \cup Permutations(Ptrs) \cup Permutations(Objects)
=============================================================================
