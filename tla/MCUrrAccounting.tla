-------------------------- MODULE MCUrrAccounting ---------------------------
(* UrrAccounting for TLC.                                                  *)
EXTENDS UrrAccounting, TLC

CONSTANTS c1, c2, u1, u2

Symmetry == Permutations(CPUs) \cup Permutations(Urrs)
=============================================================================
