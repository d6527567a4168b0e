---------------------------- MODULE MCQerBucket -----------------------------
(* QerBucket for TLC.  Word, Cap and Div are scaled down so that credit is *)
(* truncated (Div = 2), capped (MaxTime > Cap) and wraps (Cap * mbr >      *)
(* Word), while a difference of two times does not.                        *)
EXTENDS QerBucket, TLC

CONSTANTS c1, c2

Symmetry == Permutations(CPUs)
=============================================================================
