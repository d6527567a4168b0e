----------------------------- MODULE MCTcBundle -----------------------------
(* TcBundle for TLC. *)
EXTENDS TcBundle, TLC

CONSTANTS w1, w2, c1, c2, e1, e2, e3, e4

OneField == {"far_id"}
TwoFields == {"far_id", "qer_id"}
MCIds == {1, 2}

\* Elements, CPUs and writers are interchangeable.
Symmetry == Permutations(Elems) \cup Permutations(CPUs) \cup Permutations(Writers)
=============================================================================
