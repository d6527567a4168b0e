------------------------------ MODULE MCUplink ------------------------------
(* Uplink for TLC: sessions s1 and s2 belong to one process, s3 to another. *)
EXTENDS Uplink, TLC

CONSTANTS s1, s2, s3, p1, p2, c1, c2

MCOwner == [s \in Sessions |-> IF s = s3 THEN p2 ELSE p1]

\* One FAR of each action (0 is install_far's default interface).
MCFars == {<<"FORWARD", 2>>, <<"BUFFER", 0>>, <<"DROP", 0>>}

Symmetry == Permutations(CPUs)
=============================================================================
