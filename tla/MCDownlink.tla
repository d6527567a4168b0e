----------------------------- MODULE MCDownlink -----------------------------
(* Downlink for TLC. *)
EXTENDS Downlink, TLC

CONSTANTS c1, e1, e2, e3

\* With the second gNB and the first N3 address the header's words add up to
\* 0x1ffff, whose first fold carries again.
MCUes == {[teid |-> 4097, gnb |-> <<10, 0, 0, 2>>],
          [teid |-> 16909060, gnb |-> <<113, 181, 255, 255>>]}
MCN3s == {<<10, 0, 0, 1>>, <<255, 255, 255, 254>>}

F(len, udp, ihl, port) ==
    [len |-> len, ip4 |-> TRUE, udp |-> udp, ihl |-> ihl, port |-> port, gpdu |-> FALSE]

\* A bare IPv4 header, UDP whose header is cut off, a longest packet, a larger
\* one (GSO), and a packet that is GTP-U already.
MCFrames == {F(34, FALSE, 5, FALSE), F(41, TRUE, 5, TRUE), F(65513, TRUE, 5, FALSE),
             F(65514, FALSE, 5, FALSE), F(80, TRUE, 6, TRUE)}

Symmetry == Permutations(Elems)
=============================================================================
