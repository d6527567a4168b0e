---------------------------- MODULE MCDatapath ------------------------------
(* Datapath for TLC. *)
EXTENDS Datapath

F(len, ip4, udp, ihl, port, gpdu) ==
    [len |-> len, ip4 |-> ip4, udp |-> udp, ihl |-> ihl, port |-> port, gpdu |-> gpdu]

\* A frame too short, one that is not UDP, UDP of another port, a G-PDU cut
\* short, a control message, and a G-PDU with IP options whose inner packet is
\* a bare IPv4 header.
MCFrames == {F(13, FALSE, FALSE, 0, FALSE, FALSE), F(34, TRUE, FALSE, 5, FALSE, FALSE),
             F(42, TRUE, TRUE, 5, FALSE, FALSE), F(49, TRUE, TRUE, 5, TRUE, TRUE),
             F(50, TRUE, TRUE, 5, TRUE, FALSE), F(110, TRUE, TRUE, 15, TRUE, TRUE)}
=============================================================================
