------------------------------ MODULE Headers -------------------------------
(***************************************************************************)
(* How the three programs read a frame.  upf_xdp_uplink, upf_tc_ingress    *)
(* and upf_tc_egress each parse it on their own, with bounds tests against *)
(* the bytes they can see.  A frame is what these tests tell apart: its    *)
(* length, is it IPv4, is it UDP, the IHL field, and whether the bytes at  *)
(* the place IHL points to hold the GTP-U port and then message type 0xff. *)
(***************************************************************************)
EXTENDS Naturals

CONSTANTS
    Pulled   \* bytes of a longer frame that an sk_buff keeps in its linear part

\* Ethernet, IPv4 with all its options, UDP and GTP-U headers.
ASSUME PulledAssumption == Pulled \in Nat /\ Pulled >= 14 + 60 + 8 + 8

Frame == [len : Nat, ip4 : BOOLEAN, udp : BOOLEAN, ihl : 0..15,
          port : BOOLEAN, gpdu : BOOLEAN]

ETH == 14
IP == 20
UDP == 8
GTP == 8

L4(f) == ETH + 4 * f.ihl

\* data_end - data of a TC program; an XDP program sees the whole frame.
Linear(f) == IF f.len > Pulled THEN Pulled ELSE f.len

\* upf_xdp_uplink.
XdpParse(f) ==
    CASE f.len < ETH -> "drop"
      [] f.len >= ETH /\ ~f.ip4 -> "pass"
      [] f.len >= ETH /\ f.ip4 /\ f.len < ETH + IP -> "drop"
      [] f.len >= ETH + IP /\ f.ip4 /\ ~f.udp -> "pass"
      [] f.len >= ETH + IP /\ f.ip4 /\ f.udp ->
           IF 4 * f.ihl < IP \/ f.len < L4(f) + UDP THEN "drop"
           ELSE IF ~f.port THEN "nongtp"
           ELSE IF f.len < L4(f) + UDP + GTP THEN "short"
           ELSE IF f.gpdu THEN "gpdu" ELSE "ctrl"

\* MUTANT of TcGpdu: the message type is not looked at.
TcGpduAnyType(f) ==
    /\ Linear(f) >= ETH + IP /\ f.ip4 /\ f.udp
    /\ 4 * f.ihl >= IP
    /\ Linear(f) >= L4(f) + UDP + GTP /\ f.port

\* upf_tc_ingress goes on to its lookups.
TcGpdu(f) ==
    /\ Linear(f) >= ETH + IP /\ f.ip4 /\ f.udp
    /\ 4 * f.ihl >= IP
    /\ Linear(f) >= L4(f) + UDP + GTP /\ f.port /\ f.gpdu

\* MUTANT of EgressPlain: the test for GTP-U is lost.
EgressPlainAlways(f) == Linear(f) >= ETH + IP /\ f.ip4

\* upf_tc_egress goes on to its lookup: IPv4 that is not GTP-U already.
EgressPlain(f) ==
    /\ Linear(f) >= ETH + IP /\ f.ip4
    /\ ~(f.udp /\ Linear(f) >= L4(f) + UDP /\ f.port)

\* outer_hdr_len, which upf_far_forward strips.
OuterLen(f) == 4 * f.ihl + UDP + GTP

\* add_len, which upf_tc_egress puts in front of the packet.
AddLen == IP + UDP + GTP
=============================================================================
