------------------------------ MODULE Metering ------------------------------
(* What QER policing and URR accounting share: upf_tc.c does both to the   *)
(* same packets on the same CPUs, and nothing else connects them.          *)

CONSTANTS
    CPUs,
    Lens,      \* packet lengths
    NONE
=============================================================================
