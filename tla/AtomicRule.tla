----------------------------- MODULE AtomicRule -----------------------------
(***************************************************************************)
(* What the tc_bundle mechanism promises (comments of struct tc_bundle and *)
(* of modify_tc_bundle): the entry of a PDR is one atomic register holding *)
(* a whole tuple; a modification replaces it in a single step that raises  *)
(* the generation by one; a packet uses one value of the register only.    *)
(***************************************************************************)
EXTENDS Naturals

CONSTANTS CPUs, Fields, NONE

AllFields == Fields \cup {"generation"}
Loads == AllFields \cup {"key"}
FieldOf(l) == IF l = "key" THEN "far_id" ELSE l
Blank == [l \in Loads |-> NONE]

VARIABLES
    rule,    \* the tuple in force, or NONE
    got,     \* the tuple each CPU's packet took, or NONE
    dec      \* the part of it the packet has used

vars == <<rule, got, dec>>

Init ==
    /\ rule = NONE
    /\ got = [c \in CPUs |-> NONE]
    /\ dec = [c \in CPUs |-> Blank]

\* A new rule starts at generation 0, a modification adds one.
Install ==
    /\ rule' # NONE
    /\ rule'["generation"] = 0
    /\ UNCHANGED <<got, dec>>

Modify ==
    /\ rule # NONE /\ rule' # NONE
    /\ rule'["generation"] = rule["generation"] + 1
    /\ UNCHANGED <<got, dec>>

Delete ==
    /\ rule' = NONE
    /\ UNCHANGED <<got, dec>>

Take(c) ==
    /\ got[c] = NONE /\ rule # NONE
    /\ got' = [got EXCEPT ![c] = rule]
    /\ UNCHANGED <<rule, dec>>

Use(c, l) ==
    /\ got[c] # NONE
    /\ dec' = [dec EXCEPT ![c][l] = got[c][FieldOf(l)]]
    /\ UNCHANGED <<rule, got>>

Done(c) ==
    /\ got' = [got EXCEPT ![c] = NONE]
    /\ dec' = [dec EXCEPT ![c] = Blank]
    /\ UNCHANGED rule

Next ==
    \/ Install \/ Modify \/ Delete
    \/ \E c \in CPUs : Take(c) \/ Done(c) \/ \E l \in Loads : Use(c, l)

Spec == Init /\ [][Next]_vars
=============================================================================
