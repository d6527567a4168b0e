--------------------------- MODULE UrrAccounting ----------------------------
(***************************************************************************)
(* Usage accounting: upf_urr_update of bpf/upf_tc.c on several CPUs, and   *)
(* read_urr of loader/agent.py adding the per-CPU counters up meanwhile.   *)
(* urr_counters is a BPF_MAP_TYPE_PERCPU_HASH: one key, one value per CPU. *)
(***************************************************************************)
EXTENDS Naturals, FiniteSets, Functions, Metering

CONSTANTS
    Urrs,      \* URR ids in use (0, no URR, is accounted nowhere)
    MaxUrrs,   \* max_entries of urr_counters
    MaxPkts    \* bound on the packets metered

ASSUME UrrAssumption ==
    /\ IsFiniteSet(CPUs) /\ Lens \subseteq Nat \ {0}
    /\ MaxUrrs \in Nat /\ MaxPkts \in Nat
    /\ NONE \notin Urrs \X Lens /\ NONE \notin Urrs

VARIABLES
    present,   \* keys of urr_counters
    bytes,     \* bytes_ul of each URR on each CPU, 0 where absent
    pkts,      \* pkts_ul
    pend,      \* the packet whose lookup missed on each CPU, or NONE
    ran,       \* history: packets accounted to each URR by each CPU
    ranBytes,  \* history: their bytes
    rurr,      \* the URR the agent is reading, or NONE
    rleft,     \* CPUs it has still to read
    rsum,      \* bytes added up so far
    rfloor     \* history: the counters when it began

counters == <<present, bytes, pkts>>
hvars == <<ran, ranBytes>>
rvars == <<rurr, rleft, rsum, rfloor>>
vars == <<present, bytes, pkts, pend, ran, ranBytes, rurr, rleft, rsum, rfloor>>

Zero == [u \in Urrs |-> [c \in CPUs |-> 0]]

TypeOK ==
    /\ present \subseteq Urrs /\ Cardinality(present) =< MaxUrrs
    /\ bytes \in [Urrs -> [CPUs -> Nat]] /\ pkts \in [Urrs -> [CPUs -> Nat]]
    /\ pend \in [CPUs -> (Urrs \X Lens) \cup {NONE}]
    /\ ran \in [Urrs -> [CPUs -> Nat]] /\ ranBytes \in [Urrs -> [CPUs -> Nat]]
    /\ rurr \in Urrs \cup {NONE} /\ rleft \subseteq CPUs
    /\ rsum \in Nat /\ rfloor \in [CPUs -> Nat]

Init ==
    /\ present = {} /\ bytes = Zero /\ pkts = Zero
    /\ pend = [c \in CPUs |-> NONE]
    /\ ran = Zero /\ ranBytes = Zero
    /\ rurr = NONE /\ rleft = {} /\ rsum = 0 /\ rfloor = [c \in CPUs |-> 0]

-----------------------------------------------------------------------------
\* All packets accounted so far, for the bound.
Total == Cardinality({x \in Urrs \X CPUs \X (1..MaxPkts) : x[3] =< ran[x[1]][x[2]]})

Ran(c, u, l) ==
    /\ Total < MaxPkts
    /\ ran' = [ran EXCEPT ![u][c] = @ + 1]
    /\ ranBytes' = [ranBytes EXCEPT ![u][c] = @ + l]

\* The key exists: this CPU's value is incremented in place.
Account(c, u, l) ==
    /\ pend[c] = NONE
    /\ u \in present
    /\ bytes' = [bytes EXCEPT ![u][c] = @ + l]
    /\ pkts' = [pkts EXCEPT ![u][c] = @ + 1]
    /\ Ran(c, u, l)
    /\ UNCHANGED <<present, pend, rvars>>

\* The lookup misses; other CPUs may run before the update below.
Miss(c, u, l) ==
    /\ pend[c] = NONE
    /\ u \notin present
    /\ pend' = [pend EXCEPT ![c] = <<u, l>>]
    /\ UNCHANGED <<counters, hvars, rvars>>

\* MUTANT of Fresh: the new entry shows the packet on every CPU.
FreshEverywhere(c, n) == [d \in CPUs |-> n]

\* A program's insertion sets its own CPU's value and zeroes the others.
Fresh(c, n) == [d \in CPUs |-> IF d = c THEN n ELSE 0]

\* MUTANT of Room: off by one.
RoomForOneMore == Cardinality(present) =< MaxUrrs

Room == Cardinality(present) < MaxUrrs

\* bpf_map_update_elem with BPF_NOEXIST: fails if another CPU has created
\* the key, or if the map is full; its result is not looked at.
Create(c) ==
    LET u == pend[c][1]
        l == pend[c][2]
    IN  /\ pend[c] # NONE
        /\ IF u \notin present /\ Room
           THEN /\ present' = present \cup {u}
                /\ bytes' = [bytes EXCEPT ![u] = Fresh(c, l)]
                /\ pkts' = [pkts EXCEPT ![u] = Fresh(c, 1)]
           ELSE UNCHANGED counters
        /\ Ran(c, u, l)
        /\ pend' = [pend EXCEPT ![c] = NONE]
        /\ UNCHANGED rvars

-----------------------------------------------------------------------------
\* read_urr dumps the map; the values of one key are copied CPU by CPU.
ReadBegin(u) ==
    /\ rurr = NONE
    /\ u \in present
    /\ rurr' = u
    /\ rleft' = CPUs
    /\ rsum' = 0
    /\ rfloor' = bytes[u]
    /\ UNCHANGED <<counters, pend, hvars>>

\* MUTANT of ReadCpu: the packet counter is unpacked for the byte counter.
ReadCpuPkts(c) ==
    /\ c \in rleft
    /\ rsum' = rsum + pkts[rurr][c]
    /\ rleft' = rleft \ {c}
    /\ UNCHANGED <<counters, pend, hvars, rurr, rfloor>>

ReadCpu(c) ==
    /\ c \in rleft
    /\ rsum' = rsum + bytes[rurr][c]
    /\ rleft' = rleft \ {c}
    /\ UNCHANGED <<counters, pend, hvars, rurr, rfloor>>

ReadEnd ==
    /\ rurr # NONE
    /\ rleft = {}
    /\ rurr' = NONE
    /\ rsum' = 0
    /\ rfloor' = [c \in CPUs |-> 0]
    /\ UNCHANGED <<counters, pend, hvars, rleft>>

Next ==
    \/ \E c \in CPUs : \/ \E u \in Urrs, l \in Lens : Account(c, u, l) \/ Miss(c, u, l)
                       \/ Create(c)
                       \/ ReadCpu(c)
    \/ \E u \in Urrs : ReadBegin(u)
    \/ ReadEnd

Spec == Init /\ [][Next]_vars

-----------------------------------------------------------------------------
\* The counts of u miss at most one packet per CPU, and nothing is counted
\* that did not run.
LosesAtMostOne(u) ==
    \A c \in CPUs :
        /\ pkts[u][c] =< ran[u][c] /\ ran[u][c] =< pkts[u][c] + 1
        /\ bytes[u][c] =< ranBytes[u][c]

\* upf_tc.c: the creation race costs "at most one packet's count per
\* (urr_id, CPU) pair".  That holds of the URRs that found room in the map;
\* one that did not is counted nowhere.
PresentLosesOne ==
    /\ \A u \in present : LosesAtMostOne(u)
    /\ \A u \in Urrs \ present : bytes[u] = Zero[u] /\ pkts[u] = Zero[u]

\* What read_urr reports lies between the counters when it began and the
\* usage when it ended, although counting goes on meanwhile.
ReportBounded ==
    rurr # NONE /\ rleft = {} =>
        SumFunction(rfloor) =< rsum /\ rsum =< SumFunction(ranBytes[rurr])
=============================================================================
