----------------------------- MODULE QerBucket ------------------------------
(***************************************************************************)
(* upf_qer_admit of bpf/upf_tc.c: the token bucket that enforces a QER's   *)
(* uplink MBR, in both builds.  By default every CPU has a bucket of its   *)
(* own (qer_state); with UPF_QER_SHARED_LOCK all CPUs share one behind a   *)
(* spin lock (qer_state_shared), and `now` is sampled before the lock is   *)
(* taken.  install_qer of loader/agent.py rewrites the QER meanwhile.      *)
(***************************************************************************)
EXTENDS Integers, Metering

CONSTANTS
    SharedLock,  \* built with -DUPF_QER_SHARED_LOCK?
    AllCPUs,     \* names the shared bucket
    Mbrs,        \* values of mbr_ul_bps
    Bursts,      \* values of burst_bytes
    Word,        \* 2^64: arithmetic on __u64 wraps here
    Cap,         \* longest elapsed time credited (1000000000 ns)
    Div,         \* bit-nanoseconds per byte-second (8000000000)
    MaxTime      \* bound on the clock

ASSUME QerAssumption ==
    /\ SharedLock \in BOOLEAN
    /\ Mbrs \subseteq Nat /\ Bursts \subseteq Nat /\ Lens \subseteq Nat
    /\ Word \in Nat \ {0} /\ Cap \in Nat /\ Div \in Nat \ {0}
    /\ MaxTime \in Nat
    /\ NONE \notin Nat

Buckets == IF SharedLock THEN {AllCPUs} ELSE CPUs
BucketOf(c) == IF SharedLock THEN AllCPUs ELSE c

VARIABLES
    clock,     \* bpf_ktime_get_ns
    mbr,       \* qer_table[id].mbr_ul_bps
    burst,     \* qer_table[id].burst_bytes
    tokens,    \* tokens_bytes of each bucket
    last,      \* last_ns of each bucket, 0 before its first use
    now,       \* `now` of the packet each CPU is metering, or NONE
    len,       \* its length
    since,     \* history: earliest `now` charged to it under this QER, or 0
    admitted,  \* history: bytes admitted under this QER
    rewound    \* history: by how much last_ns has gone backwards after since

qvars == <<clock, mbr, burst, tokens, last, now, len, since, admitted, rewound>>
qhvars == <<since, admitted, rewound>>

QerTypeOK ==
    /\ clock \in 1..(MaxTime + 1)
    /\ mbr \in Mbrs /\ burst \in Bursts
    /\ tokens \in [Buckets -> Nat]
    /\ last \in [Buckets -> Nat]
    /\ now \in [CPUs -> Nat \cup {NONE}]
    /\ len \in [CPUs -> Nat]
    /\ since \in [Buckets -> Nat]
    /\ admitted \in [Buckets -> Nat]
    /\ rewound \in [Buckets -> Nat]

QerInit ==
    /\ clock = 1
    /\ mbr \in Mbrs /\ burst \in Bursts
    /\ tokens = [b \in Buckets |-> 0]
    /\ last = [b \in Buckets |-> 0]
    /\ now = [c \in CPUs |-> NONE]
    /\ len = [c \in CPUs |-> 0]
    /\ since = [b \in Buckets |-> 0]
    /\ admitted = [b \in Buckets |-> 0]
    /\ rewound = [b \in Buckets |-> 0]

-----------------------------------------------------------------------------
\* Monotonic time passes, also between a packet's sample and its charge.
Tick ==
    /\ clock \leq MaxTime
    /\ clock' = clock + 1
    /\ UNCHANGED <<mbr, burst, tokens, last, now, len, qhvars>>

\* install_qer overwrites the array element in place, one field after the
\* other; the buckets keep their tokens.
InstallQer ==
    /\ \/ mbr' \in Mbrs /\ UNCHANGED burst
       \/ burst' \in Bursts /\ UNCHANGED mbr
    /\ since' = [b \in Buckets |-> 0]
    /\ admitted' = [b \in Buckets |-> 0]
    /\ rewound' = [b \in Buckets |-> 0]
    /\ UNCHANGED <<clock, tokens, last, now, len>>

\* Up to the lock: a QER without an MBR admits the packet and touches
\* nothing, any other is metered at the time read here.
Sample(c, l) ==
    /\ now[c] = NONE
    /\ mbr # 0
    /\ now' = [now EXCEPT ![c] = clock]
    /\ len' = [len EXCEPT ![c] = l]
    /\ UNCHANGED <<clock, mbr, burst, tokens, last, qhvars>>

\* The guard for out-of-order arrivals is in the shared build alone; the
\* other one subtracts __u64 values.
Elapsed(b, n) ==
    IF SharedLock THEN (IF n > last[b] THEN n - last[b] ELSE 0)
                  ELSE (n - last[b]) % Word

\* Credit for an elapsed time: the product wraps, the quotient truncates.
Refill(e) == (((IF e > Cap THEN Cap ELSE e) * mbr) % Word) \div Div

\* MUTANT of Filled: the clamp to the burst is lost.
FilledUnclamped(b, n) ==
    IF last[b] = 0 THEN burst ELSE tokens[b] + Refill(Elapsed(b, n))

\* The tokens a packet finds: a full bucket on first use, then what was left
\* plus the credit, at most the burst.
Filled(b, n) ==
    IF last[b] = 0 THEN burst
    ELSE LET t == tokens[b] + Refill(Elapsed(b, n))
         IN  IF t > burst THEN burst ELSE t

\* MUTANT of Spent: the comparison with the packet's length is lost.
SpentAlways(b, n, l) == l

\* A packet is charged its length if the tokens suffice, else dropped.
Spent(b, n, l) == IF Filled(b, n) >= l THEN l ELSE 0

\* MUTANT of LastNs: only an admitted packet moves the refill time.
LastNsOnAdmit(b, n, l) == IF Spent(b, n, l) = l THEN n ELSE last[b]

\* Every packet moves it, whatever its timestamp.
LastNs(b, n, l) == n

\* The critical section (or, in the per-CPU build, the rest of the call).
Charge(c) ==
    LET b == BucketOf(c)
        n == now[c]
        s == Spent(b, n, len[c])
    IN  /\ now[c] # NONE
        /\ tokens' = [tokens EXCEPT ![b] = Filled(b, n) - s]
        /\ last' = [last EXCEPT ![b] = LastNs(b, n, len[c])]
        /\ now' = [now EXCEPT ![c] = NONE]
        /\ since' = [since EXCEPT ![b] = IF @ = 0 \/ n < @ THEN n ELSE @]
        /\ admitted' = [admitted EXCEPT ![b] = @ + s]
        /\ rewound' = [rewound EXCEPT ![b] =
             IF since[b] = 0 \/ n >= last[b] THEN @
             ELSE @ + (last[b] - (IF n < since[b] THEN since[b] ELSE n))]
        /\ UNCHANGED <<clock, mbr, burst, len>>

-----------------------------------------------------------------------------
QerNext ==
    \/ Tick
    \/ InstallQer
    \/ \E c \in CPUs : \/ \E l \in Lens : Sample(c, l)
                       \/ Charge(c)

QerSpec == QerInit /\ [][QerNext]_qvars

-----------------------------------------------------------------------------
\* Conservation: the bytes a bucket has admitted under one QER, and those it
\* can still admit, never exceed one burst plus the MBR over the time that
\* its last_ns has moved forwards.
WithinCredit ==
    \A b \in Buckets :
        since[b] # 0 =>
            Div * (tokens[b] + admitted[b])
              =< Div * burst + mbr * ((last[b] - since[b]) + rewound[b])

\* The MBR is enforced by each bucket: between its first packet under a QER
\* and now it admits at most one burst plus the MBR over that time.
MbrEnforced ==
    \A b \in Buckets :
        since[b] # 0 =>
            Div * admitted[b] =< Div * burst + mbr * (clock - since[b])
=============================================================================
