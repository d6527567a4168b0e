------------------------------ MODULE Datapath ------------------------------
(***************************************************************************)
(* The programs and their counters.  Every CPU takes one frame at a time   *)
(* through upf_xdp_uplink, then upf_tc_ingress, or through upf_tc_egress;  *)
(* each bump() of the code is a step.  Meanwhile the agent answers         *)
(* /metrics: read_metrics adds the per-CPU counters up key by key while    *)
(* they grow, and names them by METRIC_NAMES.  What a lookup or a helper   *)
(* finds is left open: Uplink, QerBucket and Downlink model it.            *)
(***************************************************************************)
EXTENDS Headers, FiniteSets, Functions

CONSTANTS
    NumCPUs,
    Frames,      \* frames that arrive
    MaxFrames    \* bound on the frames of each CPU

ASSUME DatapathAssumption ==
    /\ NumCPUs \in Nat \ {0} /\ MaxFrames \in Nat
    /\ Frames \subseteq Frame

CPUs == 1..NumCPUs

\* enum metric_idx, whose first value is 0.
MetricIdx == <<"rx_total", "rx_gtpu", "rx_gpdu", "hit", "miss_teid", "miss_pdr",
    "pass_nongtp", "pass_ctrl", "drop_parse",
    "tc_miss_far", "tc_far_drop", "tc_far_forward", "tc_far_buffer", "tc_decap_err",
    "tc_redirect_err", "tc_qer_pass", "tc_qer_drop", "tc_urr_updated",
    "tc_dl_hit", "tc_dl_miss", "tc_dl_encap_err">>
Metrics == {MetricIdx[k] : k \in 1..21}

\* MUTANT of METRIC_NAMES: a counter was added to the enumeration at another place.
METRIC_NAMES_Swapped == <<"rx_total", "rx_gtpu", "rx_gpdu", "hit", "miss_teid", "miss_pdr",
    "pass_nongtp", "pass_ctrl", "drop_parse",
    "tc_miss_far", "tc_far_drop", "tc_far_buffer", "tc_far_forward", "tc_decap_err",
    "tc_redirect_err", "tc_qer_pass", "tc_qer_drop", "tc_urr_updated",
    "tc_dl_hit", "tc_dl_miss", "tc_dl_encap_err">>

METRIC_NAMES == <<"rx_total", "rx_gtpu", "rx_gpdu", "hit", "miss_teid", "miss_pdr",
    "pass_nongtp", "pass_ctrl", "drop_parse",
    "tc_miss_far", "tc_far_drop", "tc_far_forward", "tc_far_buffer", "tc_decap_err",
    "tc_redirect_err", "tc_qer_pass", "tc_qer_drop", "tc_urr_updated",
    "tc_dl_hit", "tc_dl_miss", "tc_dl_encap_err">>

VARIABLES
    stage,   \* the counter each CPU bumped last, "none" between frames
    frame,   \* its frame
    count,   \* metrics, by CPU
    lost,    \* history: hits that never reached TC
    taken,   \* history: frames taken, for the bound
    skey,    \* number of the entry read_metrics reads, 0 when it does not run
    scpu,    \* the CPU whose value comes next
    total,   \* sum of the values before it
    out,     \* the result so far, as far as a property relates its entries
    floor,   \* history: the counter when the reading of its entry began
    flight   \* history: G-PDUs without an outcome when it came to those

pvars == <<stage, frame, count, lost, taken>>
svars == <<skey, scpu, total, out, floor, flight>>
vars == <<stage, frame, count, lost, taken, skey, scpu, total, out, floor, flight>>

NoFrame == [len |-> 0, ip4 |-> FALSE, udp |-> FALSE, ihl |-> 0, port |-> FALSE, gpdu |-> FALSE]
Related == {"rx_gpdu", "hit", "miss_teid", "miss_pdr"}
Blank == [m \in Related |-> 0]

TypeOK ==
    /\ stage \in [CPUs -> Metrics \cup {"none", "sending"}]
    /\ frame \in [CPUs -> Frame]
    /\ count \in [CPUs -> [Metrics -> Nat]]
    /\ lost \in [CPUs -> Nat] /\ taken \in [CPUs -> Nat]
    /\ skey \in 0..21 /\ scpu \in 1..(NumCPUs + 1) /\ total \in Nat
    /\ out \in [Related -> Nat] /\ floor \in Nat /\ flight \in Nat

Init ==
    /\ stage = [c \in CPUs |-> "none"] /\ frame = [c \in CPUs |-> NoFrame]
    /\ count = [c \in CPUs |-> [m \in Metrics |-> 0]]
    /\ lost = [c \in CPUs |-> 0] /\ taken = [c \in CPUs |-> 0]
    /\ skey = 0 /\ scpu = 1 /\ total = 0 /\ out = Blank /\ floor = 0 /\ flight = 0

-----------------------------------------------------------------------------
(* The programs: which counter may follow which.                           *)

\* bpf_skb_adjust_room leaves at least an IPv4 header behind.
CanStrip(f) == f.len >= ETH + OuterLen(f) + IP

\* upf_tc_ingress, on a frame that XDP passed.
TcNext(f) ==
    IF ~TcGpdu(f) THEN {"return"}
    ELSE {"tc_miss_far", "tc_far_drop", "tc_far_buffer", "tc_decap_err"}
           \cup (IF CanStrip(f) THEN {"tc_qer_drop", "tc_qer_pass"} ELSE {})

\* MUTANT of XdpNext: the return after a TEID miss is missing.
XdpNextFallsThrough(m, f) ==
    CASE m = "rx_total" -> IF XdpParse(f) = "gpdu" THEN {"rx_gtpu"} ELSE {"return"}
      [] m = "rx_gtpu" -> {"rx_gpdu"}
      [] m = "rx_gpdu" -> {"miss_teid", "miss_pdr", "hit"}
      [] m = "miss_teid" -> {"miss_pdr", "hit"}
      [] m = "hit" -> TcNext(f)
      [] OTHER -> {"return"}

\* upf_xdp_uplink after it has bumped m.
XdpNext(m, f) ==
    CASE m = "rx_total" ->
           (CASE XdpParse(f) = "drop" -> {"drop_parse"}
              [] XdpParse(f) = "pass" -> TcNext(f)
              [] XdpParse(f) = "nongtp" -> {"pass_nongtp"}
              [] OTHER -> {"rx_gtpu"})
      [] m = "rx_gtpu" ->
           (CASE XdpParse(f) = "short" -> {"drop_parse"}
              [] XdpParse(f) = "ctrl" -> {"pass_ctrl"}
              [] OTHER -> {"rx_gpdu"})
      [] m = "rx_gpdu" -> {"miss_teid", "miss_pdr", "hit"}
      [] m \in {"pass_nongtp", "pass_ctrl", "hit"} -> TcNext(f)
      [] OTHER -> {"return"}

\* upf_far_forward and upf_tc_egress after they have bumped m.
TcAfter(m, f) ==
    CASE m = "tc_qer_pass" -> {"tc_urr_updated", "tc_far_forward"}
      [] m = "tc_urr_updated" -> {"tc_far_forward"}
      [] m = "tc_far_forward" -> {"tc_redirect_err", "return"}
      [] m = "sending" -> IF EgressPlain(f) THEN {"tc_dl_miss", "tc_dl_hit"} ELSE {"return"}
      [] m = "tc_dl_hit" -> {"tc_dl_encap_err", "return"}
      [] OTHER -> {"return"}

XdpMetrics == {"rx_total", "rx_gtpu", "rx_gpdu", "hit", "miss_teid", "miss_pdr",
               "pass_nongtp", "pass_ctrl", "drop_parse"}

Following(c) ==
    IF stage[c] \in XdpMetrics THEN XdpNext(stage[c], frame[c]) ELSE TcAfter(stage[c], frame[c])

Bump(c, m) ==
    /\ stage' = [stage EXCEPT ![c] = m]
    /\ count' = [count EXCEPT ![c][m] = @ + 1]

\* A CPU whose program may return takes another frame.
Take(c, f) ==
    /\ "return" \in Following(c) /\ taken[c] < MaxFrames
    /\ frame' = [frame EXCEPT ![c] = f]
    /\ taken' = [taken EXCEPT ![c] = @ + 1]
    /\ UNCHANGED <<lost, svars>>

\* A frame is received on N3, by XDP and then TC ingress ...
Receive(c, f) == Take(c, f) /\ Bump(c, "rx_total")

\* ... or about to be sent there, by the host or redirected by a FAR.
Transmit(c, f) ==
    /\ Take(c, f)
    /\ stage' = [stage EXCEPT ![c] = "sending"]
    /\ UNCHANGED count

Step(c) ==
    /\ \E m \in Following(c) \ {"return"} : Bump(c, m)
    /\ UNCHANGED <<frame, lost, taken, svars>>

\* XDP passed the frame, and there is no memory for its sk_buff.
Lose(c) ==
    /\ stage[c] = "hit"
    /\ lost' = [lost EXCEPT ![c] = @ + 1]
    /\ stage' = [stage EXCEPT ![c] = "none"]
    /\ UNCHANGED <<frame, count, taken, svars>>

-----------------------------------------------------------------------------
(* /metrics: read_metrics, then prometheus_text.                           *)

Total(m) == SumFunction([c \in CPUs |-> count[c][m]])

\* MUTANT of EntryAt: the entries come in the opposite order.
EntryAtReversed(k) == 22 - k

\* The entry read at position k: bpftool dumps an array in index order.
EntryAt(k) == k

Name(k) == METRIC_NAMES[EntryAt(k)]

\* MUTANT of Begin: CPUs are numbered from 0.
BeginAtZero(k) ==
    /\ skey' = k /\ scpu' = 0 /\ total' = 0
    /\ floor' = Total(Name(k))
    /\ UNCHANGED flight

Begin(k) ==
    /\ skey' = k /\ scpu' = 1 /\ total' = 0
    /\ floor' = Total(Name(k))
    /\ flight' = IF Name(k) = "hit" THEN Cardinality({c \in CPUs : stage[c] = "rx_gpdu"})
                 ELSE flight

Scrape ==
    /\ skey = 0
    /\ Begin(1)
    /\ UNCHANGED <<pvars, out>>

ScrapeValue ==
    /\ skey # 0 /\ scpu =< NumCPUs
    /\ total' = total + count[scpu][MetricIdx[EntryAt(skey)]]
    /\ scpu' = scpu + 1
    /\ UNCHANGED <<pvars, skey, out, floor, flight>>

Store == [m \in Related |-> IF m = Name(skey) THEN total ELSE out[m]]

ScrapeEntry ==
    /\ skey \in 1..20 /\ scpu > NumCPUs
    /\ out' = Store
    /\ Begin(skey + 1)
    /\ UNCHANGED pvars

ScrapeEnd ==
    /\ skey = 21 /\ scpu > NumCPUs
    /\ skey' = 0 /\ scpu' = 1 /\ total' = 0
    /\ out' = Blank /\ floor' = 0 /\ flight' = 0
    /\ UNCHANGED pvars

-----------------------------------------------------------------------------
Next ==
    \/ \E c \in CPUs : \/ \E f \in Frames : Receive(c, f) \/ Transmit(c, f)
                       \/ Step(c) \/ Lose(c)
    \/ Scrape \/ ScrapeValue \/ ScrapeEntry \/ ScrapeEnd

Spec == Init /\ [][Next]_vars

-----------------------------------------------------------------------------
Pending(c, points) == IF stage[c] \in points THEN 1 ELSE 0

\* Every G-PDU has exactly one outcome in XDP.
XdpConserved ==
    \A c \in CPUs :
        count[c]["rx_gpdu"] = count[c]["hit"] + count[c]["miss_teid"] + count[c]["miss_pdr"]
                                + Pending(c, {"rx_gpdu"})

\* Every hit has exactly one outcome in TC, and nothing else has one: the two
\* programs, which parse the frame separately, agree on which frames are
\* G-PDUs.  Only frames lost between the hooks are missing.
TcConserved ==
    \A c \in CPUs :
        count[c]["hit"] =
            count[c]["tc_miss_far"] + count[c]["tc_far_drop"] + count[c]["tc_far_buffer"]
              + count[c]["tc_decap_err"] + count[c]["tc_qer_drop"] + count[c]["tc_far_forward"]
              + lost[c] + Pending(c, {"hit", "tc_qer_pass", "tc_urr_updated"})

\* What /metrics shows under a name lies between the counter of that name
\* when the entry was begun and when it was complete.
ScrapeBounded ==
    skey # 0 /\ scpu > NumCPUs => floor =< total /\ total =< Total(Name(skey))

\* A scrape is no snapshot, but it reads outcomes after arrivals: it never
\* shows more G-PDUs without an outcome than were in flight when it came to
\* the first outcome, of which a CPU has at most one.
ScrapeOrdered ==
    skey = 21 => out["rx_gpdu"] =< out["hit"] + out["miss_teid"] + out["miss_pdr"] + flight
=============================================================================
