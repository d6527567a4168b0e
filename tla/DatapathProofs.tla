--------------------------- MODULE DatapathProofs ---------------------------
(***************************************************************************)
(* Proofs about Datapath, for any CPUs, frames and number of frames.       *)
(***************************************************************************)
EXTENDS Datapath, SumTheorems

\* The two uplink programs, which parse every frame separately, take the same
\* frames for G-PDUs: a TC program sees enough of a long frame.
THEOREM ParsersAgree ==
    \A f \in Frame : TcGpdu(f) <=> XdpParse(f) = "gpdu"
<1> SUFFICES ASSUME NEW f \in Frame PROVE TcGpdu(f) <=> XdpParse(f) = "gpdu"
  OBVIOUS
<1>1. /\ f.len \in Nat /\ f.ip4 \in BOOLEAN /\ f.udp \in BOOLEAN /\ f.ihl \in 0..15
      /\ f.port \in BOOLEAN /\ f.gpdu \in BOOLEAN
  BY DEF Frame
<1>2. Pulled \in Nat /\ Pulled >= 90
  BY PulledAssumption
<1>3. CASE f.len < ETH
  BY <1>1, <1>2, <1>3 DEF XdpParse, TcGpdu, Linear, ETH, IP
<1>4. CASE f.len >= ETH /\ ~f.ip4
  BY <1>1, <1>2, <1>4 DEF XdpParse, TcGpdu, Linear, ETH, IP
<1>5. CASE f.len >= ETH /\ f.ip4 /\ f.len < ETH + IP
  BY <1>1, <1>2, <1>5 DEF XdpParse, TcGpdu, Linear, ETH, IP
<1>6. CASE f.len >= ETH + IP /\ f.ip4 /\ ~f.udp
  BY <1>1, <1>2, <1>6 DEF XdpParse, TcGpdu, Linear, ETH, IP
<1>7. CASE f.len >= ETH + IP /\ f.ip4 /\ f.udp
  <2>1. XdpParse(f) = IF 4 * f.ihl < IP \/ f.len < L4(f) + UDP THEN "drop"
                      ELSE IF ~f.port THEN "nongtp"
                      ELSE IF f.len < L4(f) + UDP + GTP THEN "short"
                      ELSE IF f.gpdu THEN "gpdu" ELSE "ctrl"
    BY <1>1, <1>7 DEF XdpParse, ETH, IP
  <2> QED BY <1>1, <1>2, <1>7, <2>1 DEF TcGpdu, Linear, L4, ETH, IP, UDP, GTP
<1> QED BY <1>1, <1>3, <1>4, <1>5, <1>6, <1>7 DEF ETH, IP

-----------------------------------------------------------------------------
(* Conservation.                                                           *)

TcOutcomes == {"tc_miss_far", "tc_far_drop", "tc_far_buffer", "tc_decap_err", "tc_qer_drop"}
XdpOutcomes == {"hit", "miss_teid", "miss_pdr"}

\* The part of the types that counting needs.
CountOK(c) ==
    /\ stage[c] \in Metrics \cup {"none", "sending"}
    /\ frame[c] \in Frame
    /\ count[c] \in [Metrics -> Nat]
    /\ lost[c] \in Nat

\* What the counter bumped last says of the frame.
FrameOK(c) ==
    /\ stage[c] = "rx_gtpu" => XdpParse(frame[c]) \notin {"drop", "pass", "nongtp"}
    /\ stage[c] \in {"rx_gpdu"} \cup XdpOutcomes => XdpParse(frame[c]) = "gpdu"
    /\ stage[c] \in {"pass_nongtp", "pass_ctrl"} => XdpParse(frame[c]) # "gpdu"

Types ==
    /\ stage = [c \in CPUs |-> stage[c]] /\ frame = [c \in CPUs |-> frame[c]]
    /\ count = [c \in CPUs |-> count[c]] /\ lost = [c \in CPUs |-> lost[c]]

XdpBalance(c) ==
    count[c]["rx_gpdu"] = count[c]["hit"] + count[c]["miss_teid"] + count[c]["miss_pdr"]
                            + Pending(c, {"rx_gpdu"})

TcBalance(c) ==
    count[c]["hit"] =
        count[c]["tc_miss_far"] + count[c]["tc_far_drop"] + count[c]["tc_far_buffer"]
          + count[c]["tc_decap_err"] + count[c]["tc_qer_drop"] + count[c]["tc_far_forward"]
          + lost[c] + Pending(c, {"hit", "tc_qer_pass", "tc_urr_updated"})

CInv(c) == CountOK(c) /\ FrameOK(c) /\ XdpBalance(c) /\ TcBalance(c)

IInv == Types /\ \A c \in CPUs : CInv(c)

\* The names of the counters used below are among the 21.
LEMMA MetricNames ==
    /\ TcOutcomes \cup XdpOutcomes \subseteq Metrics
    /\ {"rx_total", "rx_gtpu", "rx_gpdu", "pass_nongtp", "pass_ctrl", "drop_parse"} \subseteq Metrics
    /\ {"tc_qer_pass", "tc_urr_updated", "tc_far_forward", "tc_redirect_err"} \subseteq Metrics
    /\ {"tc_dl_hit", "tc_dl_miss", "tc_dl_encap_err"} \subseteq Metrics
    /\ "none" \notin Metrics /\ "sending" \notin Metrics
<1>1. /\ MetricIdx[1] = "rx_total" /\ MetricIdx[2] = "rx_gtpu" /\ MetricIdx[3] = "rx_gpdu"
      /\ MetricIdx[4] = "hit" /\ MetricIdx[5] = "miss_teid" /\ MetricIdx[6] = "miss_pdr"
      /\ MetricIdx[7] = "pass_nongtp" /\ MetricIdx[8] = "pass_ctrl" /\ MetricIdx[9] = "drop_parse"
      /\ MetricIdx[10] = "tc_miss_far" /\ MetricIdx[11] = "tc_far_drop"
      /\ MetricIdx[12] = "tc_far_forward" /\ MetricIdx[13] = "tc_far_buffer"
      /\ MetricIdx[14] = "tc_decap_err" /\ MetricIdx[15] = "tc_redirect_err"
      /\ MetricIdx[16] = "tc_qer_pass" /\ MetricIdx[17] = "tc_qer_drop"
      /\ MetricIdx[18] = "tc_urr_updated" /\ MetricIdx[19] = "tc_dl_hit"
      /\ MetricIdx[20] = "tc_dl_miss" /\ MetricIdx[21] = "tc_dl_encap_err"
  BY DEF MetricIdx
<1>2. ASSUME NEW k \in 1..21 PROVE MetricIdx[k] # "none" /\ MetricIdx[k] # "sending"
  BY <1>1
<1> QED BY <1>1, <1>2 DEF Metrics, TcOutcomes, XdpOutcomes

\* Which counter follows which: an outcome of XDP comes after rx_gpdu only,
\* and one of TC after a hit only.
LEMMA Edges ==
    ASSUME NEW c \in CPUs, CountOK(c), FrameOK(c), NEW m \in Following(c), m # "return"
    PROVE  /\ stage[c] = "rx_gpdu" <=> m \in XdpOutcomes
           /\ stage[c] = "hit" <=> m \in TcOutcomes \cup {"tc_qer_pass"}
           /\ stage[c] = "tc_qer_pass" => m \in {"tc_urr_updated", "tc_far_forward"}
           /\ stage[c] = "tc_urr_updated" => m = "tc_far_forward"
           /\ m = "tc_urr_updated" => stage[c] = "tc_qer_pass"
           /\ m = "tc_far_forward" => stage[c] \in {"tc_qer_pass", "tc_urr_updated"}
           /\ m = "rx_gtpu" => XdpParse(frame[c]) \notin {"drop", "pass", "nongtp"}
           /\ m \in {"rx_gpdu"} \cup XdpOutcomes => XdpParse(frame[c]) = "gpdu"
           /\ m \in {"pass_nongtp", "pass_ctrl"} => XdpParse(frame[c]) # "gpdu"
           /\ m \in Metrics /\ m # "rx_total"
<1>1. XdpParse(frame[c]) # "gpdu" => TcNext(frame[c]) = {"return"}
  BY ParsersAgree DEF CountOK, TcNext
<1>2. TcNext(frame[c]) \subseteq TcOutcomes \cup {"tc_qer_pass", "return"}
  BY DEF TcNext, TcOutcomes
<1>3. XdpParse(frame[c]) \in {"drop", "pass", "nongtp", "short", "ctrl", "gpdu"}
  <2>1. frame[c].len \in Nat /\ frame[c].ip4 \in BOOLEAN /\ frame[c].udp \in BOOLEAN
    BY DEF CountOK, Frame
  <2> QED BY <2>1 DEF XdpParse, ETH, IP
<1>4. CASE stage[c] \in XdpMetrics
  <2>1. Following(c) = XdpNext(stage[c], frame[c])
    BY <1>4 DEF Following
  <2>2. CASE stage[c] = "rx_total"
    <3>1. XdpParse(frame[c]) = "pass" => TcNext(frame[c]) = {"return"}
      BY <1>1
    <3>2. m \in {"drop_parse", "pass_nongtp", "rx_gtpu"}
      BY <1>3, <2>1, <2>2, <3>1 DEF XdpNext
    <3>3. /\ m = "rx_gtpu" => XdpParse(frame[c]) \notin {"drop", "pass", "nongtp"}
          /\ m = "pass_nongtp" => XdpParse(frame[c]) = "nongtp"
      BY <1>3, <2>1, <2>2, <3>1 DEF XdpNext
    <3> QED BY <2>2, <3>2, <3>3, MetricNames DEF XdpOutcomes, TcOutcomes
  <2>3. CASE stage[c] = "rx_gtpu"
    <3>1. m \in {"drop_parse", "pass_ctrl", "rx_gpdu"}
      BY <2>1, <2>3 DEF XdpNext
    <3>2. /\ m = "rx_gpdu" => XdpParse(frame[c]) \notin {"short", "ctrl"}
          /\ m = "pass_ctrl" => XdpParse(frame[c]) = "ctrl"
      BY <2>1, <2>3 DEF XdpNext
    <3> QED BY <1>3, <2>3, <3>1, <3>2, MetricNames DEF FrameOK, XdpOutcomes, TcOutcomes
  <2>4. CASE stage[c] = "rx_gpdu"
    <3>1. m \in XdpOutcomes
      BY <2>1, <2>4 DEF XdpNext, XdpOutcomes
    <3> QED BY <2>4, <3>1, MetricNames DEF FrameOK, XdpOutcomes, TcOutcomes
  <2>5. CASE stage[c] = "hit"
    <3>1. m \in TcOutcomes \cup {"tc_qer_pass"}
      BY <1>2, <2>1, <2>5 DEF XdpNext
    <3> QED BY <2>5, <3>1, MetricNames DEF FrameOK, XdpOutcomes, TcOutcomes
  <2>6. CASE stage[c] \in {"pass_nongtp", "pass_ctrl"}
    <3>1. Following(c) = {"return"}
      BY <1>1, <2>1, <2>6 DEF XdpNext, FrameOK
    <3> QED BY <3>1
  <2>7. CASE stage[c] \in {"miss_teid", "miss_pdr", "drop_parse"}
    <3>1. Following(c) = {"return"}
      BY <2>1, <2>7 DEF XdpNext
    <3> QED BY <3>1
  <2> QED BY <1>4, <2>2, <2>3, <2>4, <2>5, <2>6, <2>7 DEF XdpMetrics
<1>5. CASE stage[c] \notin XdpMetrics
  <2>1. Following(c) = TcAfter(stage[c], frame[c])
    BY <1>5 DEF Following
  <2>2. stage[c] # "hit" /\ stage[c] # "rx_gpdu"
    BY <1>5 DEF XdpMetrics
  <2>3. /\ m \in {"tc_urr_updated", "tc_far_forward", "tc_redirect_err", "tc_dl_miss", "tc_dl_hit",
                  "tc_dl_encap_err"}
        /\ stage[c] = "tc_qer_pass" => m \in {"tc_urr_updated", "tc_far_forward"}
        /\ stage[c] = "tc_urr_updated" => m = "tc_far_forward"
        /\ m = "tc_urr_updated" => stage[c] = "tc_qer_pass"
        /\ m = "tc_far_forward" => stage[c] \in {"tc_qer_pass", "tc_urr_updated"}
    BY <2>1 DEF TcAfter
  <2> QED BY <2>2, <2>3, MetricNames DEF XdpOutcomes, TcOutcomes
<1> QED BY <1>4, <1>5

\* A program never returns with a frame that still owes an outcome.
LEMMA ReturnsClean ==
    ASSUME NEW c \in CPUs, CountOK(c), FrameOK(c), "return" \in Following(c)
    PROVE  stage[c] \notin {"rx_gpdu", "hit", "tc_qer_pass", "tc_urr_updated"}
<1>1. CASE stage[c] = "rx_gpdu"
  BY <1>1 DEF Following, XdpMetrics, XdpNext
<1>2. CASE stage[c] = "hit"
  <2>1. TcGpdu(frame[c])
    BY <1>2, ParsersAgree DEF CountOK, FrameOK, XdpOutcomes
  <2> QED BY <1>2, <2>1 DEF Following, XdpMetrics, XdpNext, TcNext
<1>3. CASE stage[c] \in {"tc_qer_pass", "tc_urr_updated"}
  BY <1>3 DEF Following, XdpMetrics, TcAfter
<1> QED BY <1>1, <1>2, <1>3

-----------------------------------------------------------------------------
(* Steps.                                                                  *)

LEMMA InitIInv == Init => IInv
<1> SUFFICES ASSUME Init PROVE IInv
  OBVIOUS
<1>1. Types
  BY DEF Init, Types
<1>2. ASSUME NEW c \in CPUs PROVE CInv(c)
  <2>1. /\ stage[c] = "none" /\ frame[c] = NoFrame /\ lost[c] = 0
        /\ count[c] = [m \in Metrics |-> 0]
    BY DEF Init
  <2>2. CountOK(c)
    BY <2>1 DEF CountOK, NoFrame, Frame
  <2>3. FrameOK(c)
    BY <2>1 DEF FrameOK, XdpOutcomes
  <2>4. ASSUME NEW m \in Metrics PROVE count[c][m] = 0
    BY <2>1
  <2>5. XdpBalance(c)
    BY <2>1, <2>4, MetricNames DEF XdpBalance, Pending, XdpOutcomes
  <2>6. TcBalance(c)
    BY <2>1, <2>4, MetricNames DEF TcBalance, Pending, TcOutcomes, XdpOutcomes
  <2> QED BY <2>2, <2>3, <2>5, <2>6 DEF CInv
<1> QED BY <1>1, <1>2 DEF IInv

\* A CPU of which nothing changes.
LEMMA Others ==
    ASSUME NEW d \in CPUs, CInv(d), stage'[d] = stage[d], frame'[d] = frame[d],
           count'[d] = count[d], lost'[d] = lost[d]
    PROVE  CInv(d)'
<1>1. CountOK(d)'
  BY DEF CInv, CountOK
<1>2. FrameOK(d)'
  BY DEF CInv, FrameOK
<1>3. XdpBalance(d)' /\ TcBalance(d)'
  BY DEF CInv, XdpBalance, TcBalance, Pending
<1> QED BY <1>1, <1>2, <1>3 DEF CInv

LEMMA StepIInv ==
    ASSUME IInv, NEW c \in CPUs, Step(c)
    PROVE  IInv'
<1>0. CInv(c) /\ CountOK(c) /\ FrameOK(c) /\ XdpBalance(c) /\ TcBalance(c)
  BY DEF IInv, CInv
<1>1. PICK m \in Following(c) \ {"return"} : Bump(c, m)
  BY DEF Step
<1>2. /\ m \in Metrics /\ m # "rx_total"
      /\ stage[c] = "rx_gpdu" <=> m \in XdpOutcomes
      /\ stage[c] = "hit" <=> m \in TcOutcomes \cup {"tc_qer_pass"}
      /\ stage[c] = "tc_qer_pass" => m \in {"tc_urr_updated", "tc_far_forward"}
      /\ stage[c] = "tc_urr_updated" => m = "tc_far_forward"
      /\ m = "tc_urr_updated" => stage[c] = "tc_qer_pass"
      /\ m = "tc_far_forward" => stage[c] \in {"tc_qer_pass", "tc_urr_updated"}
      /\ m = "rx_gtpu" => XdpParse(frame[c]) \notin {"drop", "pass", "nongtp"}
      /\ m \in {"rx_gpdu"} \cup XdpOutcomes => XdpParse(frame[c]) = "gpdu"
      /\ m \in {"pass_nongtp", "pass_ctrl"} => XdpParse(frame[c]) # "gpdu"
  BY <1>0, <1>1, Edges
<1>3. /\ stage' = [stage EXCEPT ![c] = m] /\ frame' = frame /\ lost' = lost
      /\ count' = [count EXCEPT ![c] = [count[c] EXCEPT ![m] = @ + 1]]
  BY <1>1 DEF Step, Bump
<1>4. /\ stage'[c] = m /\ frame'[c] = frame[c] /\ lost'[c] = lost[c]
      /\ count'[c] = [count[c] EXCEPT ![m] = @ + 1]
  BY <1>3 DEF IInv, Types
<1>5. ASSUME NEW d \in CPUs, d # c PROVE CInv(d)'
  <2>1. /\ stage'[d] = stage[d] /\ frame'[d] = frame[d]
        /\ count'[d] = count[d] /\ lost'[d] = lost[d]
    BY <1>3, <1>5 DEF IInv, Types
  <2> QED BY <2>1, Others DEF IInv
<1>6. Types'
  BY <1>3 DEF IInv, Types
<1>7. count[c] \in [Metrics -> Nat] /\ lost[c] \in Nat /\ frame[c] \in Frame
  BY <1>0 DEF CountOK
<1>8. CountOK(c)'
  BY <1>2, <1>4, <1>7 DEF CountOK
<1>9. FrameOK(c)'
  BY <1>2, <1>4 DEF FrameOK
<1>10. ASSUME NEW x \in Metrics
       PROVE  count[c][x] \in Nat /\ count'[c][x] = IF x = m THEN count[c][x] + 1 ELSE count[c][x]
  BY <1>2, <1>4, <1>7
<1>11. XdpBalance(c)'
  <2>1. "rx_gpdu" \in Metrics /\ "hit" \in Metrics /\ "miss_teid" \in Metrics /\ "miss_pdr" \in Metrics
    BY MetricNames DEF XdpOutcomes
  <2> QED BY <1>0, <1>2, <1>4, <1>10, <2>1 DEF XdpBalance, Pending, XdpOutcomes
<1>12. TcBalance(c)'
  <2>1. /\ "tc_miss_far" \in Metrics /\ "tc_far_drop" \in Metrics /\ "tc_far_buffer" \in Metrics
        /\ "tc_decap_err" \in Metrics /\ "tc_qer_drop" \in Metrics /\ "tc_far_forward" \in Metrics
        /\ "hit" \in Metrics
    BY MetricNames DEF TcOutcomes, XdpOutcomes
  <2>2. m = "hit" => stage[c] = "rx_gpdu"
    BY <1>2 DEF XdpOutcomes
  <2> QED BY <1>0, <1>2, <1>4, <1>7, <1>10, <2>1, <2>2 DEF TcBalance, Pending, TcOutcomes
<1>13. CInv(c)'
  BY <1>8, <1>9, <1>11, <1>12 DEF CInv
<1> QED BY <1>5, <1>6, <1>13 DEF IInv

\* A new frame, received or about to be sent.
LEMMA TakeIInv ==
    ASSUME IInv, NEW c \in CPUs, NEW f \in Frames, Receive(c, f) \/ Transmit(c, f)
    PROVE  IInv'
<1>0. CInv(c) /\ CountOK(c) /\ FrameOK(c) /\ XdpBalance(c) /\ TcBalance(c)
  BY DEF IInv, CInv
<1>1. stage[c] \notin {"rx_gpdu", "hit", "tc_qer_pass", "tc_urr_updated"}
  BY <1>0, ReturnsClean DEF Receive, Transmit, Take
<1>2. f \in Frame
  BY DatapathAssumption
<1>3. PICK s \in {"rx_total", "sending"} :
        /\ stage' = [stage EXCEPT ![c] = s]
        /\ s = "rx_total" => count' = [count EXCEPT ![c] = [count[c] EXCEPT !["rx_total"] = @ + 1]]
        /\ s = "sending" => count' = count
  BY DEF Receive, Transmit, Bump
<1>4. frame' = [frame EXCEPT ![c] = f] /\ lost' = lost
  BY DEF Receive, Transmit, Take
<1>5. ASSUME NEW d \in CPUs, d # c PROVE CInv(d)'
  <2>1. /\ stage'[d] = stage[d] /\ frame'[d] = frame[d]
        /\ count'[d] = count[d] /\ lost'[d] = lost[d]
    BY <1>3, <1>4, <1>5 DEF IInv, Types
  <2> QED BY <2>1, Others DEF IInv
<1>6. Types'
  BY <1>3, <1>4 DEF IInv, Types
<1>7. count[c] \in [Metrics -> Nat] /\ lost[c] \in Nat
  BY <1>0 DEF CountOK
<1>8. /\ stage'[c] = s /\ frame'[c] = f /\ lost'[c] = lost[c]
      /\ count'[c] = count[c] \/ count'[c] = [count[c] EXCEPT !["rx_total"] = @ + 1]
  BY <1>3, <1>4 DEF IInv, Types
<1>9. CountOK(c)'
  BY <1>2, <1>7, <1>8, MetricNames DEF CountOK
<1>10. FrameOK(c)'
  BY <1>8 DEF FrameOK, XdpOutcomes
<1>11. ASSUME NEW x \in Metrics, x # "rx_total" PROVE count'[c][x] = count[c][x]
  BY <1>7, <1>8, <1>11
<1>12. XdpBalance(c)'
  BY <1>0, <1>1, <1>8, <1>11, MetricNames DEF XdpBalance, Pending, XdpOutcomes
<1>13. TcBalance(c)'
  BY <1>0, <1>1, <1>8, <1>11, MetricNames DEF TcBalance, Pending, XdpOutcomes, TcOutcomes
<1>14. CInv(c)'
  BY <1>9, <1>10, <1>12, <1>13 DEF CInv
<1> QED BY <1>5, <1>6, <1>14 DEF IInv

LEMMA LoseIInv ==
    ASSUME IInv, NEW c \in CPUs, Lose(c)
    PROVE  IInv'
<1>0. CInv(c) /\ CountOK(c) /\ FrameOK(c) /\ XdpBalance(c) /\ TcBalance(c)
  BY DEF IInv, CInv
<1>1. /\ stage[c] = "hit" /\ stage' = [stage EXCEPT ![c] = "none"]
      /\ lost' = [lost EXCEPT ![c] = @ + 1] /\ frame' = frame /\ count' = count
  BY DEF Lose
<1>2. ASSUME NEW d \in CPUs, d # c PROVE CInv(d)'
  <2>1. /\ stage'[d] = stage[d] /\ frame'[d] = frame[d]
        /\ count'[d] = count[d] /\ lost'[d] = lost[d]
    BY <1>1, <1>2 DEF IInv, Types
  <2> QED BY <2>1, Others DEF IInv
<1>3. Types'
  BY <1>1 DEF IInv, Types
<1>4. /\ stage'[c] = "none" /\ frame'[c] = frame[c] /\ lost'[c] = lost[c] + 1
      /\ count'[c] = count[c]
  BY <1>1 DEF IInv, Types
<1>5. CountOK(c)'
  BY <1>0, <1>4 DEF CountOK
<1>6. FrameOK(c)'
  BY <1>4 DEF FrameOK, XdpOutcomes
<1>7. XdpBalance(c)'
  BY <1>0, <1>1, <1>4 DEF XdpBalance, Pending
<1>8. TcBalance(c)'
  <2>1. ASSUME NEW x \in TcOutcomes \cup {"tc_far_forward"} PROVE count[c][x] \in Nat
    BY <1>0, MetricNames DEF CountOK
  <2>2. /\ count[c]["tc_miss_far"] \in Nat /\ count[c]["tc_far_drop"] \in Nat
        /\ count[c]["tc_far_buffer"] \in Nat /\ count[c]["tc_decap_err"] \in Nat
        /\ count[c]["tc_qer_drop"] \in Nat /\ count[c]["tc_far_forward"] \in Nat
        /\ lost[c] \in Nat
    BY <1>0, <2>1 DEF CountOK, TcOutcomes
  <2>3. /\ Pending(c, {"hit", "tc_qer_pass", "tc_urr_updated"}) = 1
        /\ Pending(c, {"hit", "tc_qer_pass", "tc_urr_updated"})' = 0
    BY <1>1, <1>4 DEF Pending
  <2>4. count[c]["hit"] =
          count[c]["tc_miss_far"] + count[c]["tc_far_drop"] + count[c]["tc_far_buffer"]
            + count[c]["tc_decap_err"] + count[c]["tc_qer_drop"] + count[c]["tc_far_forward"]
            + lost[c] + 1
    BY <1>0, <2>3 DEF TcBalance
  <2>5. count[c]["hit"] =
          count[c]["tc_miss_far"] + count[c]["tc_far_drop"] + count[c]["tc_far_buffer"]
            + count[c]["tc_decap_err"] + count[c]["tc_qer_drop"] + count[c]["tc_far_forward"]
            + (lost[c] + 1) + 0
    BY <2>2, <2>4
  <2> QED BY <1>4, <2>3, <2>5 DEF TcBalance
<1>9. CInv(c)'
  BY <1>5, <1>6, <1>7, <1>8 DEF CInv
<1> QED BY <1>2, <1>3, <1>9 DEF IInv

\* What the scrape does, and stuttering, leaves the programs alone.
LEMMA ScrapeIInv == ASSUME IInv, UNCHANGED pvars PROVE IInv'
<1>1. stage' = stage /\ frame' = frame /\ count' = count /\ lost' = lost
  BY DEF pvars
<1>2. Types'
  BY <1>1 DEF IInv, Types
<1>3. ASSUME NEW d \in CPUs PROVE CInv(d)'
  BY <1>1, Others DEF IInv
<1> QED BY <1>2, <1>3 DEF IInv

\* The frame a CPU works on and its counters agree, in every behaviour of the
\* programs and of the agent that reads the counters.
THEOREM Invariance == Spec => []IInv
<1>1. Init => IInv
  BY InitIInv
<1>2. IInv /\ [Next]_vars => IInv'
  <2> SUFFICES ASSUME IInv, [Next]_vars PROVE IInv'
    OBVIOUS
  <2>1. CASE \E c \in CPUs : \E f \in Frames : Receive(c, f) \/ Transmit(c, f)
    BY <2>1, TakeIInv
  <2>2. CASE \E c \in CPUs : Step(c)
    BY <2>2, StepIInv
  <2>3. CASE \E c \in CPUs : Lose(c)
    BY <2>3, LoseIInv
  <2>4. CASE Scrape \/ ScrapeValue \/ ScrapeEntry \/ ScrapeEnd
    <3>1. UNCHANGED pvars
      BY <2>4 DEF Scrape, ScrapeValue, ScrapeEntry, ScrapeEnd
    <3> QED BY <3>1, ScrapeIInv
  <2>5. CASE UNCHANGED vars
    <3>1. UNCHANGED pvars
      BY <2>5 DEF vars, pvars
    <3> QED BY <3>1, ScrapeIInv
  <2> QED BY <2>1, <2>2, <2>3, <2>4, <2>5 DEF Next
<1> QED BY <1>1, <1>2, PTL DEF Spec

\* Every G-PDU upf_xdp_uplink counts has exactly one outcome among hit,
\* miss_teid and miss_pdr, for any CPUs and any frames.
THEOREM XdpCounts == Spec => []XdpConserved
<1>1. IInv => XdpConserved
  BY DEF IInv, CInv, XdpBalance, XdpConserved
<1> QED BY <1>1, Invariance, PTL

\* Every hit has exactly one outcome in upf_tc_ingress and nothing else has
\* one, for any CPUs and any frames: the part that rests on ParsersAgree.
THEOREM TcCounts == Spec => []TcConserved
<1>1. IInv => TcConserved
  BY DEF IInv, CInv, TcBalance, TcConserved
<1> QED BY <1>1, Invariance, PTL

-----------------------------------------------------------------------------
(* Scrapes.                                                                *)

\* One counter on all CPUs, and its sum over some of them.
Column(m) == [c \in CPUs |-> count[c][m]]
Part(m, S) == SumFunctionOnSet(Column(m), S)

\* The types of what read_metrics keeps.
ScrapeType ==
    /\ taken \in [CPUs -> Nat]
    /\ skey \in 0..21 /\ scpu \in 1..(NumCPUs + 1) /\ total \in Nat
    /\ out \in [Related -> Nat] /\ floor \in Nat /\ flight \in Nat

\* What has been added up of an entry, together with what is still to read,
\* covers the counter at the beginning, and came from the CPUs read so far.
EntryOK ==
    skey # 0 =>
        /\ floor =< total + Part(MetricIdx[skey], scpu..NumCPUs)
        /\ total =< Part(MetricIdx[skey], 1..(scpu - 1))

\* From the first outcome on, the G-PDUs shown are covered by the outcomes
\* shown, the one being read, those still to come and the G-PDUs in flight.
OutcomesOK ==
    /\ skey = 4 => out["rx_gpdu"] =< floor + Part("miss_teid", CPUs) + Part("miss_pdr", CPUs) + flight
    /\ skey = 5 => out["rx_gpdu"] =< out["hit"] + floor + Part("miss_pdr", CPUs) + flight
    /\ skey = 6 => out["rx_gpdu"] =< out["hit"] + out["miss_teid"] + floor + flight
    /\ skey \in 7..21 => out["rx_gpdu"] =< out["hit"] + out["miss_teid"] + out["miss_pdr"] + flight

SInv == ScrapeType /\ EntryOK /\ OutcomesOK

\* METRIC_NAMES in agent.py lists the counters in the order of enum metric_idx.
LEMMA NamesMatch ==
    /\ \A k \in 1..21 : Name(k) = MetricIdx[k] /\ MetricIdx[k] \in Metrics
    /\ MetricIdx[3] = "rx_gpdu" /\ MetricIdx[4] = "hit"
    /\ MetricIdx[5] = "miss_teid" /\ MetricIdx[6] = "miss_pdr"
    /\ \A k \in 1..21 : MetricIdx[k] = "hit" => k = 4
    /\ \A k \in 7..21 : MetricIdx[k] \notin Related
<1>1. /\ MetricIdx[1] = "rx_total" /\ MetricIdx[2] = "rx_gtpu" /\ MetricIdx[3] = "rx_gpdu"
      /\ MetricIdx[4] = "hit" /\ MetricIdx[5] = "miss_teid" /\ MetricIdx[6] = "miss_pdr"
      /\ MetricIdx[7] = "pass_nongtp" /\ MetricIdx[8] = "pass_ctrl" /\ MetricIdx[9] = "drop_parse"
      /\ MetricIdx[10] = "tc_miss_far" /\ MetricIdx[11] = "tc_far_drop"
      /\ MetricIdx[12] = "tc_far_forward" /\ MetricIdx[13] = "tc_far_buffer"
      /\ MetricIdx[14] = "tc_decap_err" /\ MetricIdx[15] = "tc_redirect_err"
      /\ MetricIdx[16] = "tc_qer_pass" /\ MetricIdx[17] = "tc_qer_drop"
      /\ MetricIdx[18] = "tc_urr_updated" /\ MetricIdx[19] = "tc_dl_hit"
      /\ MetricIdx[20] = "tc_dl_miss" /\ MetricIdx[21] = "tc_dl_encap_err"
  BY DEF MetricIdx
<1>2. METRIC_NAMES = MetricIdx
  BY DEF METRIC_NAMES, MetricIdx
<1>3. ASSUME NEW k \in 1..21 PROVE Name(k) = MetricIdx[k] /\ MetricIdx[k] \in Metrics
  BY <1>2 DEF Name, EntryAt, Metrics
<1>4. \A k \in 1..21 : MetricIdx[k] = "hit" => k = 4
  BY <1>1
<1>5. ASSUME NEW k \in 7..21 PROVE MetricIdx[k] \notin Related
  BY <1>1 DEF Related
<1> QED BY <1>1, <1>3, <1>4, <1>5

\* There are finitely many CPUs.
LEMMA CpusFinite == IsFiniteSet(CPUs) /\ NumCPUs \in Nat
BY DatapathAssumption, FS_Interval DEF CPUs

\* The counters and their sums are natural numbers.
LEMMA ColumnType ==
    ASSUME IInv, NEW m \in Metrics
    PROVE  Column(m) \in [CPUs -> Nat]
<1>1. ASSUME NEW c \in CPUs PROVE count[c][m] \in Nat
  BY DEF IInv, CInv, CountOK
<1> QED BY <1>1 DEF Column

\* The same of a sum over some CPUs.
LEMMA PartType ==
    ASSUME IInv, NEW m \in Metrics, NEW S \in SUBSET CPUs
    PROVE  Part(m, S) \in Nat
BY ColumnType, CpusFinite, SumType DEF Part

\* What the model calls Total is the sum over all CPUs.
LEMMA TotalIsPart ==
    ASSUME IInv, NEW m \in Metrics
    PROVE  Total(m) = Part(m, CPUs)
<1>1. Total(m) = SumFunction(Column(m))
  BY DEF Total, Column
<1> QED BY <1>1, ColumnType, SumOfAll DEF Part

\* Counters never go down.
Grown == \A c \in CPUs, m \in Metrics : count[c][m] =< count'[c][m]

\* Nor do their sums.
LEMMA PartGrows ==
    ASSUME IInv, IInv', Grown, NEW m \in Metrics, NEW S \in SUBSET CPUs
    PROVE  Part(m, S) =< Part(m, S)' /\ Part(m, S) \in Nat /\ Part(m, S)' \in Nat
<1> DEFINE f == Column(m)
           g == [c \in CPUs |-> count'[c][m]]
<1>1. f \in [CPUs -> Nat]
  BY ColumnType
<1>2. g \in [CPUs -> Nat]
  <2>1. ASSUME NEW c \in CPUs PROVE count'[c][m] \in Nat
    BY DEF IInv, CInv, CountOK
  <2> QED BY <2>1
<1>3. \A c \in S : f[c] =< g[c]
  BY DEF Grown, Column
<1>4. Part(m, S) = SumFunctionOnSet(f, S) /\ Part(m, S)' = SumFunctionOnSet(g, S)
  BY DEF Part, Column
<1> HIDE DEF f, g
<1>5. SumFunctionOnSet(f, S) =< SumFunctionOnSet(g, S)
  BY <1>1, <1>2, <1>3, CpusFinite, SumMonotone
<1>6. SumFunctionOnSet(f, S) \in Nat /\ SumFunctionOnSet(g, S) \in Nat
  BY <1>1, <1>2, CpusFinite, SumType
<1> QED BY <1>4, <1>5, <1>6

\* All counters of a CPU summed: every G-PDU has an outcome, or is in flight.
LEMMA SumsBalance ==
    ASSUME IInv
    PROVE  Part("rx_gpdu", CPUs) = Part("hit", CPUs) + Part("miss_teid", CPUs) + Part("miss_pdr", CPUs)
                                     + Cardinality({c \in CPUs : stage[c] = "rx_gpdu"})
<1> DEFINE A == {c \in CPUs : stage[c] = "rx_gpdu"}
           p == [c \in CPUs |-> IF c \in A THEN 1 ELSE 0]
           r == Column("rx_gpdu")
           x == Column("hit")
           y == Column("miss_teid")
           z == Column("miss_pdr")
           xy == [c \in CPUs |-> x[c] + y[c]]
           xyz == [c \in CPUs |-> xy[c] + z[c]]
<1>1. /\ "rx_gpdu" \in Metrics /\ "hit" \in Metrics /\ "miss_teid" \in Metrics
      /\ "miss_pdr" \in Metrics
  BY MetricNames DEF XdpOutcomes
<1>2. r \in [CPUs -> Nat] /\ x \in [CPUs -> Nat] /\ y \in [CPUs -> Nat] /\ z \in [CPUs -> Nat]
  BY <1>1, ColumnType
<1>3. \A c \in CPUs : p[c] = IF c \in A THEN 1 ELSE 0
  OBVIOUS
<1>4. p \in [CPUs -> Nat] /\ A \in SUBSET CPUs
  OBVIOUS
<1>5. \A c \in CPUs : p[c] = Pending(c, {"rx_gpdu"})
  BY DEF Pending
<1>6. ASSUME NEW c \in CPUs PROVE r[c] = x[c] + y[c] + z[c] + p[c]
  <2>1. /\ r[c] = count[c]["rx_gpdu"] /\ x[c] = count[c]["hit"]
        /\ y[c] = count[c]["miss_teid"] /\ z[c] = count[c]["miss_pdr"]
    BY DEF Column
  <2>2. XdpBalance(c)
    BY DEF IInv, CInv
  <2> QED BY <1>5, <2>1, <2>2 DEF XdpBalance
<1> HIDE DEF r, x, y, z, p, A
<1>7. xy \in [CPUs -> Nat] /\ \A c \in CPUs : xy[c] = x[c] + y[c]
  BY <1>2
<1> HIDE DEF xy
<1>8. xyz \in [CPUs -> Nat] /\ \A c \in CPUs : xyz[c] = xy[c] + z[c]
  BY <1>2, <1>7
<1> HIDE DEF xyz
<1>9. \A c \in CPUs : r[c] = xyz[c] + p[c]
  BY <1>6, <1>7, <1>8
<1>10. CPUs \in SUBSET CPUs /\ IsFiniteSet(CPUs)
  BY CpusFinite
<1>11. SumFunctionOnSet(xy, CPUs) = SumFunctionOnSet(x, CPUs) + SumFunctionOnSet(y, CPUs)
  BY <1>2, <1>7, <1>10, SumPlus
<1>12. SumFunctionOnSet(xyz, CPUs) = SumFunctionOnSet(xy, CPUs) + SumFunctionOnSet(z, CPUs)
  BY <1>2, <1>7, <1>8, <1>10, SumPlus
<1>13. SumFunctionOnSet(r, CPUs) = SumFunctionOnSet(xyz, CPUs) + SumFunctionOnSet(p, CPUs)
  BY <1>2, <1>4, <1>8, <1>9, <1>10, SumPlus
<1>14. SumFunctionOnSet(p, CPUs) = Cardinality(A)
  BY <1>3, <1>4, <1>10, SumCounts
<1>15. /\ Part("rx_gpdu", CPUs) = SumFunctionOnSet(r, CPUs) /\ Part("hit", CPUs) = SumFunctionOnSet(x, CPUs)
       /\ Part("miss_teid", CPUs) = SumFunctionOnSet(y, CPUs)
       /\ Part("miss_pdr", CPUs) = SumFunctionOnSet(z, CPUs)
  BY DEF Part, r, x, y, z
<1> QED BY <1>11, <1>12, <1>13, <1>14, <1>15 DEF A

\* Programs go on counting while a scrape runs.
LEMMA CountingKeepsScrape ==
    ASSUME IInv, IInv', SInv, Grown, UNCHANGED svars, taken' \in [CPUs -> Nat]
    PROVE  SInv'
<1>1. ScrapeType'
  BY DEF SInv, ScrapeType, svars
<1>2. /\ ScrapeType /\ skey' = skey /\ scpu' = scpu /\ total' = total /\ out' = out
      /\ floor' = floor /\ flight' = flight
  BY DEF SInv, svars
<1>3. EntryOK'
  <2> SUFFICES ASSUME skey # 0
               PROVE  /\ floor =< total + Part(MetricIdx[skey], scpu..NumCPUs)'
                      /\ total =< Part(MetricIdx[skey], 1..(scpu - 1))'
    BY <1>2 DEF EntryOK
  <2>1. MetricIdx[skey] \in Metrics
    BY <1>2, NamesMatch DEF ScrapeType
  <2>2. scpu..NumCPUs \in SUBSET CPUs /\ 1..(scpu - 1) \in SUBSET CPUs
    BY <1>2, CpusFinite DEF ScrapeType, CPUs
  <2>3. /\ floor =< total + Part(MetricIdx[skey], scpu..NumCPUs)
        /\ total =< Part(MetricIdx[skey], 1..(scpu - 1))
    BY DEF SInv, EntryOK
  <2>4. /\ Part(MetricIdx[skey], scpu..NumCPUs) =< Part(MetricIdx[skey], scpu..NumCPUs)'
        /\ Part(MetricIdx[skey], scpu..NumCPUs) \in Nat
        /\ Part(MetricIdx[skey], scpu..NumCPUs)' \in Nat
    BY <1>2, <2>1, <2>2, PartGrows
  <2>5. /\ Part(MetricIdx[skey], 1..(scpu - 1)) =< Part(MetricIdx[skey], 1..(scpu - 1))'
        /\ Part(MetricIdx[skey], 1..(scpu - 1)) \in Nat
        /\ Part(MetricIdx[skey], 1..(scpu - 1))' \in Nat
    BY <1>2, <2>1, <2>2, PartGrows
  <2> QED BY <1>2, <2>3, <2>4, <2>5 DEF ScrapeType
<1>4. OutcomesOK'
  <2>1. "miss_teid" \in Metrics /\ "miss_pdr" \in Metrics /\ CPUs \in SUBSET CPUs
    BY MetricNames DEF XdpOutcomes
  <2>2. /\ Part("miss_teid", CPUs) =< Part("miss_teid", CPUs)' /\ Part("miss_teid", CPUs) \in Nat
        /\ Part("miss_teid", CPUs)' \in Nat
        /\ Part("miss_pdr", CPUs) =< Part("miss_pdr", CPUs)' /\ Part("miss_pdr", CPUs) \in Nat
        /\ Part("miss_pdr", CPUs)' \in Nat
    BY <2>1, PartGrows
  <2>3. /\ floor \in Nat /\ flight \in Nat /\ out["rx_gpdu"] \in Nat /\ out["hit"] \in Nat
        /\ out["miss_teid"] \in Nat /\ out["miss_pdr"] \in Nat
    BY <1>2 DEF ScrapeType, Related
  <2>4. OutcomesOK
    BY DEF SInv
  <2> HIDE DEF CPUs
  <2> QED BY <1>2, <2>2, <2>3, <2>4 DEF OutcomesOK
<1> QED BY <1>1, <1>3, <1>4 DEF SInv

\* One CPU's value of the entry is added.
LEMMA ValueKeepsScrape ==
    ASSUME IInv, SInv, ScrapeValue
    PROVE  SInv'
<1>1. /\ skey # 0 /\ scpu =< NumCPUs /\ scpu' = scpu + 1
      /\ total' = total + count[scpu][MetricIdx[skey]]
      /\ UNCHANGED <<count, taken, skey, out, floor, flight>>
  BY DEF ScrapeValue, pvars, EntryAt
<1> DEFINE m == MetricIdx[skey]
<1>2. ScrapeType /\ EntryOK /\ OutcomesOK
  BY DEF SInv
<1>3. /\ scpu \in CPUs /\ NumCPUs \in Nat /\ scpu + 1 \in 1..(NumCPUs + 1)
  BY <1>1, <1>2, CpusFinite DEF ScrapeType, CPUs
<1>4. m \in Metrics
  BY <1>1, <1>2, NamesMatch DEF ScrapeType
<1> HIDE DEF m
<1>5. Column(m) \in [CPUs -> Nat] /\ Column(m)[scpu] = count[scpu][m] /\ count[scpu][m] \in Nat
  <2>1. Column(m) \in [CPUs -> Nat]
    BY <1>4, ColumnType
  <2>2. Column(m)[scpu] = count[scpu][m]
    BY <1>3 DEF Column
  <2>3. Column(m)[scpu] \in Nat
    BY <1>3, <2>1
  <2> QED BY <2>1, <2>2, <2>3
<1>6. Part(m, scpu..NumCPUs) = count[scpu][m] + Part(m, (scpu + 1)..NumCPUs)
  <2>1. /\ scpu..NumCPUs \in SUBSET CPUs /\ scpu \in scpu..NumCPUs
        /\ (scpu..NumCPUs) \ {scpu} = (scpu + 1)..NumCPUs
    BY <1>1, <1>3 DEF CPUs
  <2> QED BY <1>5, <2>1, CpusFinite, SumRemove DEF Part
<1>7. Part(m, 1..scpu) = count[scpu][m] + Part(m, 1..(scpu - 1))
  <2>1. /\ 1..scpu \in SUBSET CPUs /\ scpu \in 1..scpu /\ (1..scpu) \ {scpu} = 1..(scpu - 1)
    BY <1>1, <1>3 DEF CPUs
  <2> QED BY <1>5, <2>1, CpusFinite, SumRemove DEF Part
<1>8. Part(m, (scpu + 1)..NumCPUs) \in Nat /\ Part(m, 1..(scpu - 1)) \in Nat
  <2>1. (scpu + 1)..NumCPUs \in SUBSET CPUs /\ 1..(scpu - 1) \in SUBSET CPUs
    BY <1>3 DEF CPUs
  <2> QED BY <1>4, <2>1, PartType
<1>9. floor =< total + Part(m, scpu..NumCPUs) /\ total =< Part(m, 1..(scpu - 1))
  BY <1>1, <1>2 DEF EntryOK, m
<1>10. total \in Nat /\ floor \in Nat /\ total' = total + count[scpu][m]
  BY <1>1, <1>2 DEF ScrapeType, m
<1>11. floor =< total' + Part(m, (scpu + 1)..NumCPUs) /\ total' =< Part(m, 1..scpu)
  BY <1>5, <1>6, <1>7, <1>8, <1>9, <1>10
<1>12. /\ \A S : Part(m, S)' = Part(m, S)
       /\ m' = m /\ (scpu + 1) - 1 = scpu
  BY <1>1, <1>3 DEF Part, Column, m, CPUs
<1>13. EntryOK'
  <2>1. floor' =< total' + Part(m, (scpu')..NumCPUs)
    BY <1>1, <1>11
  <2>2. total' =< Part(m, 1..(scpu' - 1))
    BY <1>1, <1>11, <1>12
  <2> QED BY <1>1, <1>12, <2>1, <2>2 DEF EntryOK, m
<1>14. total' \in Nat
  BY <1>5, <1>10
<1>15. ScrapeType'
  BY <1>1, <1>2, <1>3, <1>14 DEF ScrapeType
<1>16. OutcomesOK'
  BY <1>1, <1>2 DEF OutcomesOK, Part, Column
<1> QED BY <1>13, <1>15, <1>16 DEF SInv

\* An entry is begun: its counter is known exactly, and nothing of it has been
\* read.
LEMMA BeginEntry ==
    ASSUME IInv, ScrapeType, UNCHANGED pvars, NEW k \in 1..21, Begin(k), out' \in [Related -> Nat]
    PROVE  /\ ScrapeType' /\ EntryOK' /\ floor' = Part(MetricIdx[k], CPUs)
           /\ \A m \in Metrics : Part(m, CPUs)' = Part(m, CPUs)
           /\ k = 4 => flight' = Cardinality({c \in CPUs : stage[c] = "rx_gpdu"})
           /\ k # 4 => flight' = flight
<1>1. /\ skey' = k /\ scpu' = 1 /\ total' = 0 /\ floor' = Total(Name(k))
      /\ flight' = IF Name(k) = "hit" THEN Cardinality({c \in CPUs : stage[c] = "rx_gpdu"}) ELSE flight
      /\ UNCHANGED <<count, taken>>
  BY DEF Begin, pvars
<1> DEFINE m == MetricIdx[k]
<1>2. m \in Metrics /\ Name(k) = m /\ (m = "hit" <=> k = 4)
  BY NamesMatch
<1> HIDE DEF m
<1>3. floor' = Part(m, CPUs) /\ Part(m, CPUs) \in Nat
  BY <1>1, <1>2, TotalIsPart, PartType
<1>4. /\ k = 4 => flight' = Cardinality({c \in CPUs : stage[c] = "rx_gpdu"})
      /\ k # 4 => flight' = flight
  BY <1>1, <1>2
<1>5. Cardinality({c \in CPUs : stage[c] = "rx_gpdu"}) \in Nat
  <2>1. {c \in CPUs : stage[c] = "rx_gpdu"} \in SUBSET CPUs
    OBVIOUS
  <2> QED BY <2>1, CpusFinite, FS_Subset, FS_CardinalityType
<1>6. flight' \in Nat
  BY <1>4, <1>5 DEF ScrapeType
<1>7. ScrapeType'
  BY <1>1, <1>3, <1>6, CpusFinite DEF ScrapeType
<1>8. \A x, S : Part(x, S)' = Part(x, S)
  BY <1>1 DEF Part, Column
<1>9. EntryOK'
  <2>1. 1..NumCPUs = CPUs /\ 1..(1 - 1) = {}
    BY DEF CPUs
  <2>2. Part(m, 1..(1 - 1)) = 0
    BY <2>1, SumEmpty DEF Part
  <2>3. floor' =< 0 + Part(m, 1..NumCPUs) /\ 0 =< Part(m, 1..(1 - 1))
    BY <1>3, <2>1, <2>2
  <2> QED BY <1>1, <1>8, <2>3 DEF EntryOK, m
<1> QED BY <1>3, <1>4, <1>7, <1>8, <1>9 DEF m

\* A scrape begins.
LEMMA ScrapeKeepsScrape == ASSUME IInv, SInv, Scrape PROVE SInv'
<1>1. Begin(1) /\ UNCHANGED pvars /\ out' = out
  BY DEF Scrape
<1>2. ScrapeType /\ out' \in [Related -> Nat]
  BY <1>1 DEF SInv, ScrapeType
<1>3. 1 \in 1..21
  OBVIOUS
<1>4. ScrapeType' /\ EntryOK'
  BY <1>1, <1>2, <1>3, BeginEntry
<1>5. skey' = 1
  BY <1>1 DEF Begin
<1>6. OutcomesOK'
  BY <1>5 DEF OutcomesOK
<1> QED BY <1>4, <1>6 DEF SInv

\* An entry that is complete lies between the counter's values at its
\* beginning and now.
LEMMA EntryComplete ==
    ASSUME IInv, SInv, skey \in 1..21, scpu > NumCPUs
    PROVE  floor =< total /\ total =< Part(MetricIdx[skey], CPUs)
<1>1. ScrapeType /\ EntryOK
  BY DEF SInv
<1>2. scpu = NumCPUs + 1 /\ NumCPUs \in Nat
  BY <1>1, CpusFinite DEF ScrapeType
<1>3. scpu..NumCPUs = {} /\ 1..(scpu - 1) = CPUs
  BY <1>2 DEF CPUs
<1>4. Part(MetricIdx[skey], {}) = 0
  BY SumEmpty DEF Part
<1>5. floor =< total + 0 /\ total =< Part(MetricIdx[skey], CPUs)
  <2>1. skey # 0
    OBVIOUS
  <2> QED BY <1>1, <1>3, <1>4, <2>1 DEF EntryOK
<1> QED BY <1>1, <1>5 DEF ScrapeType

\* An entry is complete and the next one begun.
LEMMA EntryKeepsScrape == ASSUME IInv, SInv, ScrapeEntry PROVE SInv'
<1>1. /\ skey \in 1..20 /\ scpu > NumCPUs /\ out' = Store /\ Begin(skey + 1) /\ UNCHANGED pvars
  BY DEF ScrapeEntry
<1>2. ScrapeType /\ OutcomesOK
  BY DEF SInv
<1>3. skey + 1 \in 1..21 /\ skey \in 1..21 /\ skey' = skey + 1
  BY <1>1 DEF Begin
<1>4. out' \in [Related -> Nat]
  BY <1>1, <1>2 DEF Store, ScrapeType
<1>5. /\ ScrapeType' /\ EntryOK' /\ floor' = Part(MetricIdx[skey + 1], CPUs)
      /\ \A m \in Metrics : Part(m, CPUs)' = Part(m, CPUs)
      /\ skey + 1 = 4 => flight' = Cardinality({c \in CPUs : stage[c] = "rx_gpdu"})
      /\ skey + 1 # 4 => flight' = flight
  BY <1>1, <1>2, <1>3, <1>4, BeginEntry
<1>6. floor =< total /\ total =< Part(MetricIdx[skey], CPUs)
  BY <1>1, <1>3, EntryComplete
<1>7. /\ "rx_gpdu" \in Metrics /\ "hit" \in Metrics /\ "miss_teid" \in Metrics
      /\ "miss_pdr" \in Metrics /\ CPUs \in SUBSET CPUs
  BY MetricNames DEF XdpOutcomes
<1>8. /\ Part("rx_gpdu", CPUs) \in Nat /\ Part("hit", CPUs) \in Nat
      /\ Part("miss_teid", CPUs) \in Nat /\ Part("miss_pdr", CPUs) \in Nat
  BY <1>7, PartType
<1>9. /\ Part("miss_teid", CPUs)' = Part("miss_teid", CPUs)
      /\ Part("miss_pdr", CPUs)' = Part("miss_pdr", CPUs)
  BY <1>5, <1>7
<1>10. /\ floor \in Nat /\ flight \in Nat /\ total \in Nat /\ flight' \in Nat
       /\ out["rx_gpdu"] \in Nat /\ out["hit"] \in Nat
       /\ out["miss_teid"] \in Nat /\ out["miss_pdr"] \in Nat
  BY <1>2, <1>5 DEF ScrapeType, Related
<1>11. ASSUME NEW x \in Related
       PROVE  out'[x] = IF x = MetricIdx[skey] THEN total ELSE out[x]
  BY <1>1, <1>3, NamesMatch DEF Store
<1>12. /\ out'["rx_gpdu"] = IF "rx_gpdu" = MetricIdx[skey] THEN total ELSE out["rx_gpdu"]
       /\ out'["hit"] = IF "hit" = MetricIdx[skey] THEN total ELSE out["hit"]
       /\ out'["miss_teid"] = IF "miss_teid" = MetricIdx[skey] THEN total ELSE out["miss_teid"]
       /\ out'["miss_pdr"] = IF "miss_pdr" = MetricIdx[skey] THEN total ELSE out["miss_pdr"]
  BY <1>11 DEF Related
<1> HIDE DEF CPUs
<1>13. ASSUME skey = 3
       PROVE  out'["rx_gpdu"] =< floor' + Part("miss_teid", CPUs) + Part("miss_pdr", CPUs) + flight'
  <2>1. out'["rx_gpdu"] = total /\ total =< Part("rx_gpdu", CPUs)
    BY <1>6, <1>12, <1>13, NamesMatch
  <2>2. floor' = Part("hit", CPUs) /\ flight' = Cardinality({c \in CPUs : stage[c] = "rx_gpdu"})
    BY <1>5, <1>13, NamesMatch
  <2>3. Part("rx_gpdu", CPUs) = Part("hit", CPUs) + Part("miss_teid", CPUs) + Part("miss_pdr", CPUs)
                                  + flight'
    BY <2>2, SumsBalance
  <2> QED BY <2>1, <2>2, <2>3
<1>14. ASSUME skey = 4
       PROVE  out'["rx_gpdu"] =< out'["hit"] + floor' + Part("miss_pdr", CPUs) + flight'
  <2>1. out'["rx_gpdu"] = out["rx_gpdu"] /\ out'["hit"] = total
    BY <1>12, <1>14, NamesMatch
  <2>2. floor' = Part("miss_teid", CPUs) /\ flight' = flight
    BY <1>5, <1>14, NamesMatch
  <2>3. out["rx_gpdu"] =< floor + Part("miss_teid", CPUs) + Part("miss_pdr", CPUs) + flight
    BY <1>2, <1>14 DEF OutcomesOK
  <2> QED BY <1>6, <1>8, <1>10, <2>1, <2>2, <2>3
<1>15. ASSUME skey = 5
       PROVE  out'["rx_gpdu"] =< out'["hit"] + out'["miss_teid"] + floor' + flight'
  <2>1. out'["rx_gpdu"] = out["rx_gpdu"] /\ out'["hit"] = out["hit"] /\ out'["miss_teid"] = total
    BY <1>12, <1>15, NamesMatch
  <2>2. floor' = Part("miss_pdr", CPUs) /\ flight' = flight
    BY <1>5, <1>15, NamesMatch
  <2>3. out["rx_gpdu"] =< out["hit"] + floor + Part("miss_pdr", CPUs) + flight
    BY <1>2, <1>15 DEF OutcomesOK
  <2> QED BY <1>6, <1>8, <1>10, <2>1, <2>2, <2>3
<1>16. ASSUME skey \in 6..20
       PROVE  out'["rx_gpdu"] =< out'["hit"] + out'["miss_teid"] + out'["miss_pdr"] + flight'
  <2>1. flight' = flight
    BY <1>5, <1>16
  <2>2. CASE skey = 6
    <3>1. /\ out'["rx_gpdu"] = out["rx_gpdu"] /\ out'["hit"] = out["hit"]
          /\ out'["miss_teid"] = out["miss_teid"] /\ out'["miss_pdr"] = total
      BY <1>12, <2>2, NamesMatch
    <3>2. out["rx_gpdu"] =< out["hit"] + out["miss_teid"] + floor + flight
      BY <1>2, <2>2 DEF OutcomesOK
    <3> QED BY <1>6, <1>10, <2>1, <3>1, <3>2
  <2>3. CASE skey \in 7..20
    <3>1. MetricIdx[skey] \notin Related
      BY <2>3, NamesMatch
    <3>2. /\ out'["rx_gpdu"] = out["rx_gpdu"] /\ out'["hit"] = out["hit"]
          /\ out'["miss_teid"] = out["miss_teid"] /\ out'["miss_pdr"] = out["miss_pdr"]
      BY <1>12, <3>1 DEF Related
    <3>3. out["rx_gpdu"] =< out["hit"] + out["miss_teid"] + out["miss_pdr"] + flight
      BY <1>2, <2>3 DEF OutcomesOK
    <3> QED BY <2>1, <3>2, <3>3
  <2> QED BY <1>16, <2>2, <2>3
<1>17. OutcomesOK'
  <2>1. skey' = 4 => out'["rx_gpdu"] =< floor' + Part("miss_teid", CPUs)' + Part("miss_pdr", CPUs)' + flight'
    BY <1>1, <1>3, <1>9, <1>13
  <2>2. skey' = 5 => out'["rx_gpdu"] =< out'["hit"] + floor' + Part("miss_pdr", CPUs)' + flight'
    BY <1>1, <1>3, <1>9, <1>14
  <2>3. skey' = 6 => out'["rx_gpdu"] =< out'["hit"] + out'["miss_teid"] + floor' + flight'
    BY <1>1, <1>3, <1>15
  <2>4. skey' \in 7..21 => out'["rx_gpdu"] =< out'["hit"] + out'["miss_teid"] + out'["miss_pdr"] + flight'
    BY <1>1, <1>3, <1>16
  <2> QED BY <2>1, <2>2, <2>3, <2>4 DEF OutcomesOK
<1> QED BY <1>5, <1>17 DEF SInv

-----------------------------------------------------------------------------
\* What a scrape has read is bounded at every point of it, while the programs
\* of all CPUs go on counting.
THEOREM ScrapeInvariance == Spec => []SInv
<1>1. Init => SInv
  <2> SUFFICES ASSUME Init PROVE SInv
    OBVIOUS
  <2>1. ScrapeType
    BY CpusFinite DEF Init, ScrapeType, Blank
  <2> QED BY <2>1 DEF Init, SInv, EntryOK, OutcomesOK
<1>2. IInv /\ IInv' /\ SInv /\ [Next]_vars => SInv'
  <2> SUFFICES ASSUME IInv, IInv', SInv, [Next]_vars PROVE SInv'
    OBVIOUS
  <2>1. taken \in [CPUs -> Nat]
    BY DEF SInv, ScrapeType
  <2>2. ASSUME NEW c \in CPUs, NEW m \in Metrics PROVE count[c][m] \in Nat
    BY DEF IInv, CInv, CountOK
  <2>3. ASSUME NEW c \in CPUs, NEW x, count' = [count EXCEPT ![c][x] = @ + 1] PROVE Grown
    <3>1. ASSUME NEW d \in CPUs, NEW m \in Metrics PROVE count[d][m] =< count'[d][m]
      <4>1. count[d] \in [Metrics -> Nat]
        BY DEF IInv, CInv, CountOK
      <4>2. count' = [count EXCEPT ![c] = [count[c] EXCEPT ![x] = count[c][x] + 1]]
        BY <2>3
      <4>3. count'[d] = IF d = c THEN [count[c] EXCEPT ![x] = count[c][x] + 1] ELSE count[d]
        BY <4>2 DEF IInv, Types
      <4> QED BY <2>2, <4>1, <4>3
    <3> QED BY <3>1 DEF Grown
  <2>4. count' = count => Grown
    BY <2>2 DEF Grown
  <2>5. CASE \E c \in CPUs : \E f \in Frames : Receive(c, f) \/ Transmit(c, f)
    <3>1. PICK c \in CPUs, f \in Frames : Receive(c, f) \/ Transmit(c, f)
      BY <2>5
    <3>2. Grown
      BY <2>3, <2>4, <3>1 DEF Receive, Transmit, Bump
    <3>3. UNCHANGED svars /\ taken' = [taken EXCEPT ![c] = @ + 1]
      BY <3>1 DEF Receive, Transmit, Take
    <3>4. taken' \in [CPUs -> Nat]
      BY <2>1, <3>3
    <3> QED BY <3>2, <3>3, <3>4, CountingKeepsScrape
  <2>6. CASE \E c \in CPUs : Step(c)
    <3>1. Grown
      BY <2>3, <2>6 DEF Step, Bump
    <3>2. UNCHANGED svars /\ taken' = taken
      BY <2>6 DEF Step
    <3> QED BY <2>1, <3>1, <3>2, CountingKeepsScrape
  <2>7. CASE \E c \in CPUs : Lose(c)
    <3>1. UNCHANGED svars /\ taken' = taken /\ count' = count
      BY <2>7 DEF Lose
    <3> QED BY <2>1, <2>4, <3>1, CountingKeepsScrape
  <2>8. CASE Scrape \/ ScrapeValue \/ ScrapeEntry
    BY <2>8, ScrapeKeepsScrape, ValueKeepsScrape, EntryKeepsScrape
  <2>9. CASE ScrapeEnd
    <3>1. /\ skey' = 0 /\ scpu' = 1 /\ total' = 0 /\ out' = Blank /\ floor' = 0 /\ flight' = 0
          /\ taken' = taken
      BY <2>9 DEF ScrapeEnd, pvars
    <3>2. ScrapeType'
      BY <2>1, <3>1, CpusFinite DEF ScrapeType, Blank
    <3> QED BY <3>1, <3>2 DEF SInv, EntryOK, OutcomesOK
  <2>10. CASE UNCHANGED vars
    <3>1. UNCHANGED svars /\ taken' = taken /\ count' = count
      BY <2>10 DEF vars, svars
    <3> QED BY <2>1, <2>4, <3>1, CountingKeepsScrape
  <2> QED BY <2>5, <2>6, <2>7, <2>8, <2>9, <2>10 DEF Next
<1> QED BY <1>1, <1>2, Invariance, PTL DEF Spec

\* The counters, the CPUs' stages and what read_metrics keeps have their types,
\* for any number of CPUs and frames.
THEOREM TypeCorrect == Spec => []TypeOK
<1>1. IInv /\ SInv => TypeOK
  <2> SUFFICES ASSUME IInv, SInv PROVE TypeOK
    OBVIOUS
  <2>1. ASSUME NEW c \in CPUs
        PROVE  /\ stage[c] \in Metrics \cup {"none", "sending"} /\ frame[c] \in Frame
               /\ count[c] \in [Metrics -> Nat] /\ lost[c] \in Nat
    BY DEF IInv, CInv, CountOK
  <2>2. Types /\ ScrapeType
    BY DEF IInv, SInv
  <2>3. stage \in [CPUs -> Metrics \cup {"none", "sending"}] /\ frame \in [CPUs -> Frame]
    BY <2>1, <2>2 DEF Types
  <2>4. count \in [CPUs -> [Metrics -> Nat]] /\ lost \in [CPUs -> Nat]
    BY <2>1, <2>2 DEF Types
  <2> QED BY <2>2, <2>3, <2>4 DEF TypeOK, ScrapeType
<1> QED BY <1>1, Invariance, ScrapeInvariance, PTL

\* For any number of CPUs counting meanwhile, what /metrics shows under a name
\* lies between that counter's sums when the entry was begun and completed.
THEOREM ScrapesAreBounded == Spec => []ScrapeBounded
<1>1. IInv /\ SInv => ScrapeBounded
  <2> SUFFICES ASSUME IInv, SInv, skey # 0, scpu > NumCPUs
               PROVE  floor =< total /\ total =< Total(Name(skey))
    BY DEF ScrapeBounded
  <2>1. skey \in 1..21
    BY DEF SInv, ScrapeType
  <2>2. floor =< total /\ total =< Part(MetricIdx[skey], CPUs)
    BY <2>1, EntryComplete
  <2>3. Total(Name(skey)) = Part(MetricIdx[skey], CPUs)
    BY <2>1, NamesMatch, TotalIsPart
  <2> QED BY <2>2, <2>3
<1> QED BY <1>1, Invariance, ScrapeInvariance, PTL

\* Whatever is counted during a scrape, it shows at most as many G-PDUs
\* without an outcome as were in flight when it came to the first outcome.
THEOREM ScrapesAreOrdered == Spec => []ScrapeOrdered
<1>1. SInv => ScrapeOrdered
  BY DEF SInv, OutcomesOK, ScrapeOrdered
<1> QED BY <1>1, ScrapeInvariance, PTL
=============================================================================
