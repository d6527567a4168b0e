--------------------------- MODULE DownlinkProofs ---------------------------
(***************************************************************************)
(* Proofs about Downlink, for any CPUs, elements, tunnels, addresses and   *)
(* frames.                                                                 *)
(***************************************************************************)
EXTENDS Downlink, SequenceTheorems, TLAPS

-----------------------------------------------------------------------------
(* Bytes.                                                                  *)

\* What comes last in a sequence is found at its end.
LEMMA Last4 ==
    ASSUME NEW S, NEW s \in Seq(S), NEW t \in Seq(S), Len(t) = 4, NEW k \in Nat, Len(s) = k
    PROVE  SubSeq(s \o t, k + 1, k + 4) = t
<1> DEFINE q == s \o t
<1>1. /\ q \in Seq(S) /\ Len(q) = Len(s) + Len(t)
      /\ \A i \in 1..(Len(s) + Len(t)) : q[i] = IF i =< Len(s) THEN s[i] ELSE t[i - Len(s)]
  BY ConcatProperties, Zenon
<1> HIDE DEF q
<1>2. \A i \in (k + 1)..(k + 4) : q[i] \in S
  BY <1>1, ElementOfSeq
<1>3. \A i \in 1..4 : q[k + i] = t[i]
  BY <1>1
<1>4. /\ SubSeq(q, k + 1, k + 4) \in Seq(S) /\ Len(SubSeq(q, k + 1, k + 4)) = 4
      /\ \A i \in 1..4 : SubSeq(q, k + 1, k + 4)[i] = q[k + i]
  <2>1. k + 1 \in Int /\ k + 4 \in Int
    OBVIOUS
  <2> QED BY <1>2, <2>1, SubSeqProperties
<1> DEFINE r == SubSeq(q, k + 1, k + 4)
<1>5. r \in Seq(S) /\ Len(r) = Len(t) /\ \A i \in 1..Len(r) : r[i] = t[i]
  BY <1>3, <1>4
<1> HIDE DEF r
<1>6. r = t
  BY <1>5, SeqEqual
<1> QED BY <1>6 DEF q, r

LEMMA Joined ==
    ASSUME NEW S, NEW s \in Seq(S), NEW t \in Seq(S)
    PROVE  s \o t \in Seq(S) /\ Len(s \o t) = Len(s) + Len(t)
  BY ConcatProperties, Zenon

\* bpf_htons and struct.pack give bytes.
LEMMA Bytes2 == ASSUME NEW n \in Nat PROVE BE16(n) \in Seq(Byte) /\ Len(BE16(n)) = 2
<1>1. (n % 65536) \div 256 \in Byte /\ n % 256 \in Byte
  BY DEF Byte
<1> QED BY <1>1 DEF BE16

LEMMA TwoWords ==
    ASSUME NEW s \in Seq(Byte), NEW t \in Seq(Byte), Len(s) = 2, Len(t) = 2
    PROVE  s \o t \in Quad
<1> DEFINE h == s \o t
<1>1. h \in Seq(Byte) /\ Len(h) = Len(s) + Len(t)
  BY Joined, Zenon
<1> HIDE DEF h
<1>2. h \in Quad
  BY <1>1 DEF Quad
<1> QED BY <1>2 DEF h

LEMMA Bytes4 == ASSUME NEW n \in Nat PROVE BE32(n) \in Quad
<1>1. PICK hi \in Nat : hi = n \div 65536
  OBVIOUS
<1>2. BE16(hi) \in Seq(Byte) /\ Len(BE16(hi)) = 2 /\ BE16(n) \in Seq(Byte) /\ Len(BE16(n)) = 2
  BY Bytes2
<1>3. BE16(hi) \o BE16(n) \in Quad
  BY <1>2, TwoWords
<1>4. BE32(n) = BE16(hi) \o BE16(n)
  BY <1>1 DEF BE32
<1> QED BY <1>3, <1>4, Zenon

\* The destination address is at the end of the IPv4 header.
LEMMA Destination ==
    ASSUME NEW n \in Nat, NEW s \in Quad, NEW d \in Quad
    PROVE  SubSeq(IpHeader(n, s, d), 17, 20) = d
<1> DEFINE With(check) == <<69, 0>> \o BE16(n) \o <<0, 0, 0, 0, 64, 17>> \o check \o s \o d
<1>1. PICK a, b : IpHeader(n, s, d) = With(<<a, b>>)
  BY DEF IpHeader, Stored16
<1> DEFINE S == Byte \cup {a, b}
<1>2. /\ s \in Seq(S) /\ d \in Seq(S) /\ Len(s) = 4 /\ Len(d) = 4
      /\ BE16(n) \in Seq(S) /\ Len(BE16(n)) = 2
  <2>1. BE16(n) \in Seq(Byte) /\ Len(BE16(n)) = 2
    BY Bytes2
  <2>2. s \in Seq(Byte) /\ d \in Seq(Byte) /\ Len(s) = 4 /\ Len(d) = 4
    BY DEF Quad
  <2>3. ASSUME NEW q \in Seq(Byte) PROVE q \in Seq(S)
    OBVIOUS
  <2> QED BY <2>1, <2>2, <2>3
<1>3. <<69, 0>> \in Seq(S) /\ <<0, 0, 0, 0, 64, 17>> \in Seq(S) /\ <<a, b>> \in Seq(S)
  BY DEF Byte
<1>4. Len(<<69, 0>>) = 2 /\ Len(<<0, 0, 0, 0, 64, 17>>) = 6 /\ Len(<<a, b>>) = 2
  OBVIOUS
<1> DEFINE h1 == <<69, 0>> \o BE16(n)
           h2 == h1 \o <<0, 0, 0, 0, 64, 17>>
           h3 == h2 \o <<a, b>>
           h4 == h3 \o s
<1> HIDE DEF S
<1>5. h1 \in Seq(S) /\ Len(h1) = Len(<<69, 0>>) + Len(BE16(n))
  BY <1>2, <1>3, Joined, Zenon
<1> HIDE DEF h1
<1>6. h2 \in Seq(S) /\ Len(h2) = Len(h1) + Len(<<0, 0, 0, 0, 64, 17>>)
  BY <1>3, <1>5, Joined, Zenon
<1> HIDE DEF h2
<1>7. h3 \in Seq(S) /\ Len(h3) = Len(h2) + Len(<<a, b>>)
  BY <1>3, <1>6, Joined, Zenon
<1> HIDE DEF h3
<1>8. h4 \in Seq(S) /\ Len(h4) = Len(h3) + Len(s)
  BY <1>2, <1>7, Joined, Zenon
<1>9. With(<<a, b>>) = h4 \o d
  BY Zenon DEF h1, h2, h3
<1> HIDE DEF h4, With
<1>10. Len(h4) = 16
  BY <1>2, <1>4, <1>5, <1>6, <1>7, <1>8
<1>11. SubSeq(h4 \o d, 16 + 1, 16 + 4) = d
  BY <1>2, <1>8, <1>10, Last4
<1>12. 16 + 1 = 17 /\ 16 + 4 = 20
  OBVIOUS
<1> QED BY <1>1, <1>9, <1>11, <1>12, Zenon

\* The TEID is at the end of the GTP-U header.
LEMMA Tunnel ==
    ASSUME NEW n \in Nat, NEW t \in Quad
    PROVE  SubSeq(<<48, 255>> \o BE16(n) \o t, 5, 8) = t
<1>1. BE16(n) \in Seq(Byte) /\ Len(BE16(n)) = 2
  BY Bytes2
<1>2. <<48, 255>> \in Seq(Byte) /\ Len(<<48, 255>>) = 2
  BY DEF Byte
<1> DEFINE h == <<48, 255>> \o BE16(n)
<1>3. h \in Seq(Byte) /\ Len(h) = Len(<<48, 255>>) + Len(BE16(n))
  BY <1>1, <1>2, Joined, Zenon
<1> HIDE DEF h
<1>4. t \in Seq(Byte) /\ Len(t) = 4
  BY DEF Quad
<1>5. Len(h) = 4
  BY <1>1, <1>2, <1>3
<1>6. SubSeq(h \o t, 4 + 1, 4 + 4) = t
  BY <1>3, <1>4, <1>5, Last4
<1>7. 4 + 1 = 5 /\ 4 + 4 = 8
  OBVIOUS
<1> QED BY <1>6, <1>7, Zenon DEF h

-----------------------------------------------------------------------------
(* Tunnels.                                                                *)

\* The part of the types that the argument needs.
Shapes ==
    /\ elem \in [Elems -> [Words -> Quad]]
    /\ live \in Elems \cup {NONE} /\ tgt \in Elems \cup {NONE}
    /\ val \in [Words -> Quad] /\ n3 \in Quad
    /\ stage \in [CPUs -> {"idle", "room", "ip", "gtp", "sent"}]
    /\ frame \in [CPUs -> Frame]
    /\ ue \in [CPUs -> Elems \cup {NONE}] /\ src \in [CPUs -> Quad]
    /\ outer = [c \in CPUs |-> outer[c]]
    /\ \A c \in CPUs : outer[c] = [ip |-> outer[c].ip, udp |-> outer[c].udp, gtp |-> outer[c].gtp]
    /\ seen \in [CPUs -> [Words -> Quad]] /\ churn \in [CPUs -> 0..2]

\* An update fills an element that is not linked, and copies nothing before it
\* has one.
UpdateOK ==
    /\ others \subseteq Elems /\ mine \in BOOLEAN
    /\ tgt # NONE => tgt # live
    /\ left # {} => tgt # NONE

\* The element of a packet is untouched while fewer than two updates of the
\* map overlap it: it is linked, or the only one of them has unlinked it and is
\* over, so that nothing is being filled.
PointerOK(c) ==
    stage[c] # "idle" =>
        /\ ue[c] \in Elems
        /\ frame[c].len >= ETH
        /\ churn[c] = 0 => tgt = NONE /\ ue[c] = live
        /\ churn[c] = 1 => ue[c] = live \/ tgt = NONE
        /\ churn[c] < 2 => elem[ue[c]] = seen[c]

\* What the packet's headers hold so far.
HeaderOK(c) ==
    churn[c] < 2 =>
        /\ stage[c] \in {"gtp", "sent"} => SubSeq(outer[c].ip, 17, 20) = seen[c]["gnb_ipv4_be"]
        /\ stage[c] = "sent" => SubSeq(outer[c].gtp, 5, 8) = seen[c]["teid_be"]

IInv == Shapes /\ UpdateOK /\ \A c \in CPUs : PointerOK(c) /\ HeaderOK(c)

\* Lengths of a frame with an Ethernet header are no negative numbers.
LEMMA Lengths ==
    ASSUME NEW f \in Frame, f.len >= ETH
    PROVE  TotalLen(f) \in Nat /\ TotalLen(f) - IP - UDP - GTP \in Nat
<1>1. f.len \in Nat
  BY DEF Frame
<1> QED BY <1>1 DEF TotalLen, AddLen, ETH, IP, UDP, GTP

LEMMA InitIInv == Init => IInv
<1> SUFFICES ASSUME Init PROVE IInv
  OBVIOUS
<1>1. Unspecified \in Quad
  BY DEF Unspecified, Quad, Byte
<1>2. Nothing \in [Words -> Quad]
  BY <1>1 DEF Nothing
<1>3. NoFrame \in Frame
  BY DEF NoFrame, Frame
<1>4. Shapes
  BY <1>1, <1>2, <1>3 DEF Init, Shapes, NoOuter
<1>5. UpdateOK /\ \A c \in CPUs : PointerOK(c) /\ HeaderOK(c)
  BY DEF Init, UpdateOK, PointerOK, HeaderOK
<1> QED BY <1>4, <1>5 DEF IInv

\* install_dl_ue takes an element; it overlaps the packets on their way.
LEMMA InstallIInv ==
    ASSUME IInv, NEW u \in Ues, NEW own \in BOOLEAN, InstallDlUe(u, own)
    PROVE  IInv'
<1> USE DEF IInv
<1>1. /\ tgt = NONE /\ tgt' \in Elems /\ tgt' # live /\ churn' = Churned
      /\ mine' = own /\ UNCHANGED <<elem, live, others, n3, stage, frame, ue, src, outer, seen>>
  BY DEF InstallDlUe, Free
<1>2. val' \in [Words -> Quad]
  <2>1. u.teid \in Nat /\ u.gnb \in Quad
    BY DownlinkAssumption
  <2>2. BE32(u.teid) \in Quad
    BY <2>1, Bytes4
  <2> QED BY <2>1, <2>2 DEF InstallDlUe
<1>3. \A c \in CPUs : churn'[c] \in 0..2 /\ churn' \in [CPUs -> 0..2]
  BY <1>1 DEF Churned, Shapes
<1>4. Shapes'
  BY <1>1, <1>2, <1>3 DEF Shapes, Churned
<1>5. UpdateOK'
  BY <1>1, DownlinkAssumption DEF UpdateOK
<1>6. ASSUME NEW c \in CPUs PROVE PointerOK(c)' /\ HeaderOK(c)'
  <2>1. churn'[c] = IF ue[c] # NONE /\ churn[c] < 2 THEN churn[c] + 1 ELSE churn[c]
    BY <1>1 DEF Churned
  <2>2. churn[c] \in 0..2
    BY DEF Shapes
  <2>3. stage[c] # "idle" => ue[c] \in Elems /\ ue[c] # NONE
    BY DownlinkAssumption DEF PointerOK
  <2>4. PointerOK(c)'
    BY <1>1, <2>1, <2>2, <2>3 DEF PointerOK
  <2>5. HeaderOK(c)'
    BY <1>1, <2>1, <2>2 DEF HeaderOK
  <2> QED BY <2>4, <2>5
<1> QED BY <1>4, <1>5, <1>6

LEMMA CopyIInv == ASSUME IInv, NEW w \in Words, CopyWord(w) PROVE IInv'
<1> USE DEF IInv
<1>1. /\ elem' = [elem EXCEPT ![tgt] = [elem[tgt] EXCEPT ![w] = val[w]]]
      /\ w \in left
      /\ UNCHANGED <<live, others, tgt, mine, val, n3, stage, frame, ue, src, outer, seen, churn>>
  BY DEF CopyWord, pvars
<1>2. tgt \in Elems /\ tgt # live /\ tgt # NONE
  BY <1>1 DEF Shapes, UpdateOK
<1>3. elem' \in [Elems -> [Words -> Quad]] /\ \A e \in Elems \ {tgt} : elem'[e] = elem[e]
  BY <1>1, <1>2 DEF Shapes
<1>4. Shapes'
  BY <1>1, <1>3 DEF Shapes
<1>5. ASSUME NEW c \in CPUs PROVE PointerOK(c)' /\ HeaderOK(c)'
  <2>1. churn[c] \in 0..2
    BY DEF Shapes
  <2>2. PointerOK(c)'
    BY <1>1, <1>2, <1>3, <2>1 DEF PointerOK
  <2>3. HeaderOK(c)'
    BY <1>1 DEF HeaderOK
  <2> QED BY <2>2, <2>3
<1>6. UpdateOK'
  BY <1>1, <1>2 DEF UpdateOK
<1> QED BY <1>4, <1>5, <1>6

LEMMA LinkIInv == ASSUME IInv, Link PROVE IInv'
<1> USE DEF IInv
<1>1. /\ tgt # NONE /\ tgt' = NONE /\ left = {}
      /\ UNCHANGED <<elem, mine, val, left, n3, stage, frame, ue, src, outer, seen, churn>>
      /\ live' = tgt \/ live' = live
      /\ others' \subseteq others \cup {tgt}
  BY DEF Link, pvars
<1>2. Shapes' /\ UpdateOK'
  BY <1>1 DEF Shapes, UpdateOK
<1>3. ASSUME NEW c \in CPUs PROVE PointerOK(c)' /\ HeaderOK(c)'
  BY <1>1 DEF PointerOK, HeaderOK
<1> QED BY <1>2, <1>3

LEMMA ConfigIInv == ASSUME IInv, NEW a \in N3s, InstallUpfConfig(a) PROVE IInv'
<1> USE DEF IInv
<1>1. /\ n3' = a /\ a \in Quad
      /\ UNCHANGED <<elem, live, others, tgt, mine, val, left, stage, frame, ue, src, outer, seen, churn>>
  BY DownlinkAssumption DEF InstallUpfConfig, pvars
<1>2. Shapes' /\ UpdateOK'
  BY <1>1 DEF Shapes, UpdateOK
<1>3. ASSUME NEW c \in CPUs PROVE PointerOK(c)' /\ HeaderOK(c)'
  BY <1>1 DEF PointerOK, HeaderOK
<1> QED BY <1>2, <1>3

\* A packet of which nothing changes, while the maps do not change either.
LEMMA OthersIInv ==
    ASSUME IInv, UNCHANGED <<elem, live, tgt, left>>, NEW d \in CPUs,
           stage'[d] = stage[d], frame'[d] = frame[d], ue'[d] = ue[d], outer'[d] = outer[d],
           seen'[d] = seen[d], churn'[d] = churn[d]
    PROVE  PointerOK(d)' /\ HeaderOK(d)'
  BY DEF IInv, PointerOK, HeaderOK

LEMMA LookupIInv ==
    ASSUME IInv, NEW c \in CPUs, NEW f \in Frames, Lookup(c, f)
    PROVE  IInv'
<1>0. Shapes /\ UpdateOK
  BY DEF IInv
<1>1. /\ live # NONE /\ EgressPlain(f) /\ UNCHANGED <<elem, live, others, tgt, mine, val, left, n3, outer>>
      /\ ue' = [ue EXCEPT ![c] = live] /\ src' = [src EXCEPT ![c] = n3]
      /\ frame' = [frame EXCEPT ![c] = f] /\ seen' = [seen EXCEPT ![c] = elem[live]]
      /\ churn' = [churn EXCEPT ![c] = IF tgt = NONE THEN 0 ELSE 1]
      /\ stage' = [stage EXCEPT ![c] = "room"]
  BY DEF Lookup, Goto, kvars
<1>2. f \in Frame /\ f.len >= ETH
  <2>1. f \in Frame /\ f.len \in Nat
    BY DownlinkAssumption DEF Frame
  <2> QED BY <1>1, <2>1, PulledAssumption DEF EgressPlain, Linear, ETH, IP
<1>3. live \in Elems
  BY <1>0, <1>1 DEF Shapes
<1>4. Shapes'
  BY <1>0, <1>1, <1>2, <1>3 DEF Shapes
<1>5. UpdateOK'
  BY <1>0, <1>1 DEF UpdateOK
<1>6. PointerOK(c)' /\ HeaderOK(c)'
  BY <1>0, <1>1, <1>2, <1>3 DEF PointerOK, HeaderOK, Shapes
<1>7. ASSUME NEW d \in CPUs, d # c PROVE PointerOK(d)' /\ HeaderOK(d)'
  BY <1>0, <1>1, <1>7, OthersIInv DEF Shapes
<1> QED BY <1>4, <1>5, <1>6, <1>7 DEF IInv

LEMMA ForgetIInv == ASSUME IInv, NEW c \in CPUs, Forget(c) PROVE IInv'
<1>0. Shapes /\ UpdateOK
  BY DEF IInv
<1>1. /\ UNCHANGED <<elem, live, others, tgt, mine, val, left, n3>>
      /\ ue' = [ue EXCEPT ![c] = NONE] /\ src' = [src EXCEPT ![c] = Unspecified]
      /\ frame' = [frame EXCEPT ![c] = NoFrame] /\ seen' = [seen EXCEPT ![c] = Nothing]
      /\ churn' = [churn EXCEPT ![c] = 0] /\ outer' = [outer EXCEPT ![c] = NoOuter]
      /\ stage' = [stage EXCEPT ![c] = "idle"]
  BY DEF Forget, Goto, kvars
<1>2. Unspecified \in Quad
  BY DEF Unspecified, Quad, Byte
<1>3. Nothing \in [Words -> Quad]
  BY <1>2 DEF Nothing
<1>4. NoFrame \in Frame
  BY DEF NoFrame, Frame
<1>5. NoOuter = [ip |-> NoOuter.ip, udp |-> NoOuter.udp, gtp |-> NoOuter.gtp]
  BY DEF NoOuter
<1>6. Shapes'
  BY <1>0, <1>1, <1>2, <1>3, <1>4, <1>5 DEF Shapes
<1>7. UpdateOK'
  BY <1>0, <1>1 DEF UpdateOK
<1>8. PointerOK(c)' /\ HeaderOK(c)'
  BY <1>0, <1>1 DEF PointerOK, HeaderOK, Shapes
<1>9. ASSUME NEW d \in CPUs, d # c PROVE PointerOK(d)' /\ HeaderOK(d)'
  BY <1>0, <1>1, <1>9, OthersIInv DEF Shapes
<1> QED BY <1>6, <1>7, <1>8, <1>9 DEF IInv

LEMMA RoomIInv == ASSUME IInv, NEW c \in CPUs, AdjustRoom(c) PROVE IInv'
<1>0. Shapes /\ UpdateOK /\ PointerOK(c)
  BY DEF IInv
<1>1. /\ stage[c] = "room" /\ stage' = [stage EXCEPT ![c] = "ip"]
      /\ UNCHANGED <<elem, live, others, tgt, mine, val, left, n3, frame, ue, src, outer, seen, churn>>
  BY DEF AdjustRoom, Goto, kvars
<1>2. Shapes' /\ UpdateOK'
  BY <1>0, <1>1 DEF Shapes, UpdateOK
<1>3. PointerOK(c)' /\ HeaderOK(c)'
  BY <1>0, <1>1 DEF PointerOK, HeaderOK, Shapes
<1>4. ASSUME NEW d \in CPUs, d # c PROVE PointerOK(d)' /\ HeaderOK(d)'
  BY <1>0, <1>1, <1>4, OthersIInv DEF Shapes
<1> QED BY <1>2, <1>3, <1>4 DEF IInv

\* The gNB address is read through the pointer.
LEMMA WriteIpIInv == ASSUME IInv, NEW c \in CPUs, WriteIp(c) PROVE IInv'
<1>0. Shapes /\ UpdateOK /\ PointerOK(c)
  BY DEF IInv
<1> DEFINE ip == IpHeader(TotalLen(frame[c]), src[c], elem[ue[c]]["gnb_ipv4_be"])
           udp == BE16(2152) \o BE16(2152) \o BE16(TotalLen(frame[c]) - IP) \o <<0, 0>>
<1>1. /\ stage[c] = "ip" /\ stage' = [stage EXCEPT ![c] = "gtp"]
      /\ outer' = [outer EXCEPT ![c] = [ip |-> ip, udp |-> udp, gtp |-> <<>>]]
      /\ UNCHANGED <<elem, live, others, tgt, mine, val, left, n3, frame, ue, src, seen, churn>>
  BY DEF WriteIp, Goto, kvars
<1>2. /\ ue[c] \in Elems /\ frame[c] \in Frame /\ frame[c].len >= ETH
      /\ src[c] \in Quad /\ elem[ue[c]]["gnb_ipv4_be"] \in Quad
  BY <1>0, <1>1 DEF PointerOK, Shapes, Words
<1>3. SubSeq(ip, 17, 20) = elem[ue[c]]["gnb_ipv4_be"]
  BY <1>2, Lengths, Destination
<1> HIDE DEF ip, udp
<1>4. /\ outer'[c] = [ip |-> ip, udp |-> udp, gtp |-> <<>>]
      /\ outer' = [d \in CPUs |-> outer'[d]]
      /\ \A d \in CPUs \ {c} : outer'[d] = outer[d]
  BY <1>0, <1>1 DEF Shapes
<1>5. Shapes' /\ UpdateOK'
  BY <1>0, <1>1, <1>4 DEF Shapes, UpdateOK
<1>6. PointerOK(c)'
  BY <1>0, <1>1 DEF PointerOK, Shapes
<1>7. HeaderOK(c)'
  BY <1>0, <1>1, <1>3, <1>4 DEF PointerOK, HeaderOK, Shapes
<1>8. ASSUME NEW d \in CPUs, d # c PROVE PointerOK(d)' /\ HeaderOK(d)'
  BY <1>0, <1>1, <1>4, <1>8, OthersIInv DEF Shapes
<1> QED BY <1>5, <1>6, <1>7, <1>8 DEF IInv

\* The TEID is read through the pointer.
LEMMA WriteGtpIInv == ASSUME IInv, NEW c \in CPUs, WriteGtp(c) PROVE IInv'
<1>0. Shapes /\ UpdateOK /\ PointerOK(c) /\ HeaderOK(c)
  BY DEF IInv
<1> DEFINE gtp == <<48, 255>> \o BE16(TotalLen(frame[c]) - IP - UDP - GTP)
                    \o elem[ue[c]]["teid_be"]
<1>1. /\ stage[c] = "gtp" /\ stage' = [stage EXCEPT ![c] = "sent"]
      /\ outer' = [outer EXCEPT ![c].gtp = gtp]
      /\ UNCHANGED <<elem, live, others, tgt, mine, val, left, n3, frame, ue, src, seen, churn>>
  BY DEF WriteGtp, Goto, kvars
<1>2. /\ ue[c] \in Elems /\ frame[c] \in Frame /\ frame[c].len >= ETH
      /\ elem[ue[c]]["teid_be"] \in Quad
  BY <1>0, <1>1 DEF PointerOK, Shapes, Words
<1>3. SubSeq(gtp, 5, 8) = elem[ue[c]]["teid_be"]
  BY <1>2, Lengths, Tunnel
<1> HIDE DEF gtp
<1>4. /\ outer'[c] = [ip |-> outer[c].ip, udp |-> outer[c].udp, gtp |-> gtp]
      /\ outer' = [d \in CPUs |-> outer'[d]]
      /\ \A d \in CPUs \ {c} : outer'[d] = outer[d]
  <2> DEFINE old == outer[c]
             new == [old EXCEPT !.gtp = gtp]
  <2>1. outer = [d \in CPUs |-> outer[d]] /\ outer' = [outer EXCEPT ![c] = new]
    BY <1>0, <1>1 DEF Shapes
  <2>2. old = [ip |-> old.ip, udp |-> old.udp, gtp |-> old.gtp]
    BY <1>0 DEF Shapes
  <2> HIDE DEF old
  <2>3. new = [ip |-> old.ip, udp |-> old.udp, gtp |-> gtp]
    BY <2>2
  <2> HIDE DEF new
  <2>4. outer' = [d \in CPUs |-> IF d = c THEN new ELSE outer[d]]
    BY <2>1
  <2> QED BY <2>3, <2>4 DEF old
<1>5. Shapes' /\ UpdateOK'
  BY <1>0, <1>1, <1>4 DEF Shapes, UpdateOK
<1>6. PointerOK(c)'
  BY <1>0, <1>1 DEF PointerOK, Shapes
<1>7. HeaderOK(c)'
  BY <1>0, <1>1, <1>3, <1>4 DEF PointerOK, HeaderOK, Shapes
<1>8. ASSUME NEW d \in CPUs, d # c PROVE PointerOK(d)' /\ HeaderOK(d)'
  BY <1>0, <1>1, <1>4, <1>8, OthersIInv DEF Shapes
<1> QED BY <1>5, <1>6, <1>7, <1>8 DEF IInv

LEMMA StutterIInv == ASSUME IInv, UNCHANGED vars PROVE IInv'
<1>1. UNCHANGED <<elem, live, others, tgt, mine, val, left, n3, stage, frame, ue, src, outer, seen, churn>>
  BY DEF vars
<1>2. Shapes' /\ UpdateOK'
  BY <1>1 DEF IInv, Shapes, UpdateOK
<1>3. \A c \in CPUs : PointerOK(c)' /\ HeaderOK(c)'
  BY <1>1 DEF IInv, PointerOK, HeaderOK
<1> QED BY <1>2, <1>3 DEF IInv

\* Every step of the egress program, of install_dl_ue and of
\* install_upf_config keeps the invariant.
THEOREM Invariance == Spec => []IInv
<1>1. Init => IInv
  BY InitIInv
<1>2. IInv /\ [Next]_vars => IInv'
  <2> SUFFICES ASSUME IInv, [Next]_vars PROVE IInv'
    OBVIOUS
  <2>1. ASSUME NEW u \in Ues, NEW own \in BOOLEAN, InstallDlUe(u, own) PROVE IInv'
    BY <2>1, InstallIInv
  <2>2. ASSUME NEW w \in Words, CopyWord(w) PROVE IInv'
    BY <2>2, CopyIInv
  <2>3. CASE Link
    BY <2>3, LinkIInv
  <2>4. ASSUME NEW a \in N3s, InstallUpfConfig(a) PROVE IInv'
    BY <2>4, ConfigIInv
  <2>5. ASSUME NEW c \in CPUs, NEW f \in Frames, Lookup(c, f) PROVE IInv'
    BY <2>5, LookupIInv
  <2>6. ASSUME NEW c \in CPUs, NoRoom(c) \/ Return(c) PROVE IInv'
    BY <2>6, ForgetIInv DEF NoRoom, Return
  <2>7. ASSUME NEW c \in CPUs, AdjustRoom(c) PROVE IInv'
    BY <2>7, RoomIInv
  <2>8. ASSUME NEW c \in CPUs, WriteIp(c) PROVE IInv'
    BY <2>8, WriteIpIInv
  <2>9. ASSUME NEW c \in CPUs, WriteGtp(c) PROVE IInv'
    BY <2>9, WriteGtpIInv
  <2>10. CASE UNCHANGED vars
    BY <2>10, StutterIInv
  <2> QED BY <2>1, <2>2, <2>3, <2>4, <2>5, <2>6, <2>7, <2>8, <2>9, <2>10 DEF Next
<1> QED BY <1>1, <1>2, PTL DEF Spec

\* A packet leaves for the gNB address and the TEID its one lookup found, read
\* through the pointer in two steps, unless two updates of the map, of this UE
\* or of others, overlap it: for any number of CPUs, elements, tunnels and
\* frames.
THEOREM OneTunnel == Spec => []TunnelWhole
<1>1. IInv => TunnelWhole
  BY DEF IInv, HeaderOK, TunnelWhole, Sent
<1> QED BY <1>1, Invariance, PTL

-----------------------------------------------------------------------------
(* What a receiver finds.                                                  *)

\* Folding a sum of ten words twice is its remainder by 65535, with 65535 for 0.
\* The result of ip_checksum20 for the sum of the words.
Complement(sum) == 65535 - (Fold(Fold(sum)) % 65536)

LEMMA FoldTwice ==
    ASSUME NEW s \in Nat, s > 0, s =< 655350
    PROVE  /\ Fold(Fold(s)) \in Nat /\ Fold(Fold(s)) > 0 /\ Fold(Fold(s)) < 65536
           /\ s = 65535 * (s \div 65536 + Fold(s) \div 65536) + Fold(Fold(s))
           /\ s \div 65536 + Fold(s) \div 65536 \in Nat
           /\ s \div 65536 + Fold(s) \div 65536 =< 10
<1> DEFINE a == s \div 65536
           b == s % 65536
<1>1. a \in Nat /\ a =< 9 /\ b \in Nat /\ b < 65536 /\ s = 65536 * a + b
  BY SMT
<1>2. Fold(s) = a + b
  BY <1>1, SMT DEF Fold
<1> DEFINE c == (a + b) \div 65536
<1>3. c \in {0, 1} /\ Fold(a + b) = a + b - 65535 * c /\ Fold(a + b) > 0 /\ Fold(a + b) < 65536
  <2> HIDE DEF a, b
  <2>1. CASE a + b < 65536
    <3>1. c = 0 /\ (a + b) % 65536 = a + b /\ a + b > 0
      BY <1>1, <2>1, SMT
    <3> QED BY <1>1, <2>1, <3>1, SMT DEF Fold
  <2>2. CASE a + b >= 65536
    <3>1. c = 1 /\ (a + b) % 65536 = a + b - 65536
      BY <1>1, <2>2, SMT
    <3> QED BY <1>1, <2>2, <3>1, SMT DEF Fold
  <2> QED BY <1>1, <2>1, <2>2, SMT
<1> HIDE DEF c
<1>4. s = 65535 * (a + c) + Fold(a + b) /\ a + c \in Nat /\ a + c =< 10 /\ Fold(a + b) \in Nat
  <2> HIDE DEF a, b
  <2> QED BY <1>1, <1>3, SMT
<1> QED BY <1>2, <1>3, <1>4, SMT DEF c

\* The checksum of ip_checksum20, computed over words in the CPU's order and
\* stored in that order, is right for a receiver in network order.  ev and od
\* are the sums of the header's bytes at even and odd addresses.
LEMMA AnyOrder ==
    ASSUME NEW ev \in Nat, NEW od \in Nat, ev > 0, ev =< 2295, od =< 2295
    PROVE  LET check == Complement(ev + 256 * od)
           IN  /\ check \in Nat /\ check < 65536
               /\ Fold(Fold(256 * (ev + (check % 256)) + (od + (check \div 256)))) = 65535
<1> DEFINE check == Complement(ev + 256 * od)
<1>1. check = 65535 - (Fold(Fold(ev + 256 * od)) % 65536)
  BY SMT DEF Complement
<1> HIDE DEF check
<1> DEFINE s == ev + 256 * od
           r == Fold(Fold(s))
           q == s \div 65536 + Fold(s) \div 65536
<1>2. s \in Nat /\ s > 0 /\ s =< 655350
  BY SMT
<1>3. r \in Nat /\ r > 0 /\ r < 65536 /\ q \in Nat /\ q =< 10 /\ s = 65535 * q + r
  BY <1>1, <1>2, FoldTwice, SMT
<1> HIDE DEF q, r
<1>4. check \in Nat /\ check < 65535 /\ check = 65535 - r
  BY <1>1, <1>3, SMT DEF r
<1> DEFINE lo == check % 256
           hi == check \div 256
<1>5. lo \in Nat /\ lo < 256 /\ hi \in Nat /\ hi < 256 /\ check = 256 * hi + lo
  BY <1>4, SMT
<1> DEFINE b == 256 * (ev + lo) + (od + hi)
           k == 256 * (q + 1) - (od + hi)
<1>6. b = 256 * (ev + (check % 256)) + (od + (check \div 256))
  OBVIOUS
<1> HIDE DEF lo, hi
<1>7. b = 65535 * k
  BY <1>3, <1>4, <1>5, SMT
<1>8. b \in Nat /\ b > 0 /\ b =< 655350
  BY <1>5, SMT
<1>9. k \in Nat /\ k > 0 /\ k =< 10
  BY <1>3, <1>5, <1>7, <1>8, SMT
<1> HIDE DEF k, b
<1>10. Fold(65535 * k) = 65535
  <2>1. 65535 * k = 65536 * (k - 1) + (65536 - k)
    BY <1>9, SMT
  <2>2. (65535 * k) % 65536 = 65536 - k /\ (65535 * k) \div 65536 = k - 1
    BY <1>9, <2>1, SMT
  <2> QED BY <1>9, <2>2, SMT DEF Fold
<1>11. Fold(65535) = 65535
  BY SMT DEF Fold
<1>12. Fold(Fold(b)) = 65535
  BY <1>7, <1>10, <1>11, SMT
<1>13. check < 65536
  BY <1>4, SMT
<1> QED BY <1>4, <1>12, <1>6, <1>13, SMT DEF check

\* The outer IPv4 header with the two bytes of its length and of its checksum.
Hdr(p, r, s, d, a, b) ==
    <<69, 0>> \o <<p, r>> \o <<0, 0, 0, 0, 64, 17>> \o <<a, b>> \o s \o d

LEMMA HdrBytes ==
    ASSUME NEW p \in Byte, NEW r \in Byte, NEW s \in Quad, NEW d \in Quad,
           NEW a \in Byte, NEW b \in Byte
    PROVE  LET h == Hdr(p, r, s, d, a, b) IN
           /\ h \in Seq(Byte) /\ Len(h) = 20
           /\ h[1] = 69 /\ h[2] = 0 /\ h[3] = p /\ h[4] = r
           /\ h[5] = 0 /\ h[6] = 0 /\ h[7] = 0 /\ h[8] = 0 /\ h[9] = 64 /\ h[10] = 17
           /\ h[11] = a /\ h[12] = b
           /\ h[13] = s[1] /\ h[14] = s[2] /\ h[15] = s[3] /\ h[16] = s[4]
           /\ h[17] = d[1] /\ h[18] = d[2] /\ h[19] = d[3] /\ h[20] = d[4]
<1> DEFINE h == Hdr(p, r, s, d, a, b)
<1> DEFINE v == <<69, 0>>
           w == <<p, r>>
           x == <<0, 0, 0, 0, 64, 17>>
           y == <<a, b>>
           h1 == v \o w
           h2 == h1 \o x
           h3 == h2 \o y
           h4 == h3 \o s
<1>1. /\ v \in Seq(Byte) /\ Len(v) = 2 /\ v[1] = 69 /\ v[2] = 0
      /\ x \in Seq(Byte) /\ Len(x) = 6 /\ x[1] = 0 /\ x[2] = 0 /\ x[3] = 0 /\ x[4] = 0
      /\ x[5] = 64 /\ x[6] = 17
      /\ y \in Seq(Byte) /\ Len(y) = 2 /\ y[1] = a /\ y[2] = b
  BY DEF Byte
<1>2. w \in Seq(Byte) /\ Len(w) = 2 /\ w[1] = p /\ w[2] = r
  OBVIOUS
<1>3. s \in Seq(Byte) /\ Len(s) = 4 /\ d \in Seq(Byte) /\ Len(d) = 4
  BY DEF Quad
<1>4. h = h4 \o d
  BY Zenon DEF Hdr
<1> HIDE DEF h
<1>5. v \in Seq(Byte) /\ w \in Seq(Byte) /\ x \in Seq(Byte) /\ y \in Seq(Byte)
  BY <1>1, <1>2, SMT
<1> HIDE DEF v, w, x, y
<1>6. /\ h1 \in Seq(Byte) /\ Len(h1) = Len(v) + Len(w)
      /\ \A i \in 1..(Len(v) + Len(w)) :
           h1[i] = IF i =< Len(v) THEN v[i] ELSE w[i - Len(v)]
  BY <1>5, ConcatProperties, Zenon
<1>7. h1 \in Seq(Byte)
  BY <1>6
<1> HIDE DEF h1
<1>8. /\ Len(h1) = 4 /\ h1[1] = 69 /\ h1[2] = 0
      /\ h1[3] = p /\ h1[4] = r
  BY <1>1, <1>2, <1>6, SMT
<1>9. /\ h2 \in Seq(Byte) /\ Len(h2) = Len(h1) + Len(x)
      /\ \A i \in 1..(Len(h1) + Len(x)) :
           h2[i] = IF i =< Len(h1) THEN h1[i] ELSE x[i - Len(h1)]
  BY <1>5, <1>7, ConcatProperties, Zenon
<1>10. h2 \in Seq(Byte)
  BY <1>9
<1> HIDE DEF h2
<1>11. /\ Len(h2) = 10 /\ h2[1] = 69 /\ h2[2] = 0
      /\ h2[3] = p /\ h2[4] = r
      /\ h2[5] = 0 /\ h2[6] = 0 /\ h2[7] = 0 /\ h2[8] = 0 /\ h2[9] = 64 /\ h2[10] = 17
  BY <1>1, <1>8, <1>9, SMT
<1>12. /\ h3 \in Seq(Byte) /\ Len(h3) = Len(h2) + Len(y)
      /\ \A i \in 1..(Len(h2) + Len(y)) :
           h3[i] = IF i =< Len(h2) THEN h2[i] ELSE y[i - Len(h2)]
  BY <1>5, <1>10, ConcatProperties, Zenon
<1>13. h3 \in Seq(Byte)
  BY <1>12
<1> HIDE DEF h3
<1>14. Len(h3) = 12 /\ h3[11] = a /\ h3[12] = b /\ \A i \in 1..10 : h3[i] = h2[i]
  BY <1>1, <1>11, <1>12, SMT
<1>15. /\ h4 \in Seq(Byte) /\ Len(h4) = Len(h3) + Len(s)
      /\ \A i \in 1..(Len(h3) + Len(s)) :
           h4[i] = IF i =< Len(h3) THEN h3[i] ELSE s[i - Len(h3)]
  BY <1>3, <1>13, ConcatProperties, Zenon
<1>16. h4 \in Seq(Byte)
  BY <1>15
<1> HIDE DEF h4
<1>17. /\ Len(h4) = 16 /\ \A i \in 1..12 : h4[i] = h3[i]
       /\ h4[13] = s[1] /\ h4[14] = s[2] /\ h4[15] = s[3] /\ h4[16] = s[4]
  BY <1>3, <1>14, <1>15, SMT
<1>18. /\ h \in Seq(Byte) /\ Len(h) = Len(h4) + Len(d)
       /\ \A i \in 1..(Len(h4) + Len(d)) :
            h[i] = IF i =< Len(h4) THEN h4[i] ELSE d[i - Len(h4)]
  <2>1. d \in Seq(Byte)
    BY <1>3
  <2> DEFINE g == h4 \o d
  <2>2. /\ g \in Seq(Byte) /\ Len(g) = Len(h4) + Len(d)
        /\ \A i \in 1..(Len(h4) + Len(d)) :
             g[i] = IF i =< Len(h4) THEN h4[i] ELSE d[i - Len(h4)]
    BY <1>16, <2>1, ConcatProperties, Zenon
  <2> QED BY <1>4, <2>2, Zenon
<1>19. /\ Len(h) = 20 /\ \A i \in 1..16 : h[i] = h4[i]
       /\ h[17] = d[1] /\ h[18] = d[2] /\ h[19] = d[3] /\ h[20] = d[4]
  BY <1>3, <1>17, <1>18, SMT
<1>20. \A i \in 1..10 : h[i] = h2[i]
  BY <1>14, <1>17, <1>19, SMT
<1>21. h[11] = a /\ h[12] = b
  BY <1>14, <1>17, <1>19, SMT
<1>22. h[13] = s[1] /\ h[14] = s[2] /\ h[15] = s[3] /\ h[16] = s[4]
  BY <1>17, <1>19, SMT
<1>23. /\ h[1] = 69 /\ h[2] = 0 /\ h[3] = p /\ h[4] = r
       /\ h[5] = 0 /\ h[6] = 0 /\ h[7] = 0 /\ h[8] = 0 /\ h[9] = 64 /\ h[10] = 17
  BY <1>11, <1>20, SMT
<1>24. h \in Seq(Byte) /\ Len(h) = 20
  BY <1>18, <1>19
<1> QED BY <1>19, <1>21, <1>22, <1>23, <1>24, SMT DEF h

\* The sums of a header's words in either order.
LE(h) == Add10([k \in 1..10 |-> LittleEndian(h, 2 * k - 1)])
BE(h) == Add10([k \in 1..10 |-> BigEndian(h, 2 * k - 1)])

LEMMA QuadBytes ==
    ASSUME NEW s \in Quad
    PROVE  /\ s[1] \in Nat /\ s[1] =< 255 /\ s[2] \in Nat /\ s[2] =< 255
           /\ s[3] \in Nat /\ s[3] =< 255 /\ s[4] \in Nat /\ s[4] =< 255
<1>1. s \in Seq(Byte) /\ Len(s) = 4
  BY DEF Quad
<1>2. \A i \in 1..4 : s[i] \in Byte
  BY <1>1, ElementOfSeq
<1> QED BY <1>2 DEF Byte

\* What an outer IPv4 header for a packet of n bytes has to be.
IpOK(h, n) ==
    /\ h \in Seq(Byte) /\ h[1] = 69 /\ h[10] = 17
    /\ Fold(Fold(BE(h))) = 65535
    /\ n < 65536 => BigEndian(h, 3) = n

\* The first five words of a header, with their bytes in either order.
LEMMA FirstWords ==
    ASSUME NEW h, h[1] \in Nat, h[2] \in Nat, h[3] \in Nat, h[4] \in Nat, h[5] \in Nat,
           h[6] \in Nat, h[7] \in Nat, h[8] \in Nat, h[9] \in Nat, h[10] \in Nat
    PROVE  /\ LittleEndian(h, 1) + LittleEndian(h, 3) + LittleEndian(h, 5) + LittleEndian(h, 7)
                + LittleEndian(h, 9) = (h[1] + h[3] + h[5] + h[7] + h[9]) + 256 * (h[2] + h[4] + h[6] + h[8] + h[10])
           /\ BigEndian(h, 1) + BigEndian(h, 3) + BigEndian(h, 5) + BigEndian(h, 7)
                + BigEndian(h, 9) = 256 * (h[1] + h[3] + h[5] + h[7] + h[9]) + (h[2] + h[4] + h[6] + h[8] + h[10])
<1> DEFINE a == h[1]  f == h[2]
           b == h[3]  g == h[4]
           c == h[5]  i == h[6]
           d == h[7]  j == h[8]
           e == h[9]  k == h[10]
<1>1. /\ LittleEndian(h, 1) = a + 256 * f /\ BigEndian(h, 1) = 256 * a + f
      /\ LittleEndian(h, 3) = b + 256 * g /\ BigEndian(h, 3) = 256 * b + g
      /\ LittleEndian(h, 5) = c + 256 * i /\ BigEndian(h, 5) = 256 * c + i
      /\ LittleEndian(h, 7) = d + 256 * j /\ BigEndian(h, 7) = 256 * d + j
      /\ LittleEndian(h, 9) = e + 256 * k /\ BigEndian(h, 9) = 256 * e + k
  BY SMT DEF LittleEndian, BigEndian
<1>2. /\ a \in Nat /\ b \in Nat /\ c \in Nat /\ d \in Nat /\ e \in Nat
      /\ f \in Nat /\ g \in Nat /\ i \in Nat /\ j \in Nat /\ k \in Nat
  OBVIOUS
<1> HIDE DEF a, b, c, d, e, f, g, i, j, k
<1>3. /\ (a + 256 * f) + (b + 256 * g) + (c + 256 * i) + (d + 256 * j) + (e + 256 * k)
           = (a + b + c + d + e) + 256 * (f + g + i + j + k)
      /\ (256 * a + f) + (256 * b + g) + (256 * c + i) + (256 * d + j) + (256 * e + k)
           = 256 * (a + b + c + d + e) + (f + g + i + j + k)
  BY <1>2, SMT
<1>4. /\ LittleEndian(h, 1) + LittleEndian(h, 3) + LittleEndian(h, 5) + LittleEndian(h, 7)
           + LittleEndian(h, 9) = (a + b + c + d + e) + 256 * (f + g + i + j + k)
      /\ BigEndian(h, 1) + BigEndian(h, 3) + BigEndian(h, 5) + BigEndian(h, 7)
           + BigEndian(h, 9) = 256 * (a + b + c + d + e) + (f + g + i + j + k)
  BY <1>1, <1>3, Zenon
<1> QED BY <1>4, Zenon DEF a, b, c, d, e, f, g, i, j, k

\* The last five.
LEMMA LastWords ==
    ASSUME NEW h, h[11] \in Nat, h[12] \in Nat, h[13] \in Nat, h[14] \in Nat, h[15] \in Nat,
           h[16] \in Nat, h[17] \in Nat, h[18] \in Nat, h[19] \in Nat, h[20] \in Nat
    PROVE  /\ LittleEndian(h, 11) + LittleEndian(h, 13) + LittleEndian(h, 15) + LittleEndian(h, 17)
                + LittleEndian(h, 19) = (h[11] + h[13] + h[15] + h[17] + h[19]) + 256 * (h[12] + h[14] + h[16] + h[18] + h[20])
           /\ BigEndian(h, 11) + BigEndian(h, 13) + BigEndian(h, 15) + BigEndian(h, 17)
                + BigEndian(h, 19) = 256 * (h[11] + h[13] + h[15] + h[17] + h[19]) + (h[12] + h[14] + h[16] + h[18] + h[20])
<1> DEFINE a == h[11]  f == h[12]
           b == h[13]  g == h[14]
           c == h[15]  i == h[16]
           d == h[17]  j == h[18]
           e == h[19]  k == h[20]
<1>1. /\ LittleEndian(h, 11) = a + 256 * f /\ BigEndian(h, 11) = 256 * a + f
      /\ LittleEndian(h, 13) = b + 256 * g /\ BigEndian(h, 13) = 256 * b + g
      /\ LittleEndian(h, 15) = c + 256 * i /\ BigEndian(h, 15) = 256 * c + i
      /\ LittleEndian(h, 17) = d + 256 * j /\ BigEndian(h, 17) = 256 * d + j
      /\ LittleEndian(h, 19) = e + 256 * k /\ BigEndian(h, 19) = 256 * e + k
  BY SMT DEF LittleEndian, BigEndian
<1>2. /\ a \in Nat /\ b \in Nat /\ c \in Nat /\ d \in Nat /\ e \in Nat
      /\ f \in Nat /\ g \in Nat /\ i \in Nat /\ j \in Nat /\ k \in Nat
  OBVIOUS
<1> HIDE DEF a, b, c, d, e, f, g, i, j, k
<1>3. /\ (a + 256 * f) + (b + 256 * g) + (c + 256 * i) + (d + 256 * j) + (e + 256 * k)
           = (a + b + c + d + e) + 256 * (f + g + i + j + k)
      /\ (256 * a + f) + (256 * b + g) + (256 * c + i) + (256 * d + j) + (256 * e + k)
           = 256 * (a + b + c + d + e) + (f + g + i + j + k)
  BY <1>2, SMT
<1>4. /\ LittleEndian(h, 11) + LittleEndian(h, 13) + LittleEndian(h, 15) + LittleEndian(h, 17)
           + LittleEndian(h, 19) = (a + b + c + d + e) + 256 * (f + g + i + j + k)
      /\ BigEndian(h, 11) + BigEndian(h, 13) + BigEndian(h, 15) + BigEndian(h, 17)
           + BigEndian(h, 19) = 256 * (a + b + c + d + e) + (f + g + i + j + k)
  BY <1>1, <1>3, Zenon
<1> QED BY <1>4, Zenon DEF a, b, c, d, e, f, g, i, j, k

LEMMA Add10Bytes ==
    ASSUME NEW h, \A i \in 1..20 : h[i] \in Nat
    PROVE  LET ev == h[1] + h[3] + h[5] + h[7] + h[9] + h[11] + h[13] + h[15] + h[17] + h[19]
               od == h[2] + h[4] + h[6] + h[8] + h[10] + h[12] + h[14] + h[16] + h[18] + h[20]
           IN  /\ LE(h) = ev + 256 * od
               /\ BE(h) = 256 * ev + od
<1>1. LE(h)
           = LittleEndian(h, 1) + LittleEndian(h, 3) + LittleEndian(h, 5) + LittleEndian(h, 7)
             + LittleEndian(h, 9) + LittleEndian(h, 11) + LittleEndian(h, 13) + LittleEndian(h, 15)
             + LittleEndian(h, 17) + LittleEndian(h, 19)
  BY SMT DEF Add10, LE
<1>2. BE(h)
           = BigEndian(h, 1) + BigEndian(h, 3) + BigEndian(h, 5) + BigEndian(h, 7)
             + BigEndian(h, 9) + BigEndian(h, 11) + BigEndian(h, 13) + BigEndian(h, 15)
             + BigEndian(h, 17) + BigEndian(h, 19)
  BY SMT DEF Add10, BE
<1>3. /\ h[1] \in Nat /\ h[2] \in Nat /\ h[3] \in Nat /\ h[4] \in Nat /\ h[5] \in Nat
      /\ h[6] \in Nat /\ h[7] \in Nat /\ h[8] \in Nat /\ h[9] \in Nat /\ h[10] \in Nat
      /\ h[11] \in Nat /\ h[12] \in Nat /\ h[13] \in Nat /\ h[14] \in Nat /\ h[15] \in Nat
      /\ h[16] \in Nat /\ h[17] \in Nat /\ h[18] \in Nat /\ h[19] \in Nat /\ h[20] \in Nat
  BY SMT
<1> DEFINE e1 == h[1] + h[3] + h[5] + h[7] + h[9]
           o1 == h[2] + h[4] + h[6] + h[8] + h[10]
           e2 == h[11] + h[13] + h[15] + h[17] + h[19]
           o2 == h[12] + h[14] + h[16] + h[18] + h[20]
<1>4. /\ LittleEndian(h, 1) + LittleEndian(h, 3) + LittleEndian(h, 5) + LittleEndian(h, 7)
           + LittleEndian(h, 9) = e1 + 256 * o1
      /\ BigEndian(h, 1) + BigEndian(h, 3) + BigEndian(h, 5) + BigEndian(h, 7)
           + BigEndian(h, 9) = 256 * e1 + o1
  BY <1>3, FirstWords
<1>5. /\ LittleEndian(h, 11) + LittleEndian(h, 13) + LittleEndian(h, 15) + LittleEndian(h, 17)
           + LittleEndian(h, 19) = e2 + 256 * o2
      /\ BigEndian(h, 11) + BigEndian(h, 13) + BigEndian(h, 15) + BigEndian(h, 17)
           + BigEndian(h, 19) = 256 * e2 + o2
  BY <1>3, LastWords
<1>6. /\ LittleEndian(h, 1) \in Nat /\ LittleEndian(h, 3) \in Nat /\ LittleEndian(h, 5) \in Nat
      /\ LittleEndian(h, 7) \in Nat /\ LittleEndian(h, 9) \in Nat /\ LittleEndian(h, 11) \in Nat
      /\ LittleEndian(h, 13) \in Nat /\ LittleEndian(h, 15) \in Nat /\ LittleEndian(h, 17) \in Nat
      /\ LittleEndian(h, 19) \in Nat
      /\ BigEndian(h, 1) \in Nat /\ BigEndian(h, 3) \in Nat /\ BigEndian(h, 5) \in Nat
      /\ BigEndian(h, 7) \in Nat /\ BigEndian(h, 9) \in Nat /\ BigEndian(h, 11) \in Nat
      /\ BigEndian(h, 13) \in Nat /\ BigEndian(h, 15) \in Nat /\ BigEndian(h, 17) \in Nat
      /\ BigEndian(h, 19) \in Nat
  BY <1>3, SMT DEF LittleEndian, BigEndian
<1>7. /\ e1 \in Nat /\ o1 \in Nat /\ e2 \in Nat /\ o2 \in Nat
      /\ h[1] + h[3] + h[5] + h[7] + h[9] + h[11] + h[13] + h[15] + h[17] + h[19] = e1 + e2
      /\ h[2] + h[4] + h[6] + h[8] + h[10] + h[12] + h[14] + h[16] + h[18] + h[20] = o1 + o2
  BY <1>3, SMT
<1> HIDE DEF e1, o1, e2, o2
<1>8. LE(h) = (e1 + e2) + 256 * (o1 + o2)
  BY <1>1, <1>4, <1>5, <1>6, <1>7, SMT
<1>9. BE(h) = 256 * (e1 + e2) + (o1 + o2)
  BY <1>2, <1>4, <1>5, <1>6, <1>7, SMT
<1> QED BY <1>7, <1>8, <1>9, SMT

\* The two sums of a header, from those of its bytes.
LEMMA HdrSums ==
    ASSUME NEW p \in Byte, NEW r \in Byte, NEW s \in Quad, NEW d \in Quad,
           NEW a \in Byte, NEW b \in Byte
    PROVE  LET h == Hdr(p, r, s, d, a, b)
               ev == 133 + p + s[1] + s[3] + d[1] + d[3]
               od == 17 + r + s[2] + s[4] + d[2] + d[4]
           IN  /\ h \in Seq(Byte) /\ h[1] = 69 /\ h[10] = 17 /\ BigEndian(h, 3) = 256 * p + r
               /\ ev \in Nat /\ ev > 0 /\ ev =< 2295 /\ od \in Nat /\ od =< 2295
               /\ LE(h) = (ev + a) + 256 * (od + b)
               /\ BE(h) = 256 * (ev + a) + (od + b)
<1> DEFINE h == Hdr(p, r, s, d, a, b)
<1>1. /\ h \in Seq(Byte) /\ Len(h) = 20
      /\ h[1] = 69 /\ h[2] = 0 /\ h[3] = p /\ h[4] = r
      /\ h[5] = 0 /\ h[6] = 0 /\ h[7] = 0 /\ h[8] = 0 /\ h[9] = 64 /\ h[10] = 17
      /\ h[11] = a /\ h[12] = b
      /\ h[13] = s[1] /\ h[14] = s[2] /\ h[15] = s[3] /\ h[16] = s[4]
      /\ h[17] = d[1] /\ h[18] = d[2] /\ h[19] = d[3] /\ h[20] = d[4]
  BY HdrBytes, SMT
<1> HIDE DEF h
<1>2. /\ s[1] \in Nat /\ s[1] =< 255 /\ s[2] \in Nat /\ s[2] =< 255
      /\ s[3] \in Nat /\ s[3] =< 255 /\ s[4] \in Nat /\ s[4] =< 255
      /\ d[1] \in Nat /\ d[1] =< 255 /\ d[2] \in Nat /\ d[2] =< 255
      /\ d[3] \in Nat /\ d[3] =< 255 /\ d[4] \in Nat /\ d[4] =< 255
  BY QuadBytes
<1>3. /\ p \in Nat /\ p =< 255 /\ r \in Nat /\ r =< 255
      /\ a \in Nat /\ a =< 255 /\ b \in Nat /\ b =< 255
  BY DEF Byte
<1>4. \A i \in 1..20 : h[i] \in Nat
  <2>1. \A i \in 1..20 : h[i] \in Byte
    BY <1>1, ElementOfSeq
  <2>2. Byte \subseteq Nat
    BY DEF Byte
  <2> QED BY <2>1, <2>2
<1>5. /\ LE(h) = (h[1] + h[3] + h[5] + h[7] + h[9] + h[11] + h[13] + h[15] + h[17] + h[19])
           + 256 * (h[2] + h[4] + h[6] + h[8] + h[10] + h[12] + h[14] + h[16] + h[18] + h[20])
      /\ BE(h) = 256 * (h[1] + h[3] + h[5] + h[7] + h[9] + h[11] + h[13] + h[15] + h[17] + h[19])
           + (h[2] + h[4] + h[6] + h[8] + h[10] + h[12] + h[14] + h[16] + h[18] + h[20])
  BY <1>4, Add10Bytes
<1> DEFINE ev == 133 + p + s[1] + s[3] + d[1] + d[3]
           od == 17 + r + s[2] + s[4] + d[2] + d[4]
<1>6. ev \in Nat /\ ev > 0 /\ ev =< 2295 /\ od \in Nat /\ od =< 2295
  BY <1>2, <1>3, SMT
<1>7. /\ h[1] + h[3] + h[5] + h[7] + h[9] + h[11] + h[13] + h[15] + h[17] + h[19] = ev + a
      /\ h[2] + h[4] + h[6] + h[8] + h[10] + h[12] + h[14] + h[16] + h[18] + h[20] = od + b
  <2>1. h[1] + h[3] + h[5] + h[7] + h[9] + h[11] + h[13] + h[15] + h[17] + h[19]
          = 69 + p + 0 + 0 + 64 + a + s[1] + s[3] + d[1] + d[3]
    BY <1>1, SMT
  <2>2. h[2] + h[4] + h[6] + h[8] + h[10] + h[12] + h[14] + h[16] + h[18] + h[20]
          = 0 + r + 0 + 0 + 17 + b + s[2] + s[4] + d[2] + d[4]
    BY <1>1, SMT
  <2>3. /\ 69 + p + 0 + 0 + 64 + a + s[1] + s[3] + d[1] + d[3] = ev + a
        /\ 0 + r + 0 + 0 + 17 + b + s[2] + s[4] + d[2] + d[4] = od + b
    BY <1>2, <1>3, SMT
  <2> QED BY <2>1, <2>2, <2>3
<1>8. BigEndian(h, 3) = 256 * p + r
  BY <1>1, SMT DEF BigEndian
<1> HIDE DEF ev, od
<1>9. /\ LE(h) = (ev + a) + 256 * (od + b)
      /\ BE(h) = 256 * (ev + a) + (od + b)
  BY <1>5, <1>7, SMT
<1> QED BY <1>1, <1>6, <1>8, <1>9, SMT DEF h, ev, od

LEMMA HeaderIsValid ==
    ASSUME NEW n \in Nat, NEW s \in Quad, NEW d \in Quad
    PROVE  IpOK(IpHeader(n, s, d), n)
<1> DEFINE p == (n % 65536) \div 256
           r == n % 256
           z == Hdr(p, r, s, d, 0, 0)
           c == Checksum20(z)
           a == c % 256
           b == c \div 256
           h == Hdr(p, r, s, d, a, b)
           ev == 133 + p + s[1] + s[3] + d[1] + d[3]
           od == 17 + r + s[2] + s[4] + d[2] + d[4]
<1>1. IpHeader(n, s, d) = h
  BY SMT DEF IpHeader, Stored16, BE16, Hdr
<1>2. p \in Byte /\ r \in Byte /\ 0 \in Byte /\ (n < 65536 => 256 * p + r = n)
  BY SMT DEF Byte
<1> HIDE DEF p, r
<1>3. /\ ev \in Nat /\ ev > 0 /\ ev =< 2295 /\ od \in Nat /\ od =< 2295
      /\ LE(z) = (ev + 0) + 256 * (od + 0)
  BY <1>2, HdrSums, SMT
<1> HIDE DEF ev, od, z
<1>4. c = Complement(ev + 256 * od)
  <2>1. (ev + 0) + 256 * (od + 0) = ev + 256 * od
    BY <1>3, SMT
  <2> QED BY <1>3, <2>1, SMT DEF Checksum20, Complement, LE
<1> HIDE DEF c
<1>5. /\ c \in Nat /\ c < 65536
      /\ Fold(Fold(256 * (ev + a) + (od + b))) = 65535
  BY <1>3, <1>4, AnyOrder, SMT
<1>6. a \in Byte /\ b \in Byte
  BY <1>5, SMT DEF Byte
<1> HIDE DEF a, b
<1>7. /\ h \in Seq(Byte) /\ h[1] = 69 /\ h[10] = 17 /\ BigEndian(h, 3) = 256 * p + r
      /\ BE(h) = 256 * (ev + a) + (od + b)
  BY <1>2, <1>6, HdrSums, SMT DEF ev, od
<1> HIDE DEF h
<1> QED BY <1>1, <1>2, <1>5, <1>7, SMT DEF IpOK

UdpOK(u, n) ==
    /\ u \in Seq(Byte) /\ BigEndian(u, 3) = 2152
    /\ n < 65536 => BigEndian(u, 5) = n - IP
GtpOK(g, n) ==
    /\ g \in Seq(Byte) /\ g[2] = 255
    /\ n < 65536 => BigEndian(g, 3) = n - IP - UDP - GTP

LEMMA Length16 ==
    ASSUME NEW n \in Nat
    PROVE  \E p \in Byte, r \in Byte : BE16(n) = <<p, r>> /\ (n < 65536 => 256 * p + r = n)
<1> DEFINE p == (n % 65536) \div 256
           r == n % 256
<1>1. p \in Byte /\ r \in Byte /\ (n < 65536 => 256 * p + r = n)
  BY SMT DEF Byte
<1>2. BE16(n) = <<p, r>>
  BY SMT DEF BE16
<1> HIDE DEF p, r
<1> QED BY <1>1, <1>2, SMT

LEMMA UdpIsValid ==
    ASSUME NEW n \in Nat, n - IP \in Nat
    PROVE  UdpOK(BE16(2152) \o BE16(2152) \o BE16(n - IP) \o <<0, 0>>, n)
<1>1. PICK p \in Byte, r \in Byte :
        BE16(n - IP) = <<p, r>> /\ (n - IP < 65536 => 256 * p + r = n - IP)
  BY Length16, SMT
<1> DEFINE x == BE16(2152)
           y == BE16(n - IP)
           z == <<0, 0>>
           w == x \o x \o y \o z
<1>2. x = <<8, 104>> /\ y = <<p, r>> /\ z = <<0, 0>>
  BY <1>1, SMT DEF BE16
<1> DEFINE u == <<8, 104>> \o <<8, 104>> \o <<p, r>> \o <<0, 0>>
<1>3. u \in Seq(Byte) /\ u[3] = 8 /\ u[4] = 104 /\ u[5] = p /\ u[6] = r
  BY DEF Byte
<1> HIDE DEF x, y, z
<1>4. w = u
  BY <1>2, Zenon
<1> HIDE DEF u, w
<1>5. BigEndian(u, 3) = 2152 /\ BigEndian(u, 5) = 256 * p + r
  BY <1>3, SMT DEF BigEndian
<1>6. n < 65536 => n - IP < 65536
  BY SMT DEF IP
<1>7. UdpOK(u, n)
  BY <1>1, <1>3, <1>5, <1>6, SMT DEF UdpOK
<1>8. UdpOK(w, n)
  BY <1>4, <1>7
<1> QED BY <1>8, SMT DEF w, x, y, z

LEMMA GtpIsValid ==
    ASSUME NEW n \in Nat, NEW m \in Nat, m = n - IP - UDP - GTP, NEW t \in Quad
    PROVE  GtpOK(<<48, 255>> \o BE16(m) \o t, n)
<1>1. PICK p \in Byte, r \in Byte : BE16(m) = <<p, r>> /\ (m < 65536 => 256 * p + r = m)
  BY Length16, SMT
<1> DEFINE v == <<48, 255>> \o <<p, r>>
           g == v \o t
<1>2. v \in Seq(Byte) /\ Len(v) = 4 /\ v[2] = 255 /\ v[3] = p /\ v[4] = r
  BY DEF Byte
<1>3. t \in Seq(Byte) /\ Len(t) = 4
  BY DEF Quad
<1>4. <<48, 255>> \o BE16(m) \o t = g
  <2>1. BE16(m) = <<p, r>>
    BY <1>1, SMT
  <2> QED BY <2>1, Zenon
<1>5. v \in Seq(Byte) /\ t \in Seq(Byte)
  BY <1>2, <1>3
<1> HIDE DEF v
<1>6. /\ g \in Seq(Byte)
      /\ \A i \in 1..(Len(v) + Len(t)) : g[i] = IF i =< Len(v) THEN v[i] ELSE t[i - Len(v)]
  BY <1>5, ConcatProperties, Zenon
<1> HIDE DEF g
<1>7. g[2] = 255 /\ g[3] = p /\ g[4] = r
  BY <1>2, <1>3, <1>6, SMT
<1>8. BigEndian(g, 3) = 256 * p + r
  BY <1>7, SMT DEF BigEndian
<1>9. n < 65536 => m < 65536
  BY SMT DEF IP, UDP, GTP
<1>10. GtpOK(g, n)
  BY <1>1, <1>6, <1>7, <1>8, <1>9, SMT DEF GtpOK
<1> QED BY <1>4, <1>10, Zenon

\* The frame the program took, and the headers it has written so far.
WireOK(c) ==
    /\ stage[c] # "idle" => EgressPlain(frame[c])
    /\ stage[c] \in {"gtp", "sent"} =>
         IpOK(outer[c].ip, TotalLen(frame[c])) /\ UdpOK(outer[c].udp, TotalLen(frame[c]))
    /\ stage[c] = "sent" => GtpOK(outer[c].gtp, TotalLen(frame[c]))

Bytes == [ip : Seq(Byte), udp : Seq(Byte), gtp : Seq(Byte)]

WInv == left \subseteq Words /\ outer \in [CPUs -> Bytes] /\ \A c \in CPUs : WireOK(c)

LEMMA InitWInv == Init => WInv
<1> SUFFICES ASSUME Init PROVE WInv
  OBVIOUS
<1>1. NoOuter \in Bytes
  BY DEF NoOuter, Bytes
<1> QED BY <1>1 DEF Init, WInv, WireOK

\* The control plane does not touch the packets.
LEMMA ControlWInv ==
    ASSUME WInv, UNCHANGED <<stage, frame, outer>>, left' \subseteq Words
    PROVE  WInv'
<1>1. \A c \in CPUs : WireOK(c)'
  BY DEF WInv, WireOK
<1> QED BY <1>1 DEF WInv

LEMMA OthersWInv ==
    ASSUME WInv, NEW d \in CPUs, stage'[d] = stage[d], frame'[d] = frame[d], outer'[d] = outer[d]
    PROVE  WireOK(d)'
  BY DEF WInv, WireOK

LEMMA PacketWInv ==
    ASSUME IInv, WInv, NEW c \in CPUs,
           (\E f \in Frames : Lookup(c, f)) \/ Forget(c) \/ AdjustRoom(c)
    PROVE  WInv'
<1>0. /\ stage \in [CPUs -> {"idle", "room", "ip", "gtp", "sent"}]
      /\ frame \in [CPUs -> Frame] /\ outer \in [CPUs -> Bytes] /\ WireOK(c)
  BY DEF IInv, Shapes, WInv
<1>1. left' = left
  BY DEF Lookup, Forget, AdjustRoom, kvars
<1> DEFINE Others == \A d \in CPUs \ {c} :
             stage'[d] = stage[d] /\ frame'[d] = frame[d] /\ outer'[d] = outer[d]
<1>2. Others /\ outer' \in [CPUs -> Bytes] /\ WireOK(c)'
  <2>1. ASSUME NEW f \in Frames, Lookup(c, f)
        PROVE  Others /\ outer' \in [CPUs -> Bytes] /\ WireOK(c)'
    <3>1. /\ stage' = [stage EXCEPT ![c] = "room"] /\ frame' = [frame EXCEPT ![c] = f]
          /\ EgressPlain(f) /\ outer' = outer
      BY <2>1 DEF Lookup, Goto
    <3>2. stage'[c] = "room" /\ frame'[c] = f
      BY <1>0, <3>1
    <3> QED BY <1>0, <3>1, <3>2 DEF WireOK
  <2>2. ASSUME Forget(c)
        PROVE  Others /\ outer' \in [CPUs -> Bytes] /\ WireOK(c)'
    <3>1. /\ stage' = [stage EXCEPT ![c] = "idle"] /\ frame' = [frame EXCEPT ![c] = NoFrame]
          /\ outer' = [outer EXCEPT ![c] = NoOuter]
      BY <2>2 DEF Forget, Goto
    <3>2. NoOuter \in Bytes
      BY DEF NoOuter, Bytes
    <3>3. stage'[c] = "idle"
      BY <1>0, <3>1
    <3> QED BY <1>0, <3>1, <3>2, <3>3 DEF WireOK
  <2>3. ASSUME AdjustRoom(c)
        PROVE  Others /\ outer' \in [CPUs -> Bytes] /\ WireOK(c)'
    <3>1. /\ stage[c] = "room" /\ stage' = [stage EXCEPT ![c] = "ip"]
          /\ frame' = frame /\ outer' = outer
      BY <2>3 DEF AdjustRoom, Goto
    <3>2. stage'[c] = "ip"
      BY <1>0, <3>1
    <3> QED BY <1>0, <3>1, <3>2 DEF WireOK
  <2> QED BY <2>1, <2>2, <2>3
<1>3. \A d \in CPUs : WireOK(d)'
  BY <1>2, OthersWInv
<1> QED BY <1>1, <1>2, <1>3 DEF WInv

LEMMA WriteIpWInv == ASSUME IInv, WInv, NEW c \in CPUs, WriteIp(c) PROVE WInv'
<1>0. /\ stage \in [CPUs -> {"idle", "room", "ip", "gtp", "sent"}]
      /\ outer \in [CPUs -> Bytes] /\ WireOK(c) /\ PointerOK(c)
  BY DEF IInv, Shapes, WInv
<1> DEFINE n == TotalLen(frame[c])
           ip == IpHeader(n, src[c], elem[ue[c]]["gnb_ipv4_be"])
           udp == BE16(2152) \o BE16(2152) \o BE16(n - IP) \o <<0, 0>>
           new == [ip |-> ip, udp |-> udp, gtp |-> <<>>]
<1>1. /\ stage[c] = "ip" /\ stage' = [stage EXCEPT ![c] = "gtp"]
      /\ outer' = [outer EXCEPT ![c] = new] /\ left' = left /\ frame' = frame
  BY DEF WriteIp, Goto, kvars
<1>2. /\ ue[c] \in Elems /\ frame[c] \in Frame /\ frame[c].len >= ETH
      /\ src[c] \in Quad /\ elem[ue[c]]["gnb_ipv4_be"] \in Quad
  BY <1>0, <1>1 DEF IInv, PointerOK, Shapes, Words
<1>3. n \in Nat /\ n - IP \in Nat
  <2>1. frame[c].len \in Nat
    BY <1>2 DEF Frame
  <2> QED BY <1>2, <2>1 DEF TotalLen, AddLen, ETH, IP, UDP, GTP
<1> HIDE DEF n
<1>4. IpOK(ip, n) /\ UdpOK(udp, n)
  BY <1>2, <1>3, HeaderIsValid, UdpIsValid
<1> HIDE DEF ip, udp
<1>5. new \in Bytes
  <2>1. ip \in Seq(Byte) /\ udp \in Seq(Byte) /\ <<>> \in Seq(Byte)
    BY <1>4, SMT DEF IpOK, UdpOK
  <2> QED BY <2>1 DEF Bytes
<1>6. new.ip = ip /\ new.udp = udp
  OBVIOUS
<1> HIDE DEF new
<1>7. outer'[c] = new /\ stage'[c] = "gtp" /\ outer' \in [CPUs -> Bytes]
  BY <1>0, <1>1, <1>5
<1>8. WireOK(c)'
  BY <1>0, <1>1, <1>4, <1>6, <1>7 DEF WireOK, n
<1>9. ASSUME NEW d \in CPUs, d # c PROVE WireOK(d)'
  BY <1>0, <1>1, <1>9, OthersWInv
<1> QED BY <1>1, <1>7, <1>8, <1>9 DEF WInv

LEMMA WriteGtpWInv == ASSUME IInv, WInv, NEW c \in CPUs, WriteGtp(c) PROVE WInv'
<1>0. /\ stage \in [CPUs -> {"idle", "room", "ip", "gtp", "sent"}]
      /\ outer \in [CPUs -> Bytes] /\ WireOK(c) /\ PointerOK(c)
  BY DEF IInv, Shapes, WInv
<1> DEFINE n == TotalLen(frame[c])
           m == n - IP - UDP - GTP
           gtp == <<48, 255>> \o BE16(m) \o elem[ue[c]]["teid_be"]
           old == outer[c]
           new == [old EXCEPT !.gtp = gtp]
<1>1. /\ stage[c] = "gtp" /\ stage' = [stage EXCEPT ![c] = "sent"]
      /\ outer' = [outer EXCEPT ![c] = new] /\ left' = left /\ frame' = frame
  BY <1>0 DEF WriteGtp, Goto, kvars
<1>2. /\ ue[c] \in Elems /\ frame[c] \in Frame /\ frame[c].len >= ETH
      /\ elem[ue[c]]["teid_be"] \in Quad
  BY <1>0, <1>1 DEF IInv, PointerOK, Shapes, Words
<1>3. n \in Nat /\ m \in Nat
  BY <1>2, Lengths
<1> HIDE DEF n
<1>4. GtpOK(gtp, n)
  BY <1>2, <1>3, GtpIsValid
<1>5. gtp \in Seq(Byte)
  BY <1>4, SMT DEF GtpOK
<1> HIDE DEF gtp, m
<1>6. new \in Bytes /\ new.ip = old.ip /\ new.udp = old.udp /\ new.gtp = gtp
  BY <1>0, <1>5 DEF Bytes
<1> HIDE DEF new
<1>7. outer'[c] = new /\ stage'[c] = "sent" /\ outer' \in [CPUs -> Bytes]
  BY <1>0, <1>1, <1>6
<1>8. WireOK(c)'
  BY <1>0, <1>1, <1>4, <1>6, <1>7 DEF WireOK, n
<1>9. ASSUME NEW d \in CPUs, d # c PROVE WireOK(d)'
  BY <1>0, <1>1, <1>9, OthersWInv
<1> QED BY <1>1, <1>7, <1>8, <1>9 DEF WInv

\* The headers the egress program has written are well formed in every
\* behaviour.
THEOREM WireInvariance == Spec => []WInv
<1>1. Init => WInv
  BY InitWInv
<1>2. IInv /\ WInv /\ [Next]_vars => WInv'
  <2> SUFFICES ASSUME IInv, WInv, [Next]_vars PROVE WInv'
    OBVIOUS
  <2>1. ASSUME \/ \E u \in Ues, own \in BOOLEAN : InstallDlUe(u, own)
               \/ \E w \in Words : CopyWord(w)
               \/ Link
               \/ \E a \in N3s : InstallUpfConfig(a)
        PROVE  WInv'
    <3>1. UNCHANGED <<stage, frame, outer>>
      BY <2>1 DEF InstallDlUe, CopyWord, Link, InstallUpfConfig, pvars
    <3>2. left' \subseteq Words
      BY <2>1 DEF WInv, InstallDlUe, CopyWord, Link, InstallUpfConfig
    <3> QED BY <3>1, <3>2, ControlWInv
  <2>2. ASSUME NEW c \in CPUs, \/ \E f \in Frames : Lookup(c, f)
                               \/ NoRoom(c) \/ AdjustRoom(c) \/ Return(c)
        PROVE  WInv'
    BY <2>2, PacketWInv DEF NoRoom, Return
  <2>3. ASSUME NEW c \in CPUs, WriteIp(c) \/ WriteGtp(c) PROVE WInv'
    BY <2>3, WriteIpWInv, WriteGtpWInv
  <2>4. CASE UNCHANGED vars
    <3>1. UNCHANGED <<stage, frame, outer, left>>
      BY <2>4 DEF vars
    <3> QED BY <3>1, ControlWInv DEF WInv
  <2> QED BY <2>1, <2>2, <2>3, <2>4 DEF Next
<1> QED BY <1>1, <1>2, Invariance, PTL DEF Spec

\* Elements, packets and headers keep their types: the headers are bytes,
\* whatever the addresses, TEIDs and lengths they are made from.
THEOREM TypeCorrect == Spec => []TypeOK
<1>1. IInv /\ WInv => TypeOK
  BY DEF IInv, WInv, Shapes, UpdateOK, TypeOK, Bytes
<1> QED BY <1>1, Invariance, WireInvariance, PTL

\* For every pair of addresses and every length the checksum that
\* ip_checksum20 folds over words in the CPU's byte order is one a receiver
\* accepts, and the three lengths are right while 16 bits hold them.
THEOREM ChecksumAccepted == Spec => []HeaderValid
<1>1. IInv /\ WInv => HeaderValid
  <2> SUFFICES ASSUME IInv, WInv, NEW c \in CPUs, Sent(c)
               PROVE  /\ Fold(Fold(Add10([k \in 1..10 |-> BigEndian(outer[c].ip, 2 * k - 1)]))) = 65535
                      /\ TotalLen(frame[c]) < 65536 =>
                           /\ BigEndian(outer[c].ip, 3) = TotalLen(frame[c])
                           /\ BigEndian(outer[c].udp, 5) = TotalLen(frame[c]) - IP
                           /\ BigEndian(outer[c].gtp, 3) = frame[c].len - ETH
    BY SMT DEF HeaderValid
  <2>1. /\ IpOK(outer[c].ip, TotalLen(frame[c])) /\ UdpOK(outer[c].udp, TotalLen(frame[c]))
        /\ GtpOK(outer[c].gtp, TotalLen(frame[c]))
    BY DEF WInv, WireOK, Sent
  <2>2. TotalLen(frame[c]) - IP - UDP - GTP = frame[c].len - ETH
    <3>1. frame[c].len \in Nat
      BY DEF IInv, Shapes, Frame
    <3> QED BY <3>1 DEF TotalLen, AddLen, ETH, IP, UDP, GTP
  <2>3. /\ Fold(Fold(Add10([k \in 1..10 |-> BigEndian(outer[c].ip, 2 * k - 1)]))) = 65535
        /\ TotalLen(frame[c]) < 65536 => BigEndian(outer[c].ip, 3) = TotalLen(frame[c])
    <3> DEFINE h == outer[c].ip
               n == TotalLen(frame[c])
    <3>1. IpOK(h, n)
      BY <2>1, SMT
    <3> HIDE DEF h, n
    <3>2. Fold(Fold(BE(h))) = 65535 /\ (n < 65536 => BigEndian(h, 3) = n)
      BY <3>1, SMT DEF IpOK
    <3> QED BY <3>2, SMT DEF h, n, BE
  <2>4. TotalLen(frame[c]) < 65536 => BigEndian(outer[c].udp, 5) = TotalLen(frame[c]) - IP
    BY <2>1, SMT DEF UdpOK
  <2>5. TotalLen(frame[c]) < 65536 => BigEndian(outer[c].gtp, 3) = frame[c].len - ETH
    BY <2>1, <2>2, SMT DEF GtpOK
  <2> QED BY <2>3, <2>4, <2>5, SMT
<1> QED BY <1>1, Invariance, WireInvariance, PTL

\* The egress program encapsulates only what is not GTP-U yet; what it sends,
\* the XDP and the TC program take for a G-PDU whose stripping gives the packet
\* back, and it would not encapsulate it again.
THEOREM Recognised == Spec => []TunnelRecognised
<1>1. IInv /\ WInv => TunnelRecognised
  <2> SUFFICES ASSUME IInv, WInv, NEW c \in CPUs, Sent(c)
               PROVE  /\ XdpParse(frame[c]) \in {"drop", "pass", "nongtp"}
                      /\ XdpParse(Received(c)) = "gpdu" /\ TcGpdu(Received(c))
                      /\ Received(c).len - OuterLen(Received(c)) = frame[c].len
                      /\ ~EgressPlain(Received(c))
    BY DEF TunnelRecognised
  <2> DEFINE f == frame[c]
             g == Received(c)
  <2>1. EgressPlain(f) /\ f \in Frame
    BY DEF WInv, WireOK, Sent, IInv, Shapes
  <2>2. f.len \in Nat /\ f.ihl \in 0..15 /\ f.len >= 34 /\ f.ip4
    <3>1. f.len \in Nat /\ f.ihl \in 0..15
      BY <2>1 DEF Frame
    <3> QED BY <2>1, <3>1, PulledAssumption DEF EgressPlain, Linear, ETH, IP
  <2>3. XdpParse(f) \in {"drop", "pass", "nongtp"}
    <3> HIDE DEF f
    <3>1. CASE ~f.udp
      BY <2>2, <3>1 DEF XdpParse, ETH, IP
    <3>2. CASE f.udp
      <4>1. ~(Linear(f) >= L4(f) + UDP /\ f.port)
        BY <2>1, <3>2 DEF EgressPlain
      <4>2. f.len >= L4(f) + UDP => Linear(f) >= L4(f) + UDP
        BY <2>2, PulledAssumption DEF Linear, L4, ETH, UDP
      <4>3. f.len < L4(f) + UDP \/ ~f.port
        BY <2>2, <4>1, <4>2 DEF L4, ETH, UDP
      <4>4. XdpParse(f) = IF 4 * f.ihl < IP \/ f.len < L4(f) + UDP THEN "drop"
                          ELSE IF ~f.port THEN "nongtp"
                          ELSE IF f.len < L4(f) + UDP + GTP THEN "short"
                          ELSE IF f.gpdu THEN "gpdu" ELSE "ctrl"
        BY <2>2, <3>2 DEF XdpParse, ETH, IP
      <4> QED BY <4>3, <4>4
    <3> QED BY <3>1, <3>2
  <2>4. /\ g.len = f.len + 36 /\ g.ip4 = TRUE /\ g.udp = TRUE /\ g.ihl = 5
        /\ g.port = TRUE /\ g.gpdu = TRUE
    <3>1. /\ IpOK(outer[c].ip, TotalLen(frame[c])) /\ UdpOK(outer[c].udp, TotalLen(frame[c]))
          /\ GtpOK(outer[c].gtp, TotalLen(frame[c]))
      BY DEF WInv, WireOK, Sent
    <3>2. /\ outer[c].ip[10] = 17 /\ outer[c].ip[1] % 16 = 5
          /\ BigEndian(outer[c].udp, 3) = 2152 /\ outer[c].gtp[2] = 255
      BY <3>1, SMT DEF IpOK, UdpOK, GtpOK
    <3>3. AddLen = 36
      BY DEF AddLen, IP, UDP, GTP
    <3> DEFINE udp == outer[c].ip[10] = 17
               port == BigEndian(outer[c].udp, 3) = 2152
               gpdu == outer[c].gtp[2] = 255
    <3>4. g = [len |-> f.len + AddLen, ip4 |-> TRUE, udp |-> udp, ihl |-> outer[c].ip[1] % 16,
               port |-> port, gpdu |-> gpdu]
      BY SMT DEF Received
    <3>5. udp = TRUE /\ port = TRUE /\ gpdu = TRUE
      BY <3>2, SMT
    <3> HIDE DEF f, g, udp, port, gpdu
    <3>6. g = [len |-> f.len + 36, ip4 |-> TRUE, udp |-> TRUE, ihl |-> 5, port |-> TRUE,
               gpdu |-> TRUE]
      <4>1. outer[c].ip[1] % 16 = 5
        BY <3>2, SMT
      <4> QED BY <3>3, <3>4, <3>5, <4>1, Zenon
    <3> QED BY <3>6
  <2> HIDE DEF f, g
  <2>5. L4(g) = 34 /\ g.len \in Nat /\ g.len >= 70 /\ Linear(g) >= 50 /\ Linear(g) \in Nat
    BY <2>2, <2>4, PulledAssumption DEF L4, Linear, ETH
  <2>6. XdpParse(g) = "gpdu" /\ TcGpdu(g) /\ ~EgressPlain(g)
    <3>1. XdpParse(g) = "gpdu"
      BY <2>4, <2>5 DEF XdpParse, ETH, IP, UDP, GTP
    <3>2. TcGpdu(g)
      BY <2>4, <2>5 DEF TcGpdu, ETH, IP, UDP, GTP
    <3>3. ~EgressPlain(g)
      BY <2>4, <2>5 DEF EgressPlain, ETH, IP, UDP
    <3> QED BY <3>1, <3>2, <3>3
  <2>7. g.len - OuterLen(g) = f.len
    BY <2>2, <2>4 DEF OuterLen, UDP, GTP
  <2> QED BY <2>3, <2>6, <2>7 DEF f, g
<1> QED BY <1>1, Invariance, WireInvariance, PTL
=============================================================================
