------------------------------ MODULE Downlink ------------------------------
(***************************************************************************)
(* Downlink encapsulation.  upf_tc_egress of bpf/upf_tc_egress.c looks a   *)
(* packet's destination up in dl_ue_map, makes room, and writes the outer  *)
(* IPv4, UDP and GTP-U headers, reading the gNB address and then the TEID  *)
(* through the pointer of that one lookup.  install_dl_ue and              *)
(* install_upf_config of loader/agent.py change both maps meanwhile.       *)
(*                                                                         *)
(* Packets go to one UE, whose entry is modelled with the elements of the  *)
(* whole map.  dl_ue_map is a preallocated hash map: an update of any UE   *)
(* copies the value word by word into an element that is not linked and    *)
(* links it; the one it replaces may be refilled, for the same UE or for   *)
(* another, while a packet reads it.                                       *)
(***************************************************************************)
EXTENDS Headers, Sequences

CONSTANTS
    CPUs,
    Elems,    \* preallocated elements of the map
    Ues,      \* what install_dl_ue is called with: [teid |-> number, gnb |-> address]
    N3s,      \* what install_upf_config is called with
    Frames,   \* frames about to leave N3
    NONE

Byte == 0..255
Quad == {q \in Seq(Byte) : Len(q) = 4}

ASSUME DownlinkAssumption ==
    /\ Ues \subseteq [teid : Nat, gnb : Quad]
    /\ N3s \subseteq Quad
    /\ Frames \subseteq Frame
    /\ NONE \notin Elems \cup Quad

VARIABLES
    elem,   \* memory of each element: two words of struct dl_ue_val
    live,   \* the element linked under the UE's address, or NONE
    others, \* the elements linked under the addresses of other UEs
    tgt,    \* the element an update fills, or NONE
    mine,   \* whether that update is of the UE's entry
    val,    \* the value it writes
    left,   \* the words it has still to copy
    n3,     \* upf_config_map[0]
    stage,  \* where each CPU's program is
    frame,  \* the frame it encapsulates
    ue,     \* its pointer
    src,    \* n3_addr_be
    outer,  \* the headers written so far
    seen,   \* history: the entry at the lookup
    churn   \* history: updates of any UE overlapping the packet, up to 2

kvars == <<elem, live, others, tgt, mine, val, left, n3>>
pvars == <<stage, frame, ue, src, outer, seen, churn>>
vars == <<elem, live, others, tgt, mine, val, left, n3,
          stage, frame, ue, src, outer, seen, churn>>

Words == {"teid_be", "gnb_ipv4_be"}
Unspecified == <<0, 0, 0, 0>>
NoFrame == [len |-> 0, ip4 |-> FALSE, udp |-> FALSE, ihl |-> 0, port |-> FALSE, gpdu |-> FALSE]
NoOuter == [ip |-> <<>>, udp |-> <<>>, gtp |-> <<>>]

TypeOK ==
    /\ elem \in [Elems -> [Words -> Quad]]
    /\ live \in Elems \cup {NONE} /\ others \subseteq Elems
    /\ tgt \in Elems \cup {NONE} /\ mine \in BOOLEAN
    /\ val \in [Words -> Quad] /\ left \subseteq Words
    /\ n3 \in Quad
    /\ stage \in [CPUs -> {"idle", "room", "ip", "gtp", "sent"}]
    /\ frame \in [CPUs -> Frame]
    /\ ue \in [CPUs -> Elems \cup {NONE}] /\ src \in [CPUs -> Quad]
    /\ outer \in [CPUs -> [ip : Seq(Byte), udp : Seq(Byte), gtp : Seq(Byte)]]
    /\ seen \in [CPUs -> [Words -> Quad]] /\ churn \in [CPUs -> 0..2]

Nothing == [w \in Words |-> Unspecified]

Init ==
    /\ elem = [e \in Elems |-> Nothing]
    /\ live = NONE /\ others = {} /\ tgt = NONE /\ mine = FALSE /\ val = Nothing /\ left = {}
    /\ n3 = Unspecified
    /\ stage = [c \in CPUs |-> "idle"] /\ frame = [c \in CPUs |-> NoFrame]
    /\ ue = [c \in CPUs |-> NONE] /\ src = [c \in CPUs |-> Unspecified]
    /\ outer = [c \in CPUs |-> NoOuter]
    /\ seen = [c \in CPUs |-> Nothing] /\ churn = [c \in CPUs |-> 0]

-----------------------------------------------------------------------------
(* Bytes.                                                                  *)

\* MUTANT of BE16: the length is not cut to 16 bits.
BE16Wide(n) == <<n \div 256, n % 256>>

\* bpf_htons((__u16)n), and struct.pack(">I", n).
BE16(n) == <<(n % 65536) \div 256, n % 256>>
BE32(n) == BE16(n \div 65536) \o BE16(n)

BigEndian(b, k) == 256 * b[k] + b[k + 1]
LittleEndian(b, k) == b[k] + 256 * b[k + 1]

Fold(sum) == (sum % 65536) + (sum \div 65536)

\* The ten 16-bit words of a header, added up: the unrolled loop.
Add10(w) == w[1] + w[2] + w[3] + w[4] + w[5] + w[6] + w[7] + w[8] + w[9] + w[10]

\* MUTANT of Checksum20: one fold is not enough.
Checksum20OneFold(h) ==
    65535 - (Fold(Add10([k \in 1..10 |-> LittleEndian(h, 2 * k - 1)])) % 65536)

\* ip_checksum20: the words are loaded, and the result stored, as the CPU
\* orders bytes.
Checksum20(h) ==
    65535 - (Fold(Fold(Add10([k \in 1..10 |-> LittleEndian(h, 2 * k - 1)]))) % 65536)

Stored16(n) == <<n % 256, n \div 256>>

IpHeader(total, saddr, daddr) ==
    LET With(check) == <<69, 0>> \o BE16(total) \o <<0, 0, 0, 0, 64, 17>> \o check
                         \o saddr \o daddr
    IN  With(Stored16(Checksum20(With(<<0, 0>>))))

-----------------------------------------------------------------------------
(* The control plane.                                                      *)

Churned == [c \in CPUs |-> IF ue[c] # NONE /\ churn[c] < 2 THEN churn[c] + 1 ELSE churn[c]]

\* MUTANT of Free: the value is overwritten in place, as in an array map.
FreeInPlace == IF live = NONE THEN Elems ELSE {live}

\* The map's elements that no UE's entry is linked to; packets may still
\* read some of them.
Free == Elems \ (others \cup {live})

\* install_dl_ue for the UE or another, its map_update inside the kernel.
InstallDlUe(u, own) ==
    /\ tgt = NONE
    /\ tgt' \in Free
    /\ mine' = own
    /\ val' = [w \in Words |-> IF w = "teid_be" THEN BE32(u.teid) ELSE u.gnb]
    /\ left' = Words
    /\ churn' = Churned
    /\ UNCHANGED <<elem, live, others, n3, stage, frame, ue, src, outer, seen>>

CopyWord(w) ==
    /\ w \in left
    /\ elem' = [elem EXCEPT ![tgt][w] = val[w]]
    /\ left' = left \ {w}
    /\ UNCHANGED <<live, others, tgt, mine, val, n3, pvars>>

\* The element takes the place of the old one of its entry, if there was one.
Link ==
    /\ tgt # NONE /\ left = {}
    /\ \/ mine /\ live' = tgt /\ UNCHANGED others
       \/ /\ ~mine /\ UNCHANGED live
          /\ \E old \in others \cup {NONE} : others' = (others \ {old}) \cup {tgt}
    /\ tgt' = NONE
    /\ UNCHANGED <<elem, mine, val, left, n3, pvars>>

InstallUpfConfig(a) ==
    /\ n3' = a
    /\ UNCHANGED <<elem, live, others, tgt, mine, val, left, pvars>>

-----------------------------------------------------------------------------
(* upf_tc_egress.                                                          *)

Goto(c, st) == stage' = [stage EXCEPT ![c] = st]

\* A frame the parser leaves alone, and one whose destination has no entry,
\* change nothing (Datapath counts them).
Lookup(c, f) ==
    /\ stage[c] = "idle"
    /\ EgressPlain(f)
    /\ live # NONE
    /\ ue' = [ue EXCEPT ![c] = live]
    /\ src' = [src EXCEPT ![c] = n3]
    /\ frame' = [frame EXCEPT ![c] = f]
    /\ seen' = [seen EXCEPT ![c] = elem[live]]
    /\ churn' = [churn EXCEPT ![c] = IF tgt = NONE THEN 0 ELSE 1]
    /\ Goto(c, "room")
    /\ UNCHANGED <<kvars, outer>>

Forget(c) ==
    /\ Goto(c, "idle")
    /\ frame' = [frame EXCEPT ![c] = NoFrame]
    /\ ue' = [ue EXCEPT ![c] = NONE] /\ src' = [src EXCEPT ![c] = Unspecified]
    /\ outer' = [outer EXCEPT ![c] = NoOuter]
    /\ seen' = [seen EXCEPT ![c] = Nothing] /\ churn' = [churn EXCEPT ![c] = 0]
    /\ UNCHANGED kvars

\* bpf_skb_adjust_room fails and the packet is dropped ...
NoRoom(c) == stage[c] = "room" /\ Forget(c)

\* ... or it adds AddLen bytes.
AdjustRoom(c) ==
    /\ stage[c] = "room"
    /\ Goto(c, "ip")
    /\ UNCHANGED <<kvars, frame, ue, src, outer, seen, churn>>

\* skb->len after adjust_room, less the Ethernet header.
TotalLen(f) == f.len + AddLen - ETH

\* The IP header, with the gNB address read through the pointer, and UDP.
WriteIp(c) ==
    LET total == TotalLen(frame[c])
    IN  /\ stage[c] = "ip"
        /\ outer' = [outer EXCEPT ![c] =
             [ip |-> IpHeader(total, src[c], elem[ue[c]]["gnb_ipv4_be"]),
              udp |-> BE16(2152) \o BE16(2152) \o BE16(total - IP) \o <<0, 0>>,
              gtp |-> <<>>]]
        /\ Goto(c, "gtp")
        /\ UNCHANGED <<kvars, frame, ue, src, seen, churn>>

\* The GTP-U header, with the TEID.
WriteGtp(c) ==
    /\ stage[c] = "gtp"
    /\ outer' = [outer EXCEPT
         ![c].gtp = <<48, 255>> \o BE16(TotalLen(frame[c]) - IP - UDP - GTP)
                      \o elem[ue[c]]["teid_be"]]
    /\ Goto(c, "sent")
    /\ UNCHANGED <<kvars, frame, ue, src, seen, churn>>

Return(c) == stage[c] = "sent" /\ Forget(c)

-----------------------------------------------------------------------------
Next ==
    \/ \E u \in Ues, own \in BOOLEAN : InstallDlUe(u, own)
    \/ \E w \in Words : CopyWord(w)
    \/ Link
    \/ \E a \in N3s : InstallUpfConfig(a)
    \/ \E c \in CPUs : \/ \E f \in Frames : Lookup(c, f)
                       \/ NoRoom(c) \/ AdjustRoom(c) \/ WriteIp(c) \/ WriteGtp(c) \/ Return(c)

Spec == Init /\ [][Next]_vars

-----------------------------------------------------------------------------
Sent(c) == stage[c] = "sent"

\* The frame a receiver makes of the bytes written.
Received(c) ==
    [len |-> frame[c].len + AddLen, ip4 |-> TRUE,
     udp |-> outer[c].ip[10] = 17, ihl |-> outer[c].ip[1] % 16,
     port |-> BigEndian(outer[c].udp, 3) = 2152, gpdu |-> outer[c].gtp[2] = 255]

\* A packet goes to the tunnel of its lookup, gNB address and TEID together,
\* unless two updates of dl_ue_map overlap it: one that replaces the UE's entry
\* and one, of this UE or of any other, that fills the element it gave up.
TunnelWhole ==
    \A c \in CPUs :
        Sent(c) /\ churn[c] < 2 =>
            /\ SubSeq(outer[c].ip, 17, 20) = seen[c]["gnb_ipv4_be"]
            /\ SubSeq(outer[c].gtp, 5, 8) = seen[c]["teid_be"]

\* A receiver, which adds up big-endian words, accepts the checksum that was
\* computed over little-endian ones, whatever carries the addresses cause;
\* and the three nested lengths agree with the packet, as far as 16 bits can
\* say it.
HeaderValid ==
    \A c \in CPUs :
        Sent(c) =>
            /\ Fold(Fold(Add10([k \in 1..10 |-> BigEndian(outer[c].ip, 2 * k - 1)]))) = 65535
            /\ TotalLen(frame[c]) < 65536 =>
                 /\ BigEndian(outer[c].ip, 3) = TotalLen(frame[c])
                 /\ BigEndian(outer[c].udp, 5) = TotalLen(frame[c]) - IP
                 /\ BigEndian(outer[c].gtp, 3) = frame[c].len - ETH

\* What the egress program sends, both uplink programs recognise as a G-PDU
\* and strip to the packet it was; the egress program itself would leave it
\* alone, and has not encapsulated GTP-U.
TunnelRecognised ==
    \A c \in CPUs :
        Sent(c) =>
            /\ XdpParse(frame[c]) \in {"drop", "pass", "nongtp"}
            /\ XdpParse(Received(c)) = "gpdu" /\ TcGpdu(Received(c))
            /\ Received(c).len - OuterLen(Received(c)) = frame[c].len
            /\ ~EgressPlain(Received(c))
=============================================================================
