----------------------------- MODULE GenlClient -----------------------------
(***************************************************************************)
(* The netlink clients of the gtp5g baseline: gtp5g_link_add.py creates    *)
(* the device, gtp5g_genl.py resolves the generic-netlink family and sends *)
(* one ADD_FAR or ADD_PDR.  Each runs as a process of its own, the kernel  *)
(* answers within the send, and a socket delivers one queued message per   *)
(* recv, oldest first.                                                     *)
(*                                                                         *)
(* Messages are byte sequences as far as their attributes are concerned:   *)
(* header (length, type), payload, padding.  Payload values are abstract   *)
(* (a byte is 1); what the kernel does with a request is left open.        *)
(***************************************************************************)
EXTENDS Naturals, Sequences, SequencesExt

CONSTANTS
    Errnos,   \* errors the kernel may answer with, 0 is success
    FwdOpts,  \* which of o_teid and peer_ipv4 a caller of add_far may give
    PdrOpts,  \* optional arguments a caller of add_pdr may give
    NONE

ASSUME GenlAssumption ==
    /\ Errnos \subseteq Nat \ {0} /\ Errnos # {}
    /\ FwdOpts \subseteq {"o_teid", "peer_ipv4"}
    /\ PdrOpts \subseteq {"outer_header_removal", "ue_addr_ipv4", "i_teid",
                          "gtpu_addr_ipv4", "src_intf"}
    /\ NONE \notin Nat

VARIABLES
    family,   \* id the kernel gave to the family, NONE while gtp5g.ko is not loaded
    link,     \* does the device exist?
    pc,       \* what gtp5g_genl.py does next
    queue,    \* messages waiting in its socket
    fam,      \* GenlSocket.family_id
    report,   \* what it printed or raised last
    answer,   \* history: the kernel's answer to GETFAMILY
    verdict,  \* history: the kernel's answer to its last command
    meant,    \* history: attributes the last command was to carry
    got,      \* history: attributes the kernel found in it
    lpc,      \* what gtp5g_link_add.py does next
    lqueue,   \* messages waiting in its netlink socket
    lreport,  \* what it printed or raised last
    lverdict, \* history: the kernel's answer to it
    lgot      \* history: attributes the kernel found in its request

kvars == <<family, link>>
gvars == <<pc, queue, fam, report, answer, verdict, meant, got>>
lvars == <<lpc, lqueue, lreport, lverdict, lgot>>
vars == <<family, link, pc, queue, fam, report, answer, verdict, meant, got,
          lpc, lqueue, lreport, lverdict, lgot>>

FamilyId == 30   \* any id above GENL_ID_CTRL
CTRL_ATTR_FAMILY_ID == 1
CTRL_ATTR_FAMILY_NAME == 2

-----------------------------------------------------------------------------
(* Attributes.                                                             *)

Bytes(n) == [b \in 1..n |-> 1]

\* MUTANT of Pad: attributes are not aligned.
PadNone(n) == 0

Pad(n) == (4 - (n % 4)) % 4

\* nla; nla_nested is nla of the concatenation.  u8, u16, u32 and be32 differ
\* in the number of bytes only.
Nla(type, payload) ==
    LET length == 4 + Len(payload)
    IN  <<length % 256, length \div 256, type, 0>> \o payload \o [b \in 1..Pad(length) |-> 0]
NlaU8(type) == Nla(type, Bytes(1))
NlaU16(type) == Nla(type, Bytes(2))
NlaU32(type) == Nla(type, Bytes(4))

\* The kernel's walk over attributes (nla_for_each_attr): type and payload
\* of each one between the first and the last byte of a buffer.
KernelAttrs(buf) ==
    LET walk[off \in Nat] ==
          LET len == buf[off + 1] + 256 * buf[off + 2]
          IN  IF off + 4 > Len(buf) THEN {}
              ELSE IF len < 4 \/ off + len > Len(buf) THEN {}
              ELSE {<<buf[off + 3], SubSeq(buf, off + 5, off + len)>>}
                   \cup walk[off + len + ((4 - (len % 4)) % 4)]
    IN  walk[0]

\* The types it finds, with those of nested attributes under their parent's:
\* nest says which types are containers below a path.
Found(buf, nest) ==
    LET level1 == {<<<<a[1]>>, a[2]>> : a \in KernelAttrs(buf)}
        Down(level) == UNION {{<<Append(x[1], a[1]), a[2]>> : a \in KernelAttrs(x[2])} :
                              x \in {y \in level : y[1] \in nest}}
    IN  {x[1] : x \in level1 \cup Down(level1) \cup Down(Down(level1))}

\* MUTANT of NextAttr: the padding of an attribute is not skipped.
NextAttrUnpadded(off, len) == off + len

NextAttr(off, len) == off + len + Pad(len)

\* The loop of resolve_family over the attributes of a reply.  An attribute
\* found at a wrong offset has no meaning; one cut short raises an exception
\* (unpack_from) and gives no id either.
FamilyIn(buf) ==
    LET loop[off \in Nat] ==
          LET len == buf[off + 1] + 256 * buf[off + 2]
              rest == loop[NextAttr(off, len)]
          IN  IF off >= Len(buf) THEN NONE
              ELSE IF off + 4 > Len(buf) \/ len < 4 THEN NONE
              ELSE IF buf[off + 3] = CTRL_ATTR_FAMILY_ID /\ rest = NONE THEN buf[off + 5]
              ELSE rest
    IN  loop[0]

\* What the controller answers to GETFAMILY: name, id, version, header size.
FamilyReply ==
    Nla(CTRL_ATTR_FAMILY_NAME, Bytes(6)) \o Nla(CTRL_ATTR_FAMILY_ID, <<family, 0>>)
      \o NlaU32(3) \o NlaU32(4)

-----------------------------------------------------------------------------
(* Requests.                                                               *)

When(cond, s) == IF cond THEN s ELSE <<>>

\* add_far; the forwarding parameters need FORW and both optional arguments.
FarAttrs(forw, given) ==
    LET ohc == NlaU16(1) \o NlaU32(2) \o NlaU32(3) \o NlaU16(4)
    IN  NlaU32(1) \o NlaU32(3) \o NlaU16(4)
          \o When(forw /\ given = {"o_teid", "peer_ipv4"}, Nla(5, Nla(1, ohc)))

FarMeant(forw, given) ==
    {<<1>>, <<3>>, <<4>>} \cup
    (IF forw /\ given = {"o_teid", "peer_ipv4"}
     THEN {<<5>>, <<5, 1>>} \cup {<<5, 1, a>> : a \in 1..4} ELSE {})

\* add_pdr with its optional arguments.
PdrAttrs(given) ==
    LET fteid == When("i_teid" \in given, NlaU32(1))
                   \o When("gtpu_addr_ipv4" \in given, NlaU32(2))
        pdi == When("ue_addr_ipv4" \in given, NlaU32(1))
                 \o When(given \cap {"i_teid", "gtpu_addr_ipv4"} # {}, Nla(2, fteid))
                 \o When("src_intf" \in given, NlaU8(4))
    IN  NlaU32(1) \o NlaU16(3) \o NlaU32(4)
          \o When("outer_header_removal" \in given, NlaU8(6))
          \o When(pdi # <<>>, Nla(5, pdi)) \o NlaU32(7)

PdrMeant(given) ==
    LET opt(name, path) == IF name \in given THEN ToSet(path) ELSE {}
    IN  {<<1>>, <<3>>, <<4>>, <<7>>} \cup
        opt("outer_header_removal", <<<<6>>>>) \cup
        opt("ue_addr_ipv4", <<<<5>>, <<5, 1>>>>) \cup
        opt("i_teid", <<<<5>>, <<5, 2>>, <<5, 2, 1>>>>) \cup
        opt("gtpu_addr_ipv4", <<<<5>>, <<5, 2>>, <<5, 2, 2>>>>) \cup
        opt("src_intf", <<<<5>>, <<5, 4>>>>)

\* create_gtp5g_link: the interface name, and the kind (a string of 6 bytes)
\* with the socket and the hash size nested in the link information.
LinkAttrs ==
    LET info == Nla(1, Bytes(6)) \o Nla(2, NlaU32(1) \o NlaU32(2))
    IN  Nla(3, Bytes(11)) \o Nla(18, info)

LinkMeant == {<<3>>, <<18>>, <<18, 1>>, <<18, 2>>, <<18, 2, 1>>, <<18, 2, 2>>}

Nest(cmd) == IF cmd = "ADD_FAR" THEN {<<5>>, <<5, 1>>} ELSE {<<5>>, <<5, 2>>}

-----------------------------------------------------------------------------
Reports == {"none", "added", "refused", "notfound", "unknown step"}

TypeOK ==
    /\ family \in {FamilyId, NONE} /\ link \in BOOLEAN
    /\ pc \in {"idle", "start", "resolve", "command", "wait", "close"}
    /\ Len(queue) =< 2
    /\ \A m \in ToSet(queue) : m.errno \in Errnos \cup {0} /\ m.type \in {"reply", "error"}
    /\ fam \in {FamilyId, NONE} /\ report \in Reports
    /\ answer \in Errnos \cup {0, NONE} /\ verdict \in Errnos \cup {0, NONE}
    /\ lpc \in {"idle", "wait"} /\ Len(lqueue) =< 1
    /\ lreport \in {"none", "created", "refused"} /\ lverdict \in Errnos \cup {0, NONE}

Init ==
    /\ family = NONE /\ link = FALSE
    /\ pc = "idle" /\ queue = <<>> /\ fam = NONE /\ report = "none"
    /\ answer = NONE /\ verdict = NONE /\ meant = {} /\ got = {}
    /\ lpc = "idle" /\ lqueue = <<>> /\ lreport = "none" /\ lverdict = NONE
    /\ lgot = {}

\* insmod and rmmod, the latter once the device is gone; ip link del.
Environment ==
    /\ \/ family' = (IF family = NONE THEN FamilyId ELSE NONE) /\ ~link /\ UNCHANGED link
       \/ link /\ link' = FALSE /\ UNCHANGED family
    /\ UNCHANGED <<gvars, lvars>>

Message(type, errno, attrs) == [type |-> type, errno |-> errno, attrs |-> attrs]

\* MUTANT of Ack: success is not acknowledged (no NLM_F_ACK in the request).
AckErrorsOnly(errno) == IF errno = 0 THEN <<>> ELSE <<Message("error", errno, <<>>)>>

\* NLM_F_ACK: the kernel ends its answer with an error message, errno 0 too.
Ack(errno) == <<Message("error", errno, <<>>)>>

-----------------------------------------------------------------------------
(* gtp5g_genl.py                                                           *)

\* A new process: if_nametoindex finds the device, the socket is opened.
GenlStart ==
    /\ pc = "idle" /\ link
    /\ pc' = "start" /\ queue' = <<>> /\ fam' = NONE /\ report' = "none"
    /\ answer' = NONE /\ verdict' = NONE /\ meant' = {} /\ got' = {}
    /\ UNCHANGED <<kvars, lvars>>

\* resolve_family sends GETFAMILY with NLM_F_ACK.
Resolve ==
    /\ pc = "start"
    /\ \/ /\ family # NONE /\ answer' = 0
          /\ queue' = queue \o <<Message("reply", 0, FamilyReply)>> \o Ack(0)
       \/ /\ family = NONE /\ answer' \in Errnos
          /\ queue' = queue \o Ack(answer')
    /\ pc' = "resolve"
    /\ UNCHANGED <<kvars, lvars, fam, report, verdict, meant, got>>

\* MUTANT of Recv: the message stays in the socket (MSG_PEEK).
RecvPeek == queue # <<>> /\ UNCHANGED queue

\* One recv of _send_recv: the oldest message, whatever request it answers.
Recv == queue # <<>> /\ queue' = Tail(queue)

Ends(what) == report' = what /\ pc' = "close"

\* ... and reads the id out of the answer.
Resolved ==
    LET m == Head(queue)
        id == FamilyIn(m.attrs)
    IN  /\ pc = "resolve" /\ Recv
        /\ \/ m.type = "error" /\ Ends("refused") /\ UNCHANGED fam
           \/ m.type = "reply" /\ id = NONE /\ Ends("notfound") /\ UNCHANGED fam
           \/ m.type = "reply" /\ id # NONE /\ pc' = "command" /\ fam' = id
              /\ UNCHANGED report
        /\ UNCHANGED <<kvars, lvars, answer, verdict, meant, got>>

\* cmd sends a request; without its device the kernel refuses it, else it
\* may accept it or not.
Command(cmd, attrs, intent) ==
    /\ pc = "command"
    /\ meant' = intent
    /\ got' = Found(attrs, Nest(cmd))
    /\ verdict' \in Errnos \cup (IF link /\ fam = family THEN {0} ELSE {})
    /\ queue' = queue \o Ack(verdict')
    /\ pc' = "wait"
    /\ UNCHANGED <<kvars, lvars, fam, report, answer>>

AddFar ==
    \E forw \in BOOLEAN, given \in SUBSET FwdOpts :
        Command("ADD_FAR", FarAttrs(forw, given), FarMeant(forw, given))

AddPdr ==
    \E given \in SUBSET PdrOpts : Command("ADD_PDR", PdrAttrs(given), PdrMeant(given))

UnknownStep ==
    /\ pc = "command" /\ Ends("unknown step")
    /\ UNCHANGED <<kvars, lvars, queue, fam, answer, verdict, meant, got>>

\* MUTANT of Refused: the test of the error number is inverted.
RefusedInverted(m) == m.type = "error" /\ m.errno = 0

Refused(m) == m.type = "error" /\ m.errno # 0

\* cmd receives, raises or returns; add_far and add_pdr then report success.
Commanded ==
    /\ pc = "wait" /\ Recv
    /\ Ends(IF Refused(Head(queue)) THEN "refused" ELSE "added")
    /\ UNCHANGED <<kvars, lvars, fam, answer, verdict, meant, got>>

\* close, or the end of the process: the socket and what it held are gone.
Close ==
    /\ pc = "close" /\ pc' = "idle" /\ queue' = <<>>
    /\ UNCHANGED <<kvars, lvars, fam, report, answer, verdict, meant, got>>

-----------------------------------------------------------------------------
(* gtp5g_link_add.py                                                       *)

\* The UDP socket is bound and RTM_NEWLINK sent with NLM_F_EXCL.  (If the
\* bind fails the process ends before it has done anything.)
LinkAdd ==
    /\ lpc = "idle"
    /\ lgot' = Found(LinkAttrs, {<<18>>, <<18, 2>>})
    /\ lverdict' \in Errnos \cup (IF family # NONE /\ ~link THEN {0} ELSE {})
    /\ link' = (link \/ lverdict' = 0)
    /\ lqueue' = Ack(lverdict')
    /\ lpc' = "wait" /\ lreport' = "none"
    /\ UNCHANGED <<family, gvars>>

LinkAdded ==
    /\ lpc = "wait" /\ lqueue # <<>>
    /\ lreport' = IF Refused(Head(lqueue)) THEN "refused" ELSE "created"
    /\ lqueue' = Tail(lqueue) /\ lpc' = "idle"
    /\ UNCHANGED <<kvars, gvars, lverdict, lgot>>

-----------------------------------------------------------------------------
GenlStep == Resolve \/ Resolved \/ AddFar \/ AddPdr \/ UnknownStep \/ Commanded \/ Close

Next == Environment \/ GenlStart \/ GenlStep \/ LinkAdd \/ LinkAdded

\* A process that runs goes on; recv waits until there is a message.
Spec == Init /\ [][Next]_vars /\ WF_vars(GenlStep) /\ WF_vars(LinkAdded)

-----------------------------------------------------------------------------
\* The kernel finds in a request exactly the attributes the caller asked
\* for, nested ones under their parent, whichever options are given; and in
\* the request for the device those it needs.
Understood == got = meant /\ (lverdict # NONE => lgot = LinkMeant)

\* resolve_family finds the id in every answer that carries it, so that a
\* loaded module is never reported missing.
FamilyFound == report # "notfound" /\ (pc \in {"command", "wait"} => fam = FamilyId)

\* An exception is no false alarm: the kernel has refused a request of this
\* process, GETFAMILY or the command; and a process whose GETFAMILY was refused
\* ends with that exception.
NoFalseAlarm ==
    /\ report = "refused" => answer \in Errnos \/ verdict \in Errnos
    /\ answer \in Errnos /\ pc \in {"close", "idle"} => report = "refused"

\* gtp5g_link_add.py reports what the kernel answered: its socket carries
\* one request, so the message it receives belongs to it.
LinkReportTrue ==
    /\ lreport = "created" => lverdict = 0
    /\ lreport = "refused" => lverdict \in Errnos

\* "[+] FAR 1 added": what gtp5g_genl.py reports as added, the kernel has
\* accepted.
AddedMeansAccepted == report = "added" => verdict = 0

\* No process waits in recv for ever.
EveryRunEnds == (pc # "idle" ~> pc = "idle") /\ (lpc # "idle" ~> lpc = "idle")
=============================================================================
