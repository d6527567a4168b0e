------------------------------- MODULE Uplink -------------------------------
(***************************************************************************)
(* Sessions and the uplink pipeline.  Control-plane processes install and  *)
(* remove sessions, one bpf() system call per map (install_session and     *)
(* remove_session of loader/agent.py; the loop of test/bench_rule_update.c *)
(* for the processes in Harness), and may die between two calls.  Every    *)
(* CPU takes G-PDUs through upf_xdp_uplink and then upf_tc_ingress, whose  *)
(* lookups are separate steps; install_far rewrites a FAR in place.        *)
(*                                                                         *)
(* A session s stands for a TEID and the PDR id installed with it: the     *)
(* callers pair them one to one.  tc_bundle_map is its set of keys here,   *)
(* TcBundle models its values.                                             *)
(***************************************************************************)
EXTENDS Naturals, FiniteSets

CONSTANTS
    Sessions,
    Procs,       \* control-plane processes
    Harness,     \* those running bench_rule_update.c
    Owner,       \* the process that installs and removes each session
    CPUs,
    MaxPdrs,     \* max_entries of pdr_table and tc_bundle_map
    MaxTeids,    \* entries teid_session holds before it evicts
    Fars,        \* contents the agent installs in the FAR: <<action, out_ifindex>>
    NONE

Actions == {"DROP", "FORWARD", "BUFFER"}

ASSUME UplinkAssumption ==
    /\ Harness \subseteq Procs
    /\ Owner \in [Sessions -> Procs]
    /\ MaxPdrs \in Nat /\ MaxTeids \in Nat \ {0}
    /\ Fars \subseteq Actions \X Nat
    /\ NONE \notin Sessions \cup Nat

VARIABLES
    pdr_table,      \* keys present
    tc_bundle_map,  \* keys present
    teid_session,   \* keys present (LRU)
    pc,             \* next map operation of each process
    key,            \* the session it works on
    far,            \* far_table[1]: function on FarWords
    fnew,           \* the content an install_far in progress writes, or NONE
    fleft,          \* the words it has still to copy
    stage,          \* next lookup of each CPU's packet, or how it ended
    pkt,            \* the packet's session
    oif,            \* interface it was redirected to
    changed         \* history: whether its session changed since the first lookup

maps == <<pdr_table, tc_bundle_map, teid_session>>
cvars == <<pc, key>>
fvars == <<far, fnew, fleft>>
pvars == <<stage, pkt, oif, changed>>
vars == <<pdr_table, tc_bundle_map, teid_session, pc, key, far, fnew, fleft,
          stage, pkt, oif, changed>>

Puts == {"put_pdr", "put_bundle", "put_teid"}
Dels == {"del_teid", "del_pdr", "del_bundle"}
Ends == {"miss_pdr", "miss_far", "far_drop", "far_buffer", "decap_err", "qer_drop",
         "redirected"}
Stages == {"idle", "xdp_pdr", "tc_session", "tc_bundle", "far_action", "far_oif"} \cup Ends
FarWords == {"action", "out_ifindex"}
FarVal(f) == [wd \in FarWords |-> IF wd = "action" THEN f[1] ELSE f[2]]

FarOK(f) ==
    /\ f = [wd \in FarWords |-> f[wd]]
    /\ f["action"] \in Actions /\ f["out_ifindex"] \in Nat

TypeOK ==
    /\ pdr_table \subseteq Sessions /\ tc_bundle_map \subseteq Sessions
    /\ teid_session \subseteq Sessions
    /\ Cardinality(pdr_table) =< MaxPdrs /\ Cardinality(tc_bundle_map) =< MaxPdrs
    /\ Cardinality(teid_session) =< MaxTeids
    /\ pc \in [Procs -> {"idle"} \cup Puts \cup Dels]
    /\ key \in [Procs -> Sessions \cup {NONE}]
    /\ fleft \subseteq FarWords
    /\ FarOK(far) /\ (fleft # {} => FarOK(fnew))
    /\ stage \in [CPUs -> Stages]
    /\ pkt \in [CPUs -> Sessions \cup {NONE}]
    /\ oif \in [CPUs -> Nat \cup {NONE}]
    /\ changed \in [CPUs -> BOOLEAN]

Init ==
    /\ pdr_table = {} /\ tc_bundle_map = {} /\ teid_session = {}
    /\ pc = [p \in Procs |-> "idle"]
    /\ key = [p \in Procs |-> NONE]
    /\ far \in {FarVal(f) : f \in Fars} /\ fnew = NONE /\ fleft = {}
    /\ stage = [c \in CPUs |-> "idle"]
    /\ pkt = [c \in CPUs |-> NONE]
    /\ oif = [c \in CPUs |-> NONE]
    /\ changed = [c \in CPUs |-> FALSE]

-----------------------------------------------------------------------------
(* Control plane.                                                          *)

\* Packets of the sessions in S learn that an entry came or went.
Mark(S) == [c \in CPUs |-> changed[c] \/ pkt[c] \in S]

Goto(p, l) == pc' = [pc EXCEPT ![p] = l] /\ UNCHANGED key

\* MUTANT of After: the session is announced before its bundle exists.
AfterSwapped(p, op) ==
    CASE op = "put_pdr" -> "put_teid"
      [] op = "put_teid" -> "put_bundle"
      [] op = "del_teid" -> "del_pdr"
      [] op = "del_pdr" -> "del_bundle"
      [] OTHER -> "idle"

\* The order of a process's map operations; the harness has no bundle.
After(p, op) ==
    CASE op = "put_pdr" -> IF p \in Harness THEN "put_teid" ELSE "put_bundle"
      [] op = "put_bundle" -> "put_teid"
      [] op = "del_teid" -> "del_pdr"
      [] op = "del_pdr" -> IF p \in Harness THEN "idle" ELSE "del_bundle"
      [] OTHER -> "idle"

Done(p) == Goto(p, After(p, pc[p]))

InstallSession(p, s) ==
    /\ pc[p] = "idle" /\ Owner[s] = p
    /\ pc' = [pc EXCEPT ![p] = "put_pdr"]
    /\ key' = [key EXCEPT ![p] = s]
    /\ UNCHANGED <<maps, fvars, pvars>>

\* MUTANT of RemoveSession: the TEID is forgotten.
RemoveSessionKeepsTeid(p, s) ==
    /\ pc[p] = "idle" /\ Owner[s] = p
    /\ pc' = [pc EXCEPT ![p] = "del_pdr"]
    /\ key' = [key EXCEPT ![p] = s]
    /\ UNCHANGED <<maps, fvars, pvars>>

RemoveSession(p, s) ==
    /\ pc[p] = "idle" /\ Owner[s] = p
    /\ pc' = [pc EXCEPT ![p] = "del_teid"]
    /\ key' = [key EXCEPT ![p] = s]
    /\ UNCHANGED <<maps, fvars, pvars>>

\* MUTANT of Fits: off by one.
FitsOneMore(map, s) == s \in map \/ Cardinality(map) =< MaxPdrs

\* A full hash map refuses a new key; the OSError ends the caller and
\* nothing it wrote is taken back.
Fits(map, s) == s \in map \/ Cardinality(map) < MaxPdrs

PutPdr(p) ==
    /\ pc[p] = "put_pdr"
    /\ IF Fits(pdr_table, key[p])
       THEN /\ pdr_table' = pdr_table \cup {key[p]}
            /\ changed' = Mark({key[p]} \ pdr_table)
            /\ Done(p)
       ELSE Goto(p, "idle") /\ UNCHANGED <<pdr_table, changed>>
    /\ UNCHANGED <<tc_bundle_map, teid_session, fvars, stage, pkt, oif>>

PutBundle(p) ==
    /\ pc[p] = "put_bundle"
    /\ IF Fits(tc_bundle_map, key[p])
       THEN /\ tc_bundle_map' = tc_bundle_map \cup {key[p]}
            /\ changed' = Mark({key[p]} \ tc_bundle_map)
            /\ Done(p)
       ELSE Goto(p, "idle") /\ UNCHANGED <<tc_bundle_map, changed>>
    /\ UNCHANGED <<pdr_table, teid_session, fvars, stage, pkt, oif>>

\* A full LRU map evicts entries instead, one or a batch of them.
LruInsert(map, s) ==
    IF s \in map \/ Cardinality(map) < MaxTeids THEN {map \cup {s}}
    ELSE {kept \cup {s} : kept \in (SUBSET map) \ {map}}

PutTeid(p) ==
    /\ pc[p] = "put_teid"
    /\ teid_session' \in LruInsert(teid_session, key[p])
    /\ changed' = Mark((teid_session' \ teid_session) \cup (teid_session \ teid_session'))
    /\ Done(p)
    /\ UNCHANGED <<pdr_table, tc_bundle_map, fvars, stage, pkt, oif>>

\* map_delete swallows the error of a missing key.
DelTeid(p) ==
    /\ pc[p] = "del_teid"
    /\ teid_session' = teid_session \ {key[p]}
    /\ changed' = Mark({key[p]} \cap teid_session)
    /\ Done(p)
    /\ UNCHANGED <<pdr_table, tc_bundle_map, fvars, stage, pkt, oif>>

DelPdr(p) ==
    /\ pc[p] = "del_pdr"
    /\ pdr_table' = pdr_table \ {key[p]}
    /\ changed' = Mark({key[p]} \cap pdr_table)
    /\ Done(p)
    /\ UNCHANGED <<tc_bundle_map, teid_session, fvars, stage, pkt, oif>>

DelBundle(p) ==
    /\ pc[p] = "del_bundle"
    /\ tc_bundle_map' = tc_bundle_map \ {key[p]}
    /\ changed' = Mark({key[p]} \cap tc_bundle_map)
    /\ Done(p)
    /\ UNCHANGED <<pdr_table, teid_session, fvars, stage, pkt, oif>>

\* The process dies between two map operations and is started again.
Crash(p) ==
    /\ pc[p] # "idle"
    /\ Goto(p, "idle")
    /\ UNCHANGED <<maps, fvars, pvars>>

\* install_far: far_table is an array map, its element is overwritten in
\* place, word by word.
InstallFar ==
    /\ fleft = {}
    /\ fnew' \in {FarVal(f) : f \in Fars}
    /\ fleft' = FarWords
    /\ UNCHANGED <<maps, cvars, far, pvars>>

CopyFar(wd) ==
    /\ wd \in fleft
    /\ far' = [far EXCEPT ![wd] = fnew[wd]]
    /\ fleft' = fleft \ {wd}
    /\ UNCHANGED <<maps, cvars, fnew, pvars>>

-----------------------------------------------------------------------------
(* Datapath: each lookup, and each read through the FAR pointer, is a step. *)

Enter(c, st) == stage' = [stage EXCEPT ![c] = st]

\* upf_xdp_uplink finds the TEID (a miss drops the packet at once).
XdpSession(c, s) ==
    /\ stage[c] = "idle"
    /\ s \in teid_session
    /\ Enter(c, "xdp_pdr")
    /\ pkt' = [pkt EXCEPT ![c] = s]
    /\ changed' = [changed EXCEPT ![c] = FALSE]
    /\ UNCHANGED <<maps, cvars, fvars, oif>>

XdpPdr(c) ==
    /\ stage[c] = "xdp_pdr"
    /\ Enter(c, IF pkt[c] \in pdr_table THEN "tc_session" ELSE "miss_pdr")
    /\ UNCHANGED <<maps, cvars, fvars, pkt, oif, changed>>

\* upf_tc_ingress looks everything up again.
TcSession(c) ==
    /\ stage[c] = "tc_session"
    /\ Enter(c, IF pkt[c] \in teid_session THEN "tc_bundle" ELSE "miss_far")
    /\ UNCHANGED <<maps, cvars, fvars, pkt, oif, changed>>

TcBundle(c) ==
    /\ stage[c] = "tc_bundle"
    /\ Enter(c, IF pkt[c] \in tc_bundle_map THEN "far_action" ELSE "miss_far")
    /\ UNCHANGED <<maps, cvars, fvars, pkt, oif, changed>>

FarAction(c) ==
    /\ stage[c] = "far_action"
    /\ Enter(c, CASE far["action"] = "DROP" -> "far_drop"
                  [] far["action"] = "BUFFER" -> "far_buffer"
                  [] far["action"] = "FORWARD" -> "far_oif")
    /\ UNCHANGED <<maps, cvars, fvars, pkt, oif, changed>>

\* upf_far_forward drops the packet if bpf_skb_adjust_room fails or the QER
\* does not admit it (QerBucket).
Shot(c) ==
    /\ stage[c] = "far_oif"
    /\ \E end \in {"decap_err", "qer_drop"} : Enter(c, end)
    /\ UNCHANGED <<maps, cvars, fvars, pkt, oif, changed>>

\* After decapsulation, a second far_table lookup, QER and URR, it reads the
\* FAR's interface.
Redirect(c) ==
    /\ stage[c] = "far_oif"
    /\ oif' = [oif EXCEPT ![c] = far["out_ifindex"]]
    /\ Enter(c, "redirected")
    /\ UNCHANGED <<maps, cvars, fvars, pkt, changed>>

Return(c) ==
    /\ stage[c] \in Ends
    /\ Enter(c, "idle")
    /\ pkt' = [pkt EXCEPT ![c] = NONE]
    /\ oif' = [oif EXCEPT ![c] = NONE]
    /\ changed' = [changed EXCEPT ![c] = FALSE]
    /\ UNCHANGED <<maps, cvars, fvars>>

-----------------------------------------------------------------------------
ControlNext ==
    \E p \in Procs :
        \/ \E s \in Sessions : InstallSession(p, s) \/ RemoveSession(p, s)
        \/ PutPdr(p) \/ PutBundle(p) \/ PutTeid(p)
        \/ DelTeid(p) \/ DelPdr(p) \/ DelBundle(p)
        \/ Crash(p)

FarNext == InstallFar \/ \E wd \in FarWords : CopyFar(wd)

PacketNext ==
    \E c \in CPUs :
        \/ \E s \in Sessions : XdpSession(c, s)
        \/ XdpPdr(c) \/ TcSession(c) \/ TcBundle(c)
        \/ FarAction(c) \/ Shot(c) \/ Redirect(c) \/ Return(c)

Next == ControlNext \/ FarNext \/ PacketNext

Spec == Init /\ [][Next]_vars

-----------------------------------------------------------------------------
\* A session packets can find is complete: its PDR exists, and its bundle
\* where the agent installed it, at every moment of an installation or removal
\* and after a crash or a full map has cut one short.
SessionComplete ==
    /\ teid_session \subseteq pdr_table
    /\ \A s \in teid_session : Owner[s] \in Harness \/ s \in tc_bundle_map

\* upf_tc.c: "A TC-side miss can only happen if map state changed between
\* the XDP and TC lookups"; the same goes for a PDR miss in XDP.  Sessions of
\* the benchmark, which have no bundle, are the exception.
MissOnlyIfChanged ==
    \A c \in CPUs :
        (\/ stage[c] = "miss_pdr"
         \/ stage[c] = "miss_far" /\ Owner[pkt[c]] \notin Harness) => changed[c]

\* No session is evicted: one leaves teid_session only when its owner
\* removes it, because pdr_table fills up before teid_session does.
NoEviction ==
    [][\A s \in teid_session :
         s \notin teid_session' => pc[Owner[s]] = "del_teid" /\ key[Owner[s]] = s]_vars
=============================================================================
