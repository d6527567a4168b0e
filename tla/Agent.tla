------------------------------- MODULE Agent --------------------------------
(***************************************************************************)
(* The agent process over its life, and reload_all.sh beside it.  The      *)
(* agent (loader/agent.py) bootstraps a FAR, a QER and some sessions, then *)
(* serves one HTTP connection at a time; /ruleupdate?n= installs n         *)
(* sessions and removes them again.  Its map descriptors are opened by pin *)
(* path on first use and kept for life (PinnedMapCache), while /metrics    *)
(* runs bpftool on the pin path.  reload_all.sh detaches the programs,     *)
(* removes the pins, and loads new maps and programs.                      *)
(*                                                                         *)
(* A map instance is the number of the load that created it, 0 is none.    *)
(* Session i of the bootstrap is <<"boot", i>> and of a measurement        *)
(* <<"bench", i>>: 0x1000 + i, 0x2000 + i and 0x10000 + i, 0x20000 + i do  *)
(* not meet before pdr_table is full (4096).                               *)
(***************************************************************************)
EXTENDS Naturals, Sequences, FiniteSets

CONSTANTS
    Clients,
    Initial,    \* --initial
    Ns,         \* values of n in /ruleupdate?n=
    MaxPdrs,    \* max_entries of pdr_table and tc_bundle_map
    MaxLoads,   \* bound on the reloads
    Backlog,    \* length of the listen queue
    NONE

ASSUME AgentAssumption ==
    /\ Initial \in Nat /\ Ns \subseteq Nat \ {0}
    /\ MaxPdrs \in Nat /\ MaxLoads \in Nat /\ Backlog \in Nat
    /\ NONE \notin Clients

VARIABLES
    pin,        \* instance pinned under each map's name
    fds,        \* instance behind each cached descriptor of the agent
    content,    \* keys of each session map of each instance
    step,       \* what the agent does next
    i, n,       \* loop counter and bound
    cur,        \* the client whose connection is open; NONE when booting
    backlog,    \* clients waiting to be accepted
    client,     \* each client's connection: idle once answered or closed
    rstep,      \* what reload_all.sh does next
    inst,       \* instances created so far
    loaded,     \* instances the maps of each loaded program resolve to
    attached,   \* the same for each attached program
    clsact,     \* does the interface have its clsact qdisc?
    stuck,      \* history: programs that a failed detach has left attached
    aborted,    \* history: entries left by measurements cut short
    wiped       \* history: were pins removed since this agent started?

avars == <<fds, step, i, n, cur>>
hvars == <<backlog, client>>
rvars == <<rstep, inst, loaded, attached, clsact, stuck>>
vars == <<pin, fds, content, step, i, n, cur, backlog, client, rstep, inst,
          loaded, attached, clsact, stuck, aborted, wiped>>

\* In the order of their declarations.
Declared == <<"teid_session", "pdr_table", "far_table", "qer_table", "tc_bundle_map",
              "metrics">>
Before(m) == {Declared[x] : x \in {y \in 1..6 : \E z \in 1..6 : Declared[z] = m /\ y < z}}
SessionMaps == {"pdr_table", "tc_bundle_map", "teid_session"}
MapNames == SessionMaps \cup {"far_table", "qer_table", "metrics"}
Progs == {"xdp", "tc", "egress"}
Keys == {"boot", "bench"} \X Nat
Insts == 1..MaxLoads

Puts == {"put_far", "put_qer", "put_pdr", "put_bundle", "put_teid"}
Dels == {"del_teid", "del_pdr", "del_bundle"}
Serving == {"listen", "read", "dump", "reply"}
Pending == {"connected", "sent"}
ReloadSteps == {"idle", "xdp_off", "tc_del", "wipe", "load_xdp", "pin", "load_tc",
                "load_egress", "attach_xdp", "add_clsact", "attach_tc", "attach_egress"}

TypeOK ==
    /\ pin \in [MapNames -> 0..MaxLoads] /\ fds \in [MapNames -> 0..MaxLoads]
    /\ content \in [Insts -> [SessionMaps -> SUBSET Keys]]
    /\ step \in {"down"} \cup Puts \cup Dels \cup Serving
    /\ n \in Nat /\ i \in 0..n /\ (step \in Puts \cup Dels => i = 0 \/ i < n)
    /\ cur \in Clients \cup {NONE}
    /\ backlog \in Seq(Clients)
    /\ client \in [Clients -> {"idle"} \cup Pending]
    /\ rstep \in ReloadSteps /\ inst \in 0..MaxLoads
    /\ loaded \in [Progs -> SUBSET (0..MaxLoads)]
    /\ attached \in [Progs -> SUBSET (0..MaxLoads)]
    /\ clsact \in BOOLEAN /\ stuck \subseteq Progs
    /\ aborted \subseteq Insts \X SessionMaps \X Keys
    /\ wiped \in BOOLEAN

Init ==
    /\ pin = [m \in MapNames |-> 0] /\ fds = [m \in MapNames |-> 0]
    /\ content = [x \in Insts |-> [m \in SessionMaps |-> {}]]
    /\ step = "down" /\ i = 0 /\ n = 0
    /\ cur = NONE /\ backlog = <<>>
    /\ client = [k \in Clients |-> "idle"]
    /\ rstep = "idle" /\ inst = 0
    /\ loaded = [p \in Progs |-> {}] /\ attached = [p \in Progs |-> {}]
    /\ clsact = FALSE /\ stuck = {}
    /\ aborted = {} /\ wiped = FALSE

-----------------------------------------------------------------------------
(* Map operations of the agent.                                            *)

MapOf(op) ==
    CASE op = "put_far" -> "far_table"
      [] op = "put_qer" -> "qer_table"
      [] op \in {"put_pdr", "del_pdr"} -> "pdr_table"
      [] op \in {"put_bundle", "del_bundle"} -> "tc_bundle_map"
      [] op \in {"put_teid", "del_teid"} -> "teid_session"

\* MUTANT of Key: measurements use the key range of the bootstrap.
KeyShared == <<"boot", i>>

Key == IF cur = NONE THEN <<"boot", i>> ELSE <<"bench", i>>

\* MUTANT of Fd: the pin is opened again for every operation.
FdFresh(m) == pin[m]

\* PinnedMapCache.fd; 0 if there is neither a descriptor nor a pin.
Fd(m) == IF fds[m] # 0 THEN fds[m] ELSE pin[m]

Open(m) == fds' = [fds EXCEPT ![m] = Fd(m)]

\* The hash maps refuse a new key when they are full; an array element always
\* exists, and teid_session has room for more sessions than pdr_table.
Fits(m) ==
    m \in {"pdr_table", "tc_bundle_map"} =>
        \/ Key \in content[Fd(m)][m]
        \/ Cardinality(content[Fd(m)][m]) < MaxPdrs

\* MUTANT of Again: off by one.
AgainOneMore == i < n

Again == i + 1 < n

\* The next step of install_far; install_qer; the installation loop of the
\* job; and, for a measurement, its removal loop.
Advance(op) ==
    LET Go(s, j) == step' = s /\ i' = j
    IN  CASE op = "put_far" -> Go("put_qer", 0)
          [] op = "put_qer" -> Go(IF n = 0 THEN "listen" ELSE "put_pdr", 0)
          [] op = "put_pdr" -> Go("put_bundle", i)
          [] op = "put_bundle" -> Go("put_teid", i)
          [] op = "put_teid" ->
                IF Again THEN Go("put_pdr", i + 1)
                ELSE Go(IF cur = NONE THEN "listen" ELSE "del_teid", 0)
          [] op = "del_teid" -> Go("del_pdr", i)
          [] op = "del_pdr" -> Go("del_bundle", i)
          [] op = "del_bundle" ->
                IF Again THEN Go("del_teid", i + 1) ELSE Go("reply", 0)

\* The entries a measurement in progress works on: those of its sessions, in
\* the maps it has open.
InProgress ==
    IF cur # NONE /\ step \in Puts \cup Dels
    THEN {<<fds[m], m, <<"bench", j>>>> : m \in {x \in SessionMaps : fds[x] # 0},
                                          j \in 0..(n - 1)}
    ELSE {}

\* Those of them that are in the maps.
Unremoved == {e \in InProgress : e[3] \in content[e[1]][e[2]]}

\* MUTANT of Raise: the connection is not closed.
RaiseSilent ==
    /\ step' = IF cur = NONE THEN "down" ELSE "listen"
    /\ cur' = NONE /\ i' = 0 /\ n' = 0
    /\ aborted' = aborted \cup Unremoved
    /\ UNCHANGED client

\* An exception ends the process during the bootstrap; later, socketserver
\* closes the connection and serves the next one.  Nothing is taken back.
Raise ==
    /\ step' = IF cur = NONE THEN "down" ELSE "listen"
    /\ client' = IF cur = NONE THEN client ELSE [client EXCEPT ![cur] = "idle"]
    /\ cur' = NONE /\ i' = 0 /\ n' = 0
    /\ aborted' = aborted \cup Unremoved

Write(m) ==
    IF m \in SessionMaps
    THEN content' = [content EXCEPT ![Fd(m)][m] = @ \cup {Key}]
    ELSE UNCHANGED content

Put ==
    LET m == MapOf(step)
    IN  /\ step \in Puts
        /\ \/ /\ Fd(m) = 0
              /\ Raise
              /\ UNCHANGED <<fds, content>>
           \/ /\ Fd(m) # 0 /\ ~Fits(m)
              /\ Open(m)
              /\ Raise
              /\ UNCHANGED content
           \/ /\ Fd(m) # 0 /\ Fits(m)
              /\ Open(m) /\ Write(m) /\ Advance(step)
              /\ UNCHANGED <<n, cur, client, aborted>>
        /\ UNCHANGED <<pin, backlog, rvars, wiped>>

\* map_delete: an OSError, of the open or of the deletion, is swallowed.
Delete ==
    LET m == MapOf(step)
    IN  /\ step \in Dels
        /\ Open(m)
        /\ content' = IF Fd(m) = 0 THEN content
                      ELSE [content EXCEPT ![Fd(m)][m] = @ \ {Key}]
        /\ aborted' = aborted \ {<<Fd(m), m, Key>>}
        /\ Advance(step)
        /\ UNCHANGED <<pin, n, cur, hvars, rvars, wiped>>

-----------------------------------------------------------------------------
(* The process and its HTTP server.                                        *)

\* A map without a pin is freed or, where a program still holds it, out of the
\* reach of every agent to come: what was in it is forgotten.
Held == {pin[m] : m \in MapNames}

\* main: a new process has an empty descriptor cache.
Start ==
    /\ step = "down"
    /\ step' = "put_far" /\ i' = 0 /\ n' = Initial
    /\ fds' = [m \in MapNames |-> 0]
    /\ content' = [x \in Insts |-> IF x \in Held THEN content[x]
                                   ELSE [m \in SessionMaps |-> {}]]
    /\ aborted' = {e \in aborted : e[1] \in Held}
    /\ wiped' = FALSE
    /\ UNCHANGED <<pin, cur, hvars, rvars>>

\* The process is killed: its connections are reset.
Crash ==
    /\ step # "down"
    /\ step' = "down"
    /\ cur' = NONE /\ backlog' = <<>>
    /\ client' = [k \in Clients |-> "idle"]
    /\ aborted' = aborted \cup Unremoved
    /\ fds' = [m \in MapNames |-> 0] /\ i' = 0 /\ n' = 0
    /\ UNCHANGED <<pin, content, rvars, wiped>>

\* The socket exists once the bootstrap is over.
Connect(k) ==
    /\ client[k] = "idle"
    /\ step # "down" /\ ~(cur = NONE /\ step \in Puts)
    /\ Len(backlog) < Backlog
    /\ client' = [client EXCEPT ![k] = "connected"]
    /\ backlog' = Append(backlog, k)
    /\ UNCHANGED <<pin, content, avars, rvars, aborted, wiped>>

\* A request that comes before its connection is accepted lies unseen in the
\* socket: it is taken to come when it is.
Send(k) ==
    /\ client[k] = "connected" /\ cur = k
    /\ client' = [client EXCEPT ![k] = "sent"]
    /\ UNCHANGED <<pin, content, avars, backlog, rvars, aborted, wiped>>

Accept ==
    /\ step = "listen" /\ backlog # <<>>
    /\ cur' = Head(backlog) /\ backlog' = Tail(backlog)
    /\ step' = "read"
    /\ UNCHANGED <<pin, fds, content, i, n, client, rvars, aborted, wiped>>

Answer ==
    /\ client' = [client EXCEPT ![cur] = "idle"]
    /\ cur' = NONE /\ i' = 0 /\ n' = 0
    /\ step' = "listen"

Measure(m) ==
    /\ step' = "put_pdr" /\ n' = m /\ i' = 0
    /\ UNCHANGED <<cur, client, aborted>>

\* do_GET, once the request has arrived, whatever it asks for.  The handler
\* sets no timeout.
DoGet ==
    /\ step = "read" /\ client[cur] = "sent"
    /\ \/ \* /healthz, or a path that is not found.
          Answer /\ UNCHANGED aborted
       \/ \* /metrics
          step' = "dump" /\ UNCHANGED <<i, n, cur, client, aborted>>
       \/ \* /ruleupdate
          \E m \in Ns : Measure(m)
       \/ \* /ruleupdate where n is no number (ValueError of int()), or where
          \* nothing is measured (IndexError in the percentiles).
          Raise
    /\ UNCHANGED <<pin, fds, content, backlog, rvars, wiped>>

\* map_dump: bpftool opens the pin; it fails if there is none.
Dump ==
    /\ step = "dump"
    /\ IF pin["metrics"] = 0 THEN Raise ELSE Answer /\ UNCHANGED aborted
    /\ UNCHANGED <<pin, fds, content, backlog, rvars, wiped>>

Reply ==
    /\ step = "reply"
    /\ Answer
    /\ UNCHANGED <<pin, fds, content, backlog, rvars, aborted, wiped>>

-----------------------------------------------------------------------------
(* reload_all.sh, one command at a time; set -e ends it at a failure.      *)

uvars == <<fds, content, step, i, n, cur, backlog, client, aborted>>

ReloadBegin ==
    /\ rstep = "idle" /\ inst < MaxLoads
    /\ rstep' = "xdp_off"
    /\ UNCHANGED <<uvars, pin, inst, loaded, attached, clsact, stuck, wiped>>

Detach(S) ==
    /\ attached' = [p \in Progs |-> IF p \in S THEN {} ELSE attached[p]]
    /\ stuck' = stuck \ S

\* `|| true': the script goes on beside the programs it could not detach.
DetachFails(S) ==
    /\ UNCHANGED attached
    /\ stuck' = stuck \cup {p \in S : attached[p] # {}}

XdpOff ==
    /\ rstep = "xdp_off" /\ rstep' = "tc_del"
    /\ Detach({"xdp"}) \/ DetachFails({"xdp"})
    /\ UNCHANGED <<uvars, pin, inst, loaded, clsact, wiped>>

\* MUTANT of TcDel: only the ingress filter is deleted, not the qdisc.
TcDelIngress ==
    /\ rstep = "tc_del" /\ rstep' = "wipe"
    /\ Detach({"tc"}) \/ DetachFails({"tc"})
    /\ UNCHANGED <<uvars, pin, inst, loaded, clsact, wiped>>

\* The clsact qdisc goes with both of its filters.
TcDel ==
    /\ rstep = "tc_del" /\ rstep' = "wipe"
    /\ \/ Detach({"tc", "egress"}) /\ clsact' = FALSE
       \/ DetachFails({"tc", "egress"}) /\ UNCHANGED clsact
    /\ UNCHANGED <<uvars, pin, inst, loaded, wiped>>

\* rm -rf: one file after the other, in the order bpffs lists them, the
\* newest first.
Wipe(m) ==
    /\ rstep = "wipe" /\ pin[m] # 0 /\ \A x \in MapNames : m \in Before(x) => pin[x] = 0
    /\ pin' = [pin EXCEPT ![m] = 0]
    /\ wiped' = TRUE
    /\ UNCHANGED <<uvars, rvars>>

\* loadall creates the maps with the XDP program, then pins them.
LoadXdp ==
    /\ rstep = "wipe" /\ \A m \in MapNames : pin[m] = 0
    /\ inst' = inst + 1
    /\ loaded' = [p \in Progs |-> IF p = "xdp" THEN {inst + 1} ELSE {}]
    /\ rstep' = "pin"
    /\ UNCHANGED <<uvars, pin, attached, clsact, stuck, wiped>>

PinMap(m) ==
    /\ rstep = "pin" /\ pin[m] = 0 /\ \A x \in Before(m) : pin[x] # 0
    /\ pin' = [pin EXCEPT ![m] = inst]
    /\ rstep' = IF \A x \in MapNames \ {m} : pin[x] # 0 THEN "load_tc" ELSE "pin"
    /\ UNCHANGED <<uvars, inst, loaded, attached, clsact, stuck, wiped>>

\* MUTANT of LoadTc: without the reuse arguments the object gets maps of its own.
LoadTcOwnMaps(p, at, next) ==
    /\ rstep = at
    /\ loaded' = [loaded EXCEPT ![p] = {0}]
    /\ rstep' = next
    /\ UNCHANGED <<uvars, pin, inst, attached, clsact, stuck, wiped>>

\* reuse_args: every map of the object is the pinned one.
LoadTc(p, at, next) ==
    /\ rstep = at
    /\ loaded' = [loaded EXCEPT ![p] = {pin[m] : m \in MapNames}]
    /\ rstep' = next
    /\ UNCHANGED <<uvars, pin, inst, attached, clsact, stuck, wiped>>

\* Without -force, ip does not replace an XDP program that is attached.
Attach(p, at, next) ==
    /\ rstep = at
    /\ p = "xdp" => attached[p] = {}
    /\ attached' = [attached EXCEPT ![p] = loaded[p]]
    /\ rstep' = next
    /\ UNCHANGED <<uvars, pin, inst, loaded, clsact, stuck, wiped>>

\* tc refuses a second clsact qdisc.
AddClsact ==
    /\ rstep = "add_clsact" /\ ~clsact
    /\ clsact' = TRUE
    /\ rstep' = "attach_tc"
    /\ UNCHANGED <<uvars, pin, inst, loaded, attached, stuck, wiped>>

\* set -e: a command that fails ends the script where it is.  What it has
\* loaded and not attached stays so.
ReloadFails ==
    /\ rstep # "idle" /\ rstep' = "idle"
    /\ loaded' = [p \in Progs |-> {}]
    /\ UNCHANGED <<uvars, pin, inst, attached, clsact, stuck, wiped>>

ReloadNext ==
    \/ ReloadBegin \/ XdpOff \/ TcDel
    \/ \E m \in MapNames : Wipe(m) \/ PinMap(m)
    \/ LoadXdp
    \/ LoadTc("tc", "load_tc", "load_egress")
    \/ LoadTc("egress", "load_egress", "attach_xdp")
    \/ Attach("xdp", "attach_xdp", "add_clsact")
    \/ AddClsact
    \/ Attach("tc", "attach_tc", "attach_egress")
    \/ Attach("egress", "attach_egress", "idle")
    \/ ReloadFails

-----------------------------------------------------------------------------
AgentStep == Put \/ Delete \/ Accept \/ DoGet \/ Dump \/ Reply

ClientNext ==
    \E k \in Clients : Connect(k) \/ Send(k)

Next == AgentStep \/ Start \/ Crash \/ ClientNext \/ ReloadNext

\* The agent runs while it is alive; a client that has connected sends its
\* request.  Nobody has to start, kill, connect or reload anything.
Fairness ==
    /\ WF_vars(AgentStep)
    /\ \A k \in Clients : WF_vars(Send(k))

Spec == Init /\ [][Next]_vars /\ Fairness

-----------------------------------------------------------------------------
\* upf_maps.h: the programs "resolve to the *same* map instances rather than
\* each creating their own copy".  reload_all.sh ignores a detach that fails,
\* attaches the new XDP program and only then stops at the qdisc, with the TC
\* programs of the old maps behind it.  That is the only way to two sets of
\* maps: at any moment of a reload, and after one that failed half way, all
\* programs but those left by such a detach resolve to one.
ProgramsShareMaps == Cardinality(UNION {attached[p] : p \in Progs \ stuck}) =< 1

\* Unless pins were removed during its life, an agent writes to the very maps
\* that the attached programs read, although it opens them one by one; again
\* apart from the programs that a failed detach has left attached.
WritesReachDatapath ==
    step # "down" /\ ~wiped =>
        \A m \in MapNames, p \in Progs \ stuck :
            fds[m] # 0 /\ attached[p] # {} => attached[p] = {fds[m]}

\* Outside a measurement every entry of a measurement's key range was left
\* by one that an exception or a crash cut short; a complete one leaves
\* nothing in any instance, whatever reloads happen meanwhile.
LeftoversExplained ==
    \A x \in Insts, m \in SessionMaps :
        \A k \in content[x][m] :
            k[1] = "bench" => <<x, m, k>> \in aborted \cup InProgress

\* From the end of the bootstrap on the initial sessions are complete in the
\* maps the agent uses: no measurement, failed or not, takes them away.
InitialSessionsStay ==
    step # "down" /\ (cur # NONE \/ step = "listen") =>
        \A m \in SessionMaps : \A j \in 0..(Initial - 1) :
            <<"boot", j>> \in content[fds[m]][m]

\* Every connection ends, in an answer or closed, one that waits behind a
\* failing measurement too: the single-threaded server always comes back to
\* its accept loop.
EveryRequestEnds ==
    \A k \in Clients : client[k] \in Pending ~> client[k] = "idle"
=============================================================================
