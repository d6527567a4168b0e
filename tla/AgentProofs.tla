---------------------------- MODULE AgentProofs -----------------------------
(***************************************************************************)
(* Proofs about Agent, for any clients, sessions, limits and number of     *)
(* reloads.                                                                *)
(***************************************************************************)
EXTENDS Agent, FiniteSetTheorems, TLAPS

Loading == {"load_tc", "load_egress", "attach_xdp", "add_clsact", "attach_tc",
            "attach_egress"}

\* Functions, as far as the argument needs it.
Shapes ==
    /\ pin \in [MapNames -> Nat] /\ fds \in [MapNames -> Nat]
    /\ attached = [p \in Progs |-> attached[p]] /\ loaded = [p \in Progs |-> loaded[p]]
    /\ inst \in Nat /\ rstep \in ReloadSteps /\ wiped \in BOOLEAN

\* A pin refers to the maps of the last load; all of them are there once the
\* TC programs are loaded.
PinOK ==
    /\ \A m \in MapNames : pin[m] = 0 \/ pin[m] = inst
    /\ rstep \in Loading => \A m \in MapNames : pin[m] = inst /\ inst # 0

\* A program that no failed detach has left behind is attached to the maps of
\* the last load or not at all: it is not when those of another are created.
AttachedOK ==
    /\ \A p \in Progs \ stuck : attached[p] = {} \/ attached[p] = {inst}
    /\ rstep \in {"wipe", "pin"} => \A p \in Progs \ stuck : attached[p] = {}
    /\ rstep = "tc_del" /\ "xdp" \notin stuck => attached["xdp"] = {}

\* What the reload has loaded so far.
LoadedOK ==
    /\ rstep \in Loading \cup {"pin"} => loaded["xdp"] = {inst}
    /\ rstep \in Loading \ {"load_tc"} => loaded["tc"] = {inst}
    /\ rstep \in Loading \ {"load_tc", "load_egress"} => loaded["egress"] = {inst}

\* While no pin is removed, a cached descriptor is what its pin refers to.
CacheOK == ~wiped => \A m \in MapNames : fds[m] = 0 \/ fds[m] = pin[m]

IInv == Shapes /\ PinOK /\ AttachedOK /\ LoadedOK /\ CacheOK

LEMMA InitIInv == Init => IInv
<1> SUFFICES ASSUME Init PROVE IInv
  OBVIOUS
<1>1. Shapes
  BY DEF Init, Shapes, ReloadSteps
<1>2. PinOK /\ LoadedOK /\ CacheOK
  BY DEF Init, PinOK, LoadedOK, CacheOK, Loading
<1>3. AttachedOK
  BY DEF Init, AttachedOK, Progs
<1> QED BY <1>1, <1>2, <1>3 DEF IInv

\* Steps of the agent and of its clients: descriptors are opened from pins,
\* and nothing of the reload changes.
LEMMA AgentIInv ==
    ASSUME IInv, UNCHANGED <<pin, rstep, inst, loaded, attached, stuck, wiped>>,
           fds' \in [MapNames -> Nat],
           \A m \in MapNames : fds'[m] = 0 \/ fds'[m] = fds[m] \/ fds'[m] = pin[m]
    PROVE  IInv'
<1>1. Shapes' /\ PinOK'
  BY DEF IInv, Shapes, PinOK
<1>2. AttachedOK' /\ LoadedOK'
  BY DEF IInv, AttachedOK, LoadedOK
<1>3. CacheOK'
  BY DEF IInv, CacheOK
<1> QED BY <1>1, <1>2, <1>3 DEF IInv

\* PinnedMapCache.fd.
LEMMA OpenIInv ==
    ASSUME IInv, NEW m \in MapNames, Open(m),
           UNCHANGED <<pin, rstep, inst, loaded, attached, stuck, wiped>>
    PROVE  IInv'
<1>1. fds' = [fds EXCEPT ![m] = Fd(m)] /\ (Fd(m) = fds[m] \/ Fd(m) = pin[m])
  BY DEF Open, Fd
<1>2. fds \in [MapNames -> Nat] /\ pin \in [MapNames -> Nat]
  BY DEF IInv, Shapes
<1>3. /\ fds' \in [MapNames -> Nat]
      /\ \A x \in MapNames : fds'[x] = 0 \/ fds'[x] = fds[x] \/ fds'[x] = pin[x]
  BY <1>1, <1>2
<1> QED BY <1>3, AgentIInv

LEMMA KeepIInv ==
    ASSUME IInv, UNCHANGED <<pin, fds, rstep, inst, loaded, attached, stuck, wiped>>
    PROVE  IInv'
<1>1. fds' = fds /\ fds \in [MapNames -> Nat]
  BY DEF IInv, Shapes
<1> QED BY <1>1, AgentIInv

LEMMA ProcessIInv ==
    ASSUME IInv, AgentStep \/ Start \/ Crash \/ ClientNext
    PROVE  IInv'
<1>1. CASE Put
  <2>1. MapOf(step) \in MapNames
    BY <1>1 DEF Put, MapOf, Puts, MapNames, SessionMaps
  <2>2. UNCHANGED <<pin, rstep, inst, loaded, attached, stuck, wiped>>
    BY <1>1 DEF Put, rvars
  <2>3. Open(MapOf(step)) \/ UNCHANGED fds
    BY <1>1 DEF Put
  <2> QED BY <2>1, <2>2, <2>3, OpenIInv, KeepIInv
<1>2. CASE Delete
  <2>1. MapOf(step) \in MapNames
    BY <1>2 DEF Delete, MapOf, Dels, MapNames, SessionMaps
  <2>2. UNCHANGED <<pin, rstep, inst, loaded, attached, stuck, wiped>> /\ Open(MapOf(step))
    BY <1>2 DEF Delete, rvars
  <2> QED BY <2>1, <2>2, OpenIInv
<1>3. CASE Accept \/ DoGet \/ Dump \/ Reply
  <2>1. UNCHANGED <<pin, fds, rstep, inst, loaded, attached, stuck, wiped>>
    BY <1>3 DEF Accept, DoGet, Dump, Reply, rvars
  <2> QED BY <2>1, KeepIInv
<1>4. CASE Start
  <2>1. /\ fds' = [m \in MapNames |-> 0] /\ wiped' = FALSE
        /\ UNCHANGED <<pin, rstep, inst, loaded, attached, stuck>>
    BY <1>4 DEF Start, rvars
  <2>2. Shapes' /\ PinOK'
    BY <2>1 DEF IInv, Shapes, PinOK
  <2>3. AttachedOK' /\ LoadedOK' /\ CacheOK'
    BY <2>1 DEF IInv, AttachedOK, LoadedOK, CacheOK
  <2> QED BY <2>2, <2>3 DEF IInv
<1>5. CASE Crash
  <2>1. /\ fds' = [m \in MapNames |-> 0]
        /\ UNCHANGED <<pin, rstep, inst, loaded, attached, stuck, wiped>>
    BY <1>5 DEF Crash, rvars
  <2>2. fds' \in [MapNames -> Nat] /\ \A m \in MapNames : fds'[m] = 0
    BY <2>1
  <2> QED BY <2>1, <2>2, AgentIInv
<1>6. CASE ClientNext
  <2>1. UNCHANGED <<pin, fds, rstep, inst, loaded, attached, stuck, wiped>>
    BY <1>6 DEF ClientNext, Connect, Send, avars, rvars
  <2> QED BY <2>1, KeepIInv
<1> QED BY <1>1, <1>2, <1>3, <1>4, <1>5, <1>6 DEF AgentStep

\* A detach, done or not, ends with each of its programs off or left behind.
LEMMA DetachKeeps ==
    ASSUME NEW S \in SUBSET Progs, Detach(S) \/ DetachFails(S),
           attached = [p \in Progs |-> attached[p]]
    PROVE  /\ attached' = [p \in Progs |-> attached'[p]]
           /\ \A p \in S : p \notin stuck' => attached'[p] = {}
           /\ \A p \in Progs : attached'[p] = {} \/ attached'[p] = attached[p]
           /\ \A p \in Progs \ S : attached'[p] = attached[p] /\ (p \in stuck' <=> p \in stuck)
           /\ \A p \in S : p \in stuck /\ p \notin stuck' => attached'[p] = {}
  BY DEF Detach, DetachFails

\* reload_all.sh up to the load of the first program.
LEMMA UnloadIInv ==
    ASSUME IInv,
           \/ ReloadBegin \/ XdpOff \/ TcDel \/ ReloadFails \/ LoadXdp
           \/ \E m \in MapNames : Wipe(m)
    PROVE  IInv'
<1> USE DEF IInv
<1>0. fds' = fds
  BY DEF ReloadBegin, XdpOff, TcDel, ReloadFails, LoadXdp, Wipe, uvars
<1>1. CASE ReloadBegin \/ ReloadFails
  <2>1. /\ UNCHANGED <<pin, inst, attached, stuck, wiped>> /\ rstep' \in {"idle", "xdp_off"}
        /\ loaded' = loaded \/ loaded' = [p \in Progs |-> {}]
    BY <1>1 DEF ReloadBegin, ReloadFails
  <2>2. Shapes' /\ PinOK'
    BY <1>0, <2>1 DEF Shapes, PinOK, Loading, ReloadSteps
  <2> QED BY <1>0, <2>1, <2>2 DEF AttachedOK, LoadedOK, CacheOK, Loading
<1>2. CASE XdpOff
  <2>1. /\ UNCHANGED <<pin, inst, loaded, wiped>> /\ rstep' = "tc_del"
        /\ Detach({"xdp"}) \/ DetachFails({"xdp"})
    BY <1>2 DEF XdpOff
  <2>2. Shapes' /\ AttachedOK'
    BY <1>0, <2>1, DetachKeeps DEF Shapes, AttachedOK, Progs, ReloadSteps
  <2>3. PinOK' /\ LoadedOK' /\ CacheOK'
    BY <1>0, <2>1 DEF PinOK, LoadedOK, CacheOK, Loading
  <2> QED BY <2>2, <2>3
<1>3. CASE TcDel
  <2>1. /\ UNCHANGED <<pin, inst, loaded, wiped>> /\ rstep = "tc_del" /\ rstep' = "wipe"
        /\ Detach({"tc", "egress"}) \/ DetachFails({"tc", "egress"})
    BY <1>3 DEF TcDel
  <2>2. Shapes' /\ AttachedOK'
    BY <1>0, <2>1, DetachKeeps DEF Shapes, AttachedOK, Progs, ReloadSteps
  <2>3. PinOK' /\ LoadedOK' /\ CacheOK'
    BY <1>0, <2>1 DEF PinOK, LoadedOK, CacheOK, Loading
  <2> QED BY <2>2, <2>3
<1>4. CASE \E m \in MapNames : Wipe(m)
  <2>1. PICK m \in MapNames : Wipe(m)
    BY <1>4
  <2>2. /\ pin' = [pin EXCEPT ![m] = 0] /\ wiped' = TRUE /\ rstep = "wipe"
        /\ UNCHANGED <<rstep, inst, loaded, attached, stuck>>
    BY <2>1 DEF Wipe, rvars
  <2>3. Shapes' /\ PinOK'
    BY <1>0, <2>2 DEF Shapes, PinOK, Loading
  <2> QED BY <2>2, <2>3 DEF AttachedOK, LoadedOK, CacheOK
<1>5. CASE LoadXdp
  <2>1. /\ rstep = "wipe" /\ rstep' = "pin" /\ \A m \in MapNames : pin[m] = 0
        /\ inst' = inst + 1 /\ UNCHANGED <<pin, attached, stuck, wiped>>
        /\ loaded' = [p \in Progs |-> IF p = "xdp" THEN {inst + 1} ELSE {}]
    BY <1>5 DEF LoadXdp
  <2>2. Shapes' /\ PinOK' /\ CacheOK'
    BY <1>0, <2>1 DEF Shapes, PinOK, CacheOK, Loading, ReloadSteps
  <2>3. AttachedOK'
    BY <2>1 DEF AttachedOK
  <2>4. LoadedOK'
    BY <2>1 DEF LoadedOK, Loading, Progs
  <2> QED BY <2>2, <2>3, <2>4
<1> QED BY <1>1, <1>2, <1>3, <1>4, <1>5

\* ... and from there on.
LEMMA LoadIInv ==
    ASSUME IInv,
           \/ \E m \in MapNames : PinMap(m)
           \/ LoadTc("tc", "load_tc", "load_egress")
           \/ LoadTc("egress", "load_egress", "attach_xdp")
           \/ Attach("xdp", "attach_xdp", "add_clsact") \/ AddClsact
           \/ Attach("tc", "attach_tc", "attach_egress")
           \/ Attach("egress", "attach_egress", "idle")
    PROVE  IInv'
<1> USE DEF IInv
<1>0. fds' = fds
  BY DEF PinMap, LoadTc, Attach, AddClsact, uvars
<1>1. CASE \E m \in MapNames : PinMap(m)
  <2>1. PICK m \in MapNames : PinMap(m)
    BY <1>1
  <2>2. /\ pin[m] = 0 /\ pin' = [pin EXCEPT ![m] = inst] /\ rstep = "pin"
        /\ rstep' = IF \A x \in MapNames \ {m} : pin[x] # 0 THEN "load_tc" ELSE "pin"
        /\ UNCHANGED <<inst, loaded, attached, stuck, wiped>>
    BY <2>1 DEF PinMap
  <2>3. Shapes'
    BY <1>0, <2>2 DEF Shapes, ReloadSteps
  <2>4. PinOK'
    <3>1. \A x \in MapNames : pin'[x] = 0 \/ pin'[x] = inst
      BY <2>2 DEF Shapes, PinOK
    <3>2. CASE rstep' = "load_tc"
      <4>1. \A x \in MapNames \ {m} : pin[x] # 0
        BY <2>2, <3>2
      <4>2. \A x \in MapNames : pin'[x] = inst
        BY <2>2, <4>1 DEF Shapes, PinOK
      <4>3. PICK x \in MapNames : x # m
        BY DEF MapNames, SessionMaps
      <4>4. inst # 0
        BY <4>1, <4>3 DEF PinOK
      <4> QED BY <2>2, <3>2, <4>2, <4>4 DEF PinOK
    <3>3. CASE rstep' = "pin"
      BY <2>2, <3>1, <3>3 DEF PinOK, Loading
    <3> QED BY <2>2, <3>2, <3>3
  <2>5. AttachedOK' /\ LoadedOK'
    BY <2>2 DEF AttachedOK, LoadedOK, Loading
  <2>6. CacheOK'
    BY <1>0, <2>2 DEF CacheOK, Shapes
  <2> QED BY <2>3, <2>4, <2>5, <2>6
<1>2. ASSUME NEW p \in {"tc", "egress"}, NEW at, NEW next, LoadTc(p, at, next),
             \/ p = "tc" /\ at = "load_tc" /\ next = "load_egress"
             \/ p = "egress" /\ at = "load_egress" /\ next = "attach_xdp"
      PROVE  IInv'
  <2>1. /\ rstep = at /\ rstep' = next /\ UNCHANGED <<pin, inst, attached, stuck, wiped>>
        /\ loaded' = [loaded EXCEPT ![p] = {pin[m] : m \in MapNames}]
    BY <1>2 DEF LoadTc
  <2>2. at \in Loading /\ next \in Loading
    BY <1>2 DEF Loading
  <2>3. {pin[m] : m \in MapNames} = {inst}
    <3>1. \A m \in MapNames : pin[m] = inst
      BY <2>1, <2>2 DEF PinOK
    <3>2. "metrics" \in MapNames
      BY DEF MapNames
    <3> QED BY <3>1, <3>2
  <2>4. Shapes' /\ PinOK' /\ CacheOK'
    BY <1>0, <1>2, <2>1, <2>2 DEF Shapes, PinOK, CacheOK, ReloadSteps
  <2>5. AttachedOK'
    BY <1>2, <2>1 DEF AttachedOK
  <2>6. loaded'[p] = {inst} /\ \A q \in Progs \ {p} : loaded'[q] = loaded[q]
    BY <1>2, <2>1, <2>3 DEF Shapes, Progs
  <2>7. LoadedOK'
    BY <1>2, <2>1, <2>6 DEF LoadedOK, Loading, Progs
  <2> QED BY <2>4, <2>5, <2>7
<1>3. ASSUME NEW p \in Progs, NEW at, NEW next, Attach(p, at, next),
             \/ p = "xdp" /\ at = "attach_xdp" /\ next = "add_clsact"
             \/ p = "tc" /\ at = "attach_tc" /\ next = "attach_egress"
             \/ p = "egress" /\ at = "attach_egress" /\ next = "idle"
      PROVE  IInv'
  <2>1. /\ rstep = at /\ rstep' = next /\ UNCHANGED <<pin, inst, loaded, stuck, wiped>>
        /\ attached' = [attached EXCEPT ![p] = loaded[p]]
    BY <1>3 DEF Attach
  <2>2. loaded[p] = {inst}
    BY <1>3, <2>1 DEF LoadedOK, Loading
  <2>3. Shapes' /\ PinOK' /\ CacheOK'
    BY <1>0, <1>3, <2>1 DEF Shapes, PinOK, CacheOK, ReloadSteps, Loading
  <2>4. AttachedOK'
    <3>1. attached'[p] = {inst} /\ \A q \in Progs \ {p} : attached'[q] = attached[q]
      BY <2>1, <2>2 DEF Shapes
    <3>2. rstep' \notin {"wipe", "pin", "tc_del"}
      BY <1>3, <2>1
    <3> QED BY <2>1, <3>1, <3>2 DEF AttachedOK
  <2>5. LoadedOK'
    BY <1>3, <2>1 DEF LoadedOK, Loading
  <2> QED BY <2>3, <2>4, <2>5
<1>4. CASE AddClsact
  <2>1. /\ UNCHANGED <<pin, inst, loaded, attached, stuck, wiped>>
        /\ rstep = "add_clsact" /\ rstep' = "attach_tc"
    BY <1>4 DEF AddClsact
  <2>2. Shapes' /\ PinOK' /\ CacheOK'
    BY <1>0, <2>1 DEF Shapes, PinOK, CacheOK, ReloadSteps, Loading
  <2> QED BY <2>1, <2>2 DEF AttachedOK, LoadedOK, Loading
<1> QED BY <1>1, <1>2, <1>3, <1>4 DEF Progs

\* Pins, programs and cached descriptors stay together in every behaviour of
\* the agent, its clients and the reloads.
THEOREM Invariance == Spec => []IInv
<1>1. Init => IInv
  BY InitIInv
<1>2. IInv /\ [Next]_vars => IInv'
  <2> SUFFICES ASSUME IInv, [Next]_vars PROVE IInv'
    OBVIOUS
  <2>1. CASE AgentStep \/ Start \/ Crash \/ ClientNext
    BY <2>1, ProcessIInv
  <2>2. CASE ReloadNext
    BY <2>2, UnloadIInv, LoadIInv DEF ReloadNext
  <2>3. CASE UNCHANGED vars
    BY <2>3, KeepIInv DEF vars
  <2> QED BY <2>1, <2>2, <2>3 DEF Next
<1> QED BY <1>1, <1>2, PTL DEF Spec

\* However many reloads of reload_all.sh run and wherever they stop, the
\* attached programs resolve to the same map instances, but for those that a
\* failed detach has left attached.
THEOREM OneSetOfMaps == Spec => []ProgramsShareMaps
<1>1. IInv => ProgramsShareMaps
  <2> SUFFICES ASSUME IInv PROVE ProgramsShareMaps
    OBVIOUS
  <2>1. \A p \in Progs \ stuck : attached[p] = {} \/ attached[p] = {inst}
    BY DEF IInv, AttachedOK
  <2> DEFINE U == UNION {attached[p] : p \in Progs \ stuck}
  <2>2. U = {} \/ U = {inst}
    <3>1. U \subseteq {inst}
      BY <2>1
    <3> QED BY <3>1
  <2>3. Cardinality({}) = 0 /\ Cardinality({inst}) = 1
    BY FS_EmptySet, FS_Singleton
  <2>4. ProgramsShareMaps <=> Cardinality(U) =< 1
    BY Zenon DEF ProgramsShareMaps
  <2> HIDE DEF U
  <2>5. Cardinality(U) = 0 \/ Cardinality(U) = 1
    BY <2>2, <2>3, Zenon
  <2>6. Cardinality(U) =< 1
    BY <2>5
  <2> QED BY <2>4, <2>6
<1> QED BY <1>1, Invariance, PTL

\* An agent whose maps were not wiped writes, through every descriptor its
\* cache keeps, to the maps the attached programs read, but for those that a
\* failed detach has left attached.
THEOREM CacheIsCurrent == Spec => []WritesReachDatapath
<1>1. IInv => WritesReachDatapath
  <2> SUFFICES ASSUME IInv, ~wiped, NEW m \in MapNames, NEW p \in Progs \ stuck,
                      fds[m] # 0, attached[p] # {}
               PROVE  attached[p] = {fds[m]}
    BY DEF WritesReachDatapath
  <2>1. fds[m] = pin[m] /\ pin[m] = inst
    BY DEF IInv, CacheOK, PinOK
  <2> QED BY <2>1 DEF IInv, AttachedOK
<1> QED BY <1>1, Invariance, PTL

-----------------------------------------------------------------------------
(* Types and sessions.                                                     *)

SessionPuts == {"put_pdr", "put_bundle", "put_teid"}

\* How many sessions the running loop has put into, or taken out of, a map.
PutDone(m) ==
    i + IF \/ step = "put_bundle" /\ m = "pdr_table"
           \/ step = "put_teid" /\ m # "teid_session" THEN 1 ELSE 0
DelDone(m) ==
    IF step = "reply" THEN n
    ELSE i + IF \/ step = "del_pdr" /\ m = "teid_session"
                \/ step = "del_bundle" /\ m # "tc_bundle_map" THEN 1 ELSE 0

\* Which loop runs for whom.
JobOK ==
    /\ cur = NONE => step \in {"down", "listen"} \cup Puts
    /\ cur # NONE => step \in SessionPuts \cup Dels \cup (Serving \ {"listen"})
    /\ step \in SessionPuts \cup Dels => i < n
    /\ cur = NONE /\ step \in Puts => n = Initial

\* The maps a loop has worked on are open.
OpenOK ==
    /\ step \in SessionPuts => \A m \in SessionMaps : PutDone(m) > 0 => fds[m] # 0
    /\ step \in Dels \cup {"reply"} => \A m \in SessionMaps : fds[m] # 0

\* The bootstrap's sessions are there as far as its loop has come, and all of
\* them afterwards.
BootOK ==
    /\ cur = NONE /\ step \in SessionPuts =>
         \A m \in SessionMaps : \A j \in 0..(PutDone(m) - 1) : <<"boot", j>> \in content[fds[m]][m]
    /\ cur # NONE \/ step = "listen" =>
         \A m \in SessionMaps : \A j \in 0..(Initial - 1) :
             fds[m] # 0 /\ <<"boot", j>> \in content[fds[m]][m]

\* The removal loop of a measurement has removed what it has come past.
ClearOK ==
    step \in Dels \cup {"reply"} =>
        \A m \in SessionMaps : \A j \in 0..(DelDone(m) - 1) :
            <<"bench", j>> \notin content[fds[m]][m]

SInv == JobOK /\ OpenOK /\ BootOK /\ ClearOK /\ LeftoversExplained

\* The types of what the agent and its clients change, and of the rest.
UType ==
    /\ fds \in [MapNames -> 0..MaxLoads]
    /\ content \in [Insts -> [SessionMaps -> SUBSET Keys]]
    /\ step \in {"down"} \cup Puts \cup Dels \cup Serving
    /\ n \in Nat /\ i \in 0..n /\ (step \in Puts \cup Dels => i = 0 \/ i < n)
    /\ cur \in Clients \cup {NONE}
    /\ backlog \in Seq(Clients)
    /\ client \in [Clients -> {"idle"} \cup Pending]
    /\ aborted \subseteq Insts \X SessionMaps \X Keys
RType ==
    /\ pin \in [MapNames -> 0..MaxLoads]
    /\ rstep \in ReloadSteps /\ inst \in 0..MaxLoads
    /\ loaded \in [Progs -> SUBSET (0..MaxLoads)]
    /\ attached \in [Progs -> SUBSET (0..MaxLoads)]
    /\ clsact \in BOOLEAN /\ stuck \subseteq Progs
    /\ wiped \in BOOLEAN

\* A reload under way has a load left.
RoomOK == rstep \in {"xdp_off", "tc_del", "wipe"} => inst < MaxLoads

AInv == UType /\ SInv
RInv == RType /\ RoomOK

LEMMA Types == TypeOK <=> UType /\ RType
  BY DEF TypeOK, UType, RType

LEMMA InitAInv == Init => AInv /\ RInv
<1> SUFFICES ASSUME Init PROVE AInv /\ RInv
  OBVIOUS
<1>1. MaxLoads \in Nat
  BY AgentAssumption
<1>2. UType
  BY <1>1 DEF Init, UType
<1>3. RInv
  <2>1. pin \in [MapNames -> 0..MaxLoads] /\ inst \in 0..MaxLoads /\ wiped \in BOOLEAN
    <3>1. pin = [m \in MapNames |-> 0] /\ inst = 0 /\ wiped = FALSE
      BY DEF Init
    <3>2. 0 \in 0..MaxLoads
      BY <1>1
    <3>3. wiped \in BOOLEAN
      BY <3>1
    <3> QED BY <3>1, <3>2, <3>3
  <2>2. /\ loaded \in [Progs -> SUBSET (0..MaxLoads)]
        /\ attached \in [Progs -> SUBSET (0..MaxLoads)]
    BY DEF Init
  <2>3. rstep = "idle" /\ clsact = FALSE /\ stuck = {}
    BY DEF Init
  <2>4. clsact \in BOOLEAN
    BY <2>3
  <2> QED BY <2>1, <2>2, <2>3, <2>4 DEF RInv, RType, RoomOK, ReloadSteps
<1>4. JobOK /\ OpenOK /\ BootOK /\ ClearOK
  BY DEF Init, JobOK, OpenOK, BootOK, ClearOK, SessionPuts, Dels, Puts
<1>5. LeftoversExplained
  BY DEF Init, LeftoversExplained, Insts
<1> QED BY <1>2, <1>3, <1>4, <1>5 DEF AInv, SInv

\* The reload changes nothing of the agent's, and the agent nothing of the
\* reload's.
LEMMA ReloadAInv == ASSUME AInv, UNCHANGED uvars PROVE AInv'
<1>1. UNCHANGED <<fds, content, step, i, n, cur, backlog, client, aborted>>
  BY DEF uvars
<1>2. UType'
  BY <1>1 DEF AInv, UType
<1>3. JobOK' /\ OpenOK' /\ BootOK' /\ ClearOK'
  BY <1>1 DEF AInv, SInv, JobOK, OpenOK, BootOK, ClearOK, PutDone, DelDone
<1>4. LeftoversExplained'
  <2>1. InProgress' = InProgress
    BY <1>1 DEF InProgress
  <2> QED BY <1>1, <2>1 DEF AInv, SInv, LeftoversExplained
<1> QED BY <1>2, <1>3, <1>4 DEF AInv, SInv

LEMMA ReloadRInv == ASSUME RInv, ReloadNext PROVE RInv' /\ UNCHANGED uvars
<1> USE AgentAssumption DEF RInv, RType, RoomOK, ReloadSteps
<1>1. CASE ReloadBegin \/ ReloadFails
  BY <1>1 DEF ReloadBegin, ReloadFails
<1>7. CASE XdpOff \/ TcDel
  <2>1. PICK S \in SUBSET Progs : Detach(S) \/ DetachFails(S)
    BY <1>7 DEF XdpOff, TcDel, Progs
  <2>2. attached' \in [Progs -> SUBSET (0..MaxLoads)] /\ stuck' \subseteq Progs
    BY <2>1 DEF Detach, DetachFails
  <2>3. clsact' \in BOOLEAN
    <3>1. clsact' = FALSE \/ clsact' = clsact
      BY <1>7 DEF XdpOff, TcDel
    <3> QED BY <3>1, Zenon
  <2>4. /\ UNCHANGED <<uvars, pin, inst, loaded, wiped>>
        /\ \/ rstep = "xdp_off" /\ rstep' = "tc_del"
           \/ rstep = "tc_del" /\ rstep' = "wipe"
    BY <1>7 DEF XdpOff, TcDel
  <2> QED BY <2>2, <2>3, <2>4
<1>2. ASSUME NEW m \in MapNames, Wipe(m) \/ PinMap(m) PROVE RInv' /\ UNCHANGED uvars
  <2>1. CASE Wipe(m)
    <3>1. pin' = [pin EXCEPT ![m] = 0] /\ wiped' = TRUE /\ UNCHANGED rvars
      BY <2>1 DEF Wipe
    <3> QED BY <2>1, <3>1 DEF Wipe, rvars
  <2>2. CASE PinMap(m)
    <3>1. /\ pin' = [pin EXCEPT ![m] = inst] /\ rstep' \in {"load_tc", "pin"}
          /\ UNCHANGED <<inst, loaded, attached, clsact, stuck, wiped>>
      BY <2>2 DEF PinMap
    <3> QED BY <2>2, <3>1 DEF PinMap
  <2> QED BY <1>2, <2>1, <2>2
<1>3. CASE LoadXdp
  BY <1>3 DEF LoadXdp
<1>4. ASSUME NEW p \in Progs, NEW at \in ReloadSteps, NEW next \in {"load_egress", "attach_xdp"},
             LoadTc(p, at, next)
      PROVE  RInv' /\ UNCHANGED uvars
  <2>1. {pin[m] : m \in MapNames} \in SUBSET (0..MaxLoads)
    OBVIOUS
  <2> QED BY <1>4, <2>1 DEF LoadTc
<1>5. ASSUME NEW p \in Progs, NEW at \in ReloadSteps,
             NEW next \in {"add_clsact", "attach_egress", "idle"}, Attach(p, at, next)
      PROVE  RInv' /\ UNCHANGED uvars
  BY <1>5 DEF Attach
<1>6. \A p \in {"xdp", "tc", "egress"} : p \in Progs
  BY DEF Progs
<1>8. CASE AddClsact
  <2>1. clsact' = TRUE /\ UNCHANGED <<uvars, pin, inst, loaded, attached, stuck, wiped>>
    BY <1>8 DEF AddClsact
  <2>2. clsact' \in BOOLEAN
    BY <2>1
  <2> QED BY <1>8, <2>1, <2>2 DEF AddClsact
<1> QED BY <1>1, <1>2, <1>3, <1>4, <1>5, <1>6, <1>7, <1>8 DEF ReloadNext

LEMMA KeepRInv == ASSUME RInv, UNCHANGED <<pin, rvars, wiped>> PROVE RInv'
  BY DEF RInv, RType, RoomOK, rvars

\* A descriptor stays what it is once it is open.
LEMMA FdType ==
    ASSUME AInv, RInv, NEW m \in MapNames
    PROVE  /\ Fd(m) \in 0..MaxLoads /\ (fds[m] # 0 => Fd(m) = fds[m])
           /\ Fd(m) # 0 => Fd(m) \in Insts
  BY AgentAssumption DEF AInv, RInv, UType, RType, Fd, Insts

LEMMA OpenType ==
    ASSUME AInv, RInv, NEW m \in MapNames, Open(m)
    PROVE  /\ fds' \in [MapNames -> 0..MaxLoads] /\ fds'[m] = Fd(m)
           /\ \A x \in MapNames : fds[x] # 0 => fds'[x] = fds[x]
           /\ \A x \in MapNames \ {m} : fds'[x] = fds[x]
<1>1. fds \in [MapNames -> 0..MaxLoads] /\ fds' = [fds EXCEPT ![m] = Fd(m)]
  BY DEF AInv, UType, Open
<1> QED BY <1>1, FdType

LEMMA SessionMapNames == SessionMaps \subseteq MapNames
  BY DEF MapNames

LEMMA InProgressType == ASSUME AInv PROVE InProgress \subseteq Insts \X SessionMaps \X Keys
<1>1. fds \in [MapNames -> 0..MaxLoads] /\ n \in Nat /\ MaxLoads \in Nat
  BY AgentAssumption DEF AInv, UType
<1>2. ASSUME NEW m \in SessionMaps, fds[m] # 0, NEW j \in 0..(n - 1)
      PROVE  fds[m] \in Insts /\ <<"bench", j>> \in Keys
  BY <1>1, <1>2, SessionMapNames DEF Insts, Keys
<1> QED BY <1>2 DEF InProgress

\* What a measurement cut short leaves is accounted for.
LEMMA CutShort ==
    ASSUME AInv, aborted' = aborted \cup Unremoved, UNCHANGED content
    PROVE  aborted' \subseteq Insts \X SessionMaps \X Keys /\ LeftoversExplained'
<1>1. Unremoved \subseteq InProgress
  BY DEF Unremoved
<1>2. aborted' \subseteq Insts \X SessionMaps \X Keys
  BY <1>1, InProgressType DEF AInv, UType
<1>3. ASSUME NEW z \in Insts, NEW y \in SessionMaps, NEW k \in content[z][y], k[1] = "bench"
      PROVE  <<z, y, k>> \in aborted'
  <2>1. <<z, y, k>> \in aborted \cup InProgress
    BY <1>3 DEF AInv, SInv, LeftoversExplained
  <2>2. <<z, y, k>> \in InProgress => <<z, y, k>> \in Unremoved
    BY DEF Unremoved
  <2> QED BY <2>1, <2>2
<1> QED BY <1>2, <1>3 DEF LeftoversExplained

\* A failed request leaves the sessions as they are, and says so.
LEMMA RaiseAInv ==
    ASSUME AInv, step \in Puts \cup {"read", "dump"}, Raise,
           UNCHANGED <<content, backlog>>, fds' \in [MapNames -> 0..MaxLoads],
           \A m \in MapNames : fds[m] # 0 => fds'[m] = fds[m]
    PROVE  AInv'
<1>1. /\ step' = IF cur = NONE THEN "down" ELSE "listen"
      /\ cur' = NONE /\ i' = 0 /\ n' = 0 /\ aborted' = aborted \cup Unremoved
      /\ client' = IF cur = NONE THEN client ELSE [client EXCEPT ![cur] = "idle"]
  BY DEF Raise
<1>2. step' \in {"down", "listen"} /\ step' \notin SessionPuts \cup Dels \cup Puts \cup {"reply"}
  BY <1>1 DEF SessionPuts, Dels, Puts
<1>3. UType'
  <2>1. client' \in [Clients -> {"idle"} \cup Pending]
    BY <1>1 DEF AInv, UType
  <2>2. step' \in {"down"} \cup Puts \cup Dels \cup Serving /\ n' \in Nat /\ i' \in 0..n'
    BY <1>1, <1>2 DEF Serving
  <2>3. aborted' \subseteq Insts \X SessionMaps \X Keys
    BY <1>1, CutShort
  <2> QED BY <1>1, <1>2, <2>1, <2>2, <2>3 DEF AInv, UType
<1>4. JobOK' /\ OpenOK' /\ ClearOK'
  BY <1>1, <1>2 DEF JobOK, OpenOK, ClearOK
<1>5. BootOK'
  <2>1. cur # NONE => \A m \in SessionMaps : \A j \in 0..(Initial - 1) :
                        fds'[m] # 0 /\ <<"boot", j>> \in content[fds'[m]][m]
    BY SessionMapNames DEF AInv, SInv, BootOK
  <2> QED BY <1>1, <1>2, <2>1 DEF BootOK
<1>6. LeftoversExplained'
  BY <1>1, CutShort
<1> QED BY <1>3, <1>4, <1>5, <1>6 DEF AInv, SInv

LEMMA AnswerAInv ==
    ASSUME AInv, step \in {"read", "dump", "reply"}, Answer,
           UNCHANGED <<fds, content, backlog>>, aborted' \subseteq aborted, LeftoversExplained'
    PROVE  AInv'
<1>1. /\ step' = "listen" /\ cur' = NONE /\ i' = 0 /\ n' = 0
      /\ client' = [client EXCEPT ![cur] = "idle"]
  BY DEF Answer
<1>2. cur # NONE
  BY DEF AInv, SInv, JobOK, Puts
<1>3. step' \notin SessionPuts \cup Dels \cup Puts \cup {"reply"}
  BY <1>1 DEF SessionPuts, Dels, Puts
<1>4. UType'
  <2>1. client' \in [Clients -> {"idle"} \cup Pending]
    BY <1>1 DEF AInv, UType
  <2>2. step' \in {"down"} \cup Puts \cup Dels \cup Serving /\ n' \in Nat /\ i' \in 0..n'
    BY <1>1 DEF Serving
  <2> QED BY <1>1, <1>3, <2>1, <2>2 DEF AInv, UType
<1>5. JobOK' /\ OpenOK' /\ ClearOK'
  BY <1>1, <1>3 DEF JobOK, OpenOK, ClearOK
<1>6. BootOK'
  BY <1>1, <1>2, <1>3 DEF AInv, SInv, BootOK
<1> QED BY <1>4, <1>5, <1>6 DEF AInv, SInv

\* Where the loops go: one map operation further.
LEMMA PutProgress ==
    ASSUME UType, step \in SessionPuts, i < n, n' = n, Advance(step)
    PROVE  /\ MapOf(step) \in SessionMaps /\ PutDone(MapOf(step)) = i
           /\ \/ /\ step' \in SessionPuts /\ i' \in Nat /\ i' < n
                 /\ \A m \in SessionMaps :
                      PutDone(m)' = PutDone(m) + IF m = MapOf(step) THEN 1 ELSE 0
              \/ /\ step' = (IF cur = NONE THEN "listen" ELSE "del_teid") /\ i' = 0
                 /\ \A m \in SessionMaps : n = PutDone(m) + IF m = MapOf(step) THEN 1 ELSE 0
<1>1. i \in Nat /\ n \in Nat
  BY DEF UType
<1>2. CASE step = "put_pdr"
  <2>1. MapOf(step) = "pdr_table" /\ step' = "put_bundle" /\ i' = i
    BY <1>2 DEF MapOf, Advance
  <2> QED BY <1>1, <1>2, <2>1 DEF PutDone, SessionMaps, SessionPuts
<1>3. CASE step = "put_bundle"
  <2>1. MapOf(step) = "tc_bundle_map" /\ step' = "put_teid" /\ i' = i
    BY <1>3 DEF MapOf, Advance
  <2> QED BY <1>1, <1>3, <2>1 DEF PutDone, SessionMaps, SessionPuts
<1>4. CASE step = "put_teid"
  <2>1. /\ MapOf(step) = "teid_session"
        /\ IF i + 1 < n THEN step' = "put_pdr" /\ i' = i + 1
           ELSE step' = (IF cur = NONE THEN "listen" ELSE "del_teid") /\ i' = 0
    BY <1>4 DEF MapOf, Advance, Again
  <2>2. CASE i + 1 < n
    BY <1>1, <1>4, <2>1, <2>2 DEF PutDone, SessionMaps, SessionPuts
  <2>3. CASE ~(i + 1 < n)
    BY <1>1, <1>4, <2>1, <2>3 DEF PutDone, SessionMaps
  <2> QED BY <2>2, <2>3
<1> QED BY <1>2, <1>3, <1>4 DEF SessionPuts

LEMMA DelProgress ==
    ASSUME UType, step \in Dels, i < n, n' = n, Advance(step)
    PROVE  /\ MapOf(step) \in SessionMaps /\ DelDone(MapOf(step)) = i
           /\ \A m \in SessionMaps :
                DelDone(m)' = DelDone(m) + IF m = MapOf(step) THEN 1 ELSE 0
           /\ \/ step' \in Dels /\ i' \in Nat /\ i' < n
              \/ step' = "reply" /\ i' = 0
<1>1. i \in Nat /\ n \in Nat
  BY DEF UType
<1>2. CASE step = "del_teid"
  <2>1. MapOf(step) = "teid_session" /\ step' = "del_pdr" /\ i' = i
    BY <1>2 DEF MapOf, Advance
  <2> QED BY <1>1, <1>2, <2>1 DEF DelDone, SessionMaps, Dels
<1>3. CASE step = "del_pdr"
  <2>1. MapOf(step) = "pdr_table" /\ step' = "del_bundle" /\ i' = i
    BY <1>3 DEF MapOf, Advance
  <2> QED BY <1>1, <1>3, <2>1 DEF DelDone, SessionMaps, Dels
<1>4. CASE step = "del_bundle"
  <2>1. /\ MapOf(step) = "tc_bundle_map"
        /\ IF i + 1 < n THEN step' = "del_teid" /\ i' = i + 1 ELSE step' = "reply" /\ i' = 0
    BY <1>4 DEF MapOf, Advance, Again
  <2>2. CASE i + 1 < n
    BY <1>1, <1>4, <2>1, <2>2 DEF DelDone, SessionMaps, Dels
  <2>3. CASE ~(i + 1 < n)
    BY <1>1, <1>4, <2>1, <2>3 DEF DelDone, SessionMaps
  <2> QED BY <2>2, <2>3
<1> QED BY <1>2, <1>3, <1>4 DEF Dels

\* install_far and install_qer.
LEMMA PutRulesAInv ==
    ASSUME AInv, RInv, step \in {"put_far", "put_qer"}, Fd(MapOf(step)) # 0,
           Open(MapOf(step)), Write(MapOf(step)), Advance(step),
           UNCHANGED <<n, cur, client, aborted, backlog>>
    PROVE  AInv'
<1>0. UType /\ SInv
  BY DEF AInv
<1>1. MapOf(step) \in {"far_table", "qer_table"}
  BY DEF MapOf
<1>2. MapOf(step) \in MapNames /\ UNCHANGED content
  BY <1>1 DEF Write, MapNames, SessionMaps
<1>3. cur = NONE /\ n = Initial /\ n \in Nat
  BY <1>0 DEF SInv, JobOK, SessionPuts, Dels, Serving, Puts, UType
<1>4. i' = 0 /\ step' \in {"put_qer", "put_pdr", "listen"}
      /\ (step' = "listen" => n = 0) /\ (step' = "put_pdr" => n # 0)
  <2>1. CASE step = "put_far"
    BY <2>1 DEF Advance
  <2>2. CASE step = "put_qer"
    BY <2>2 DEF Advance
  <2> QED BY <2>1, <2>2
<1>5. step' \notin Dels \cup {"reply"} /\ (step' \in SessionPuts => step' = "put_pdr")
  BY <1>4 DEF Dels, SessionPuts
<1>6. UType'
  <2>1. step' \in {"down"} \cup Puts \cup Dels \cup Serving /\ i' \in 0..n'
    BY <1>3, <1>4 DEF Puts, Serving
  <2> QED BY <1>0, <1>2, <1>4, <2>1, OpenType DEF UType
<1>7. JobOK'
  BY <1>3, <1>4, <1>5 DEF JobOK, Puts
<1>8. step' = "put_pdr" => \A m \in SessionMaps : PutDone(m)' = 0
  BY <1>4 DEF PutDone
<1>9. OpenOK' /\ ClearOK'
  BY <1>5, <1>8 DEF OpenOK, ClearOK
<1>10. BootOK'
  BY <1>3, <1>4, <1>5, <1>8 DEF BootOK
<1>11. LeftoversExplained'
  <2>1. InProgress = {} /\ InProgress' = {}
    BY <1>3 DEF InProgress
  <2> QED BY <1>0, <1>2, <2>1 DEF SInv, LeftoversExplained
<1> QED BY <1>6, <1>7, <1>9, <1>10, <1>11 DEF AInv, SInv

\* One map_update of install_session.
LEMMA PutSessionAInv ==
    ASSUME AInv, RInv, step \in SessionPuts, Fd(MapOf(step)) # 0,
           Open(MapOf(step)), Write(MapOf(step)), Advance(step),
           UNCHANGED <<n, cur, client, aborted, backlog>>
    PROVE  AInv'
<1> DEFINE m == MapOf(step)
           x == Fd(m)
<1>0. UType /\ JobOK /\ OpenOK /\ BootOK /\ LeftoversExplained
  BY DEF AInv, SInv
<1>1. i \in Nat /\ n \in Nat /\ i < n
  BY <1>0 DEF UType, JobOK
<1>2. m \in SessionMaps /\ PutDone(m) = i
  BY <1>0, <1>1, PutProgress
<1>3. \/ /\ step' \in SessionPuts /\ i' \in Nat /\ i' < n
         /\ \A y \in SessionMaps : PutDone(y)' = PutDone(y) + IF y = m THEN 1 ELSE 0
      \/ /\ step' = (IF cur = NONE THEN "listen" ELSE "del_teid") /\ i' = 0
         /\ \A y \in SessionMaps : n = PutDone(y) + IF y = m THEN 1 ELSE 0
  BY <1>0, <1>1, PutProgress
<1>4. \A y \in SessionMaps : PutDone(y) \in Nat
  BY <1>1 DEF PutDone
<1>5. x \in Insts /\ m \in MapNames
  BY <1>2, FdType, SessionMapNames
<1>6. /\ fds' \in [MapNames -> 0..MaxLoads] /\ fds'[m] = x /\ x # 0
      /\ \A y \in SessionMaps : fds[y] # 0 => fds'[y] = fds[y]
  BY <1>5, OpenType, SessionMapNames
<1>7. Key \in Keys /\ Key = IF cur = NONE THEN <<"boot", i>> ELSE <<"bench", i>>
  BY <1>1 DEF Key, Keys
<1>8. /\ content' \in [Insts -> [SessionMaps -> SUBSET Keys]]
      /\ content'[x][m] = content[x][m] \cup {Key}
      /\ \A z \in Insts, y \in SessionMaps : content[z][y] \subseteq content'[z][y]
      /\ \A z \in Insts, y \in SessionMaps :
           \A k \in content'[z][y] : k \in content[z][y] \/ (z = x /\ y = m /\ k = Key)
  <2>1. content' = [content EXCEPT ![x] = [content[x] EXCEPT ![m] = content[x][m] \cup {Key}]]
    BY <1>0, <1>2, <1>5 DEF Write, UType
  <2>2. content \in [Insts -> [SessionMaps -> SUBSET Keys]]
    BY <1>0 DEF UType
  <2> HIDE DEF x, m
  <2>3. content'[x] = [content[x] EXCEPT ![m] = content[x][m] \cup {Key}]
        /\ \A z \in Insts \ {x} : content'[z] = content[z]
    BY <1>5, <2>1, <2>2
  <2>4. content'[x][m] = content[x][m] \cup {Key}
        /\ \A y \in SessionMaps \ {m} : content'[x][y] = content[x][y]
    BY <1>2, <1>5, <2>2, <2>3
  <2>5. [content[x] EXCEPT ![m] = content[x][m] \cup {Key}] \in [SessionMaps -> SUBSET Keys]
    BY <1>2, <1>5, <1>7, <2>2
  <2>6. content' \in [Insts -> [SessionMaps -> SUBSET Keys]]
    BY <2>1, <2>2, <2>5
  <2> QED BY <1>5, <2>3, <2>4, <2>6
<1>9. \A y \in SessionMaps : fds[y] # 0 => fds[y] \in Insts
  BY <1>0, SessionMapNames, AgentAssumption DEF UType, Insts
<1> HIDE DEF x, m
<1>10. UType'
  <2>1. step' \in {"down"} \cup Puts \cup Dels \cup Serving
    BY <1>3 DEF SessionPuts, Puts, Dels, Serving
  <2>2. i' \in 0..n' /\ (step' \in Puts \cup Dels => i' = 0 \/ i' < n')
    BY <1>1, <1>3
  <2> QED BY <1>0, <1>6, <1>8, <2>1, <2>2 DEF UType
<1>11. JobOK'
  <2>1. step' \in SessionPuts \cup Dels => i' < n'
    BY <1>1, <1>3
  <2>2. cur = NONE => n = Initial /\ step' \in {"listen"} \cup Puts
    BY <1>0, <1>3 DEF JobOK, SessionPuts, Puts
  <2>3. cur # NONE => step' \in SessionPuts \cup Dels
    BY <1>3 DEF Dels
  <2> QED BY <2>1, <2>2, <2>3 DEF JobOK
\* The session is in the map m, the earlier ones are where they were.
<1>12. \A y \in SessionMaps : PutDone(y) > 0 => fds[y] # 0
  BY <1>0 DEF OpenOK
<1>13. \A y \in SessionMaps : \A j \in Nat :
         j < PutDone(y) + (IF y = m THEN 1 ELSE 0) =>
           /\ fds'[y] # 0
           /\ cur = NONE => <<"boot", j>> \in content'[fds'[y]][y]
  <2> SUFFICES ASSUME NEW y \in SessionMaps, NEW j \in Nat,
                      j < PutDone(y) + (IF y = m THEN 1 ELSE 0)
               PROVE  /\ fds'[y] # 0
                      /\ cur = NONE => <<"boot", j>> \in content'[fds'[y]][y]
    OBVIOUS
  <2>1. CASE j < PutDone(y)
    <3>1. fds[y] # 0 /\ fds'[y] = fds[y] /\ fds[y] \in Insts
      BY <1>4, <1>6, <1>9, <1>12, <2>1
    <3>2. cur = NONE => <<"boot", j>> \in content[fds[y]][y]
      BY <1>0, <1>4, <2>1 DEF BootOK
    <3> QED BY <1>8, <3>1, <3>2
  <2>2. CASE ~(j < PutDone(y))
    <3>1. y = m /\ j = i
      BY <1>2, <1>4, <2>2
    <3> QED BY <1>6, <1>7, <1>8, <3>1
  <2> QED BY <2>1, <2>2
<1>14. OpenOK'
  <2>0. \A y \in SessionMaps : PutDone(y) + (IF y = m THEN 1 ELSE 0) > 0 => fds'[y] # 0
    <3> SUFFICES ASSUME NEW y \in SessionMaps, PutDone(y) + (IF y = m THEN 1 ELSE 0) > 0
                 PROVE  fds'[y] # 0
      OBVIOUS
    <3>1. 0 \in Nat /\ 0 < PutDone(y) + (IF y = m THEN 1 ELSE 0)
      BY <1>4
    <3> QED BY <1>13, <3>1
  <2>1. step' \in SessionPuts => \A y \in SessionMaps : PutDone(y)' > 0 => fds'[y] # 0
    <3>1. step' \in SessionPuts =>
            \A y \in SessionMaps : PutDone(y)' = PutDone(y) + IF y = m THEN 1 ELSE 0
      BY <1>3 DEF SessionPuts
    <3> QED BY <2>0, <3>1
  <2>2. step' \in Dels \cup {"reply"} => \A y \in SessionMaps : fds'[y] # 0
    <3>1. step' \in Dels \cup {"reply"} =>
            \A y \in SessionMaps : n = PutDone(y) + IF y = m THEN 1 ELSE 0
      BY <1>3 DEF SessionPuts, Dels
    <3>2. n > 0
      BY <1>1
    <3> QED BY <2>0, <3>1, <3>2
  <2> QED BY <2>1, <2>2 DEF OpenOK
<1>15. BootOK'
  <2>1. ASSUME cur = NONE, step' \in SessionPuts
        PROVE  \A y \in SessionMaps : \A j \in 0..(PutDone(y)' - 1) :
                 <<"boot", j>> \in content'[fds'[y]][y]
    <3> SUFFICES ASSUME NEW y \in SessionMaps, NEW j \in 0..(PutDone(y)' - 1)
                 PROVE  <<"boot", j>> \in content'[fds'[y]][y]
      OBVIOUS
    <3>1. PutDone(y)' = PutDone(y) + IF y = m THEN 1 ELSE 0
      BY <1>3, <2>1 DEF SessionPuts
    <3>2. j \in Nat /\ j < PutDone(y) + IF y = m THEN 1 ELSE 0
      BY <1>4, <3>1
    <3> QED BY <1>13, <2>1, <3>2
  <2>2. ASSUME cur = NONE, step' = "listen", NEW y \in SessionMaps, NEW j \in 0..(Initial - 1)
        PROVE  fds'[y] # 0 /\ <<"boot", j>> \in content'[fds'[y]][y]
    <3>1. n = Initial
      BY <1>0, <2>2 DEF JobOK, SessionPuts, Puts
    <3>2. n = PutDone(y) + IF y = m THEN 1 ELSE 0
      BY <1>3, <2>2 DEF SessionPuts
    <3>3. j \in Nat /\ j < PutDone(y) + IF y = m THEN 1 ELSE 0
      BY <1>1, <3>1, <3>2
    <3> QED BY <1>13, <2>2, <3>3
  <2>3. ASSUME cur # NONE, NEW y \in SessionMaps, NEW j \in 0..(Initial - 1)
        PROVE  fds'[y] # 0 /\ <<"boot", j>> \in content'[fds'[y]][y]
    <3>1. fds[y] # 0 /\ <<"boot", j>> \in content[fds[y]][y]
      BY <1>0, <2>3 DEF BootOK
    <3> QED BY <1>6, <1>8, <1>9, <3>1
  <2> QED BY <2>1, <2>2, <2>3 DEF BootOK
<1>16. ClearOK'
  <2>1. step' \in Dels \cup {"reply"} => step' = "del_teid" /\ i' = 0
    BY <1>3 DEF SessionPuts, Dels
  <2>2. step' = "del_teid" /\ i' = 0 => \A y \in SessionMaps : DelDone(y)' = 0
    BY DEF DelDone
  <2> QED BY <2>1, <2>2 DEF ClearOK
<1>17. LeftoversExplained'
  <2> SUFFICES ASSUME NEW z \in Insts, NEW y \in SessionMaps, NEW k \in content'[z][y],
                      k[1] = "bench"
               PROVE  <<z, y, k>> \in aborted' \cup InProgress'
    BY DEF LeftoversExplained
  <2>1. InProgress \subseteq InProgress'
    <3>1. CASE cur = NONE
      BY <3>1 DEF InProgress
    <3>2. CASE cur # NONE
      <4>1. step' \in Puts \cup Dels
        BY <1>3, <3>2 DEF SessionPuts, Puts, Dels
      <4>2. \A u \in SessionMaps : fds[u] # 0 => fds'[u] = fds[u]
        BY <1>6
      <4> QED BY <3>2, <4>1, <4>2 DEF InProgress
    <3> QED BY <3>1, <3>2
  <2>2. CASE k \in content[z][y]
    BY <1>0, <2>1, <2>2 DEF LeftoversExplained
  <2>3. CASE z = x /\ y = m /\ k = Key
    <3>1. cur # NONE /\ k = <<"bench", i>>
      BY <1>7, <2>3
    <3>2. step' \in Puts \cup Dels
      BY <1>3, <3>1 DEF SessionPuts, Puts, Dels
    <3>3. i \in 0..(n - 1)
      BY <1>1
    <3> QED BY <1>2, <1>6, <2>3, <3>1, <3>2, <3>3 DEF InProgress
  <2> QED BY <1>8, <2>2, <2>3
<1> QED BY <1>10, <1>11, <1>14, <1>15, <1>16, <1>17 DEF AInv, SInv

\* One map_delete of the removal loop.  Every descriptor is open by then.
LEMMA DeleteAInv == ASSUME AInv, RInv, Delete PROVE AInv'
<1> DEFINE m == MapOf(step)
           x == fds[m]
<1>0. UType /\ JobOK /\ OpenOK /\ BootOK /\ ClearOK /\ LeftoversExplained
  BY DEF AInv, SInv
<1>1. /\ step \in Dels /\ Open(m) /\ Advance(step)
      /\ content' = IF Fd(m) = 0 THEN content ELSE [content EXCEPT ![Fd(m)][m] = @ \ {Key}]
      /\ aborted' = aborted \ {<<Fd(m), m, Key>>}
      /\ UNCHANGED <<n, cur, backlog, client>>
  BY DEF Delete, hvars
<1>2. i \in Nat /\ n \in Nat /\ i < n
  BY <1>0, <1>1 DEF UType, JobOK
<1>3. /\ m \in SessionMaps /\ DelDone(m) = i
      /\ \A y \in SessionMaps : DelDone(y)' = DelDone(y) + IF y = m THEN 1 ELSE 0
      /\ \/ step' \in Dels /\ i' \in Nat /\ i' < n
         \/ step' = "reply" /\ i' = 0
  BY <1>0, <1>1, <1>2, DelProgress
<1>4. \A y \in SessionMaps : DelDone(y) \in Nat
  BY <1>2 DEF DelDone
<1>5. m \in MapNames /\ \A y \in SessionMaps : fds[y] # 0 /\ fds[y] \in Insts
  BY <1>0, <1>1, <1>3, SessionMapNames, AgentAssumption DEF OpenOK, UType, Insts
<1>6. Fd(m) = x /\ x # 0 /\ x \in Insts
  BY <1>3, <1>5 DEF Fd
<1>7. fds' = fds
  BY <1>0, <1>1, <1>5, <1>6 DEF Open, UType
<1>8. cur # NONE /\ Key = <<"bench", i>>
  BY <1>0, <1>1 DEF JobOK, Dels, Puts, Key
<1>9. /\ content' \in [Insts -> [SessionMaps -> SUBSET Keys]]
      /\ content'[x][m] = content[x][m] \ {Key}
      /\ \A z \in Insts, y \in SessionMaps : content'[z][y] \subseteq content[z][y]
      /\ \A z \in Insts, y \in SessionMaps :
           \A k \in content[z][y] : k # Key => k \in content'[z][y]
  <2>1. content' = [content EXCEPT ![x] = [content[x] EXCEPT ![m] = content[x][m] \ {Key}]]
    BY <1>1, <1>6
  <2>2. content \in [Insts -> [SessionMaps -> SUBSET Keys]]
    BY <1>0 DEF UType
  <2> HIDE DEF x, m
  <2>3. content'[x] = [content[x] EXCEPT ![m] = content[x][m] \ {Key}]
        /\ \A z \in Insts \ {x} : content'[z] = content[z]
    BY <1>6, <2>1, <2>2
  <2>4. content'[x][m] = content[x][m] \ {Key}
        /\ \A y \in SessionMaps \ {m} : content'[x][y] = content[x][y]
    BY <1>3, <1>6, <2>2, <2>3
  <2>5. [content[x] EXCEPT ![m] = content[x][m] \ {Key}] \in [SessionMaps -> SUBSET Keys]
    BY <1>3, <1>6, <2>2
  <2>6. content' \in [Insts -> [SessionMaps -> SUBSET Keys]]
    BY <2>1, <2>2, <2>5
  <2> QED BY <1>6, <2>3, <2>4, <2>6
<1> HIDE DEF m
<1>10. step' \in Dels \cup {"reply"} /\ step' \notin SessionPuts \cup Puts \cup {"listen"}
  BY <1>3 DEF Dels, SessionPuts, Puts
<1>11. UType'
  <2>1. step' \in {"down"} \cup Puts \cup Dels \cup Serving
    BY <1>3 DEF Serving
  <2>2. i' \in 0..n' /\ (step' \in Puts \cup Dels => i' = 0 \/ i' < n')
    BY <1>1, <1>2, <1>3
  <2>3. aborted' \subseteq Insts \X SessionMaps \X Keys
    BY <1>0, <1>1 DEF UType
  <2> QED BY <1>0, <1>1, <1>7, <1>9, <2>1, <2>2, <2>3 DEF UType
<1>12. JobOK' /\ OpenOK'
  <2>1. step' = "reply" => step' \in Serving \ {"listen"}
    BY DEF Serving
  <2>2. step' \in Dels => i' < n'
    BY <1>1, <1>3 DEF Dels
  <2> QED BY <1>1, <1>5, <1>7, <1>8, <1>10, <2>1, <2>2 DEF JobOK, OpenOK
<1>13. BootOK'
  <2>1. ASSUME NEW y \in SessionMaps, NEW j \in 0..(Initial - 1)
        PROVE  fds'[y] # 0 /\ <<"boot", j>> \in content'[fds'[y]][y]
    <3>1. <<"boot", j>> \in content[fds[y]][y] /\ <<"boot", j>> # Key
      BY <1>0, <1>8 DEF BootOK
    <3> QED BY <1>5, <1>7, <1>9, <3>1
  <2> QED BY <1>1, <1>8, <2>1 DEF BootOK
<1>14. ClearOK'
  <2> SUFFICES ASSUME NEW y \in SessionMaps, NEW j \in 0..(DelDone(y)' - 1)
               PROVE  <<"bench", j>> \notin content'[fds'[y]][y]
    BY DEF ClearOK
  <2>1. j \in Nat /\ j < DelDone(y) + IF y = m THEN 1 ELSE 0
    BY <1>3, <1>4
  <2>2. CASE j < DelDone(y)
    <3>1. j \in 0..(DelDone(y) - 1)
      BY <1>4, <2>1, <2>2
    <3>2. <<"bench", j>> \notin content[fds[y]][y]
      BY <1>0, <1>1, <3>1 DEF ClearOK
    <3> QED BY <1>5, <1>7, <1>9, <3>2
  <2>3. CASE ~(j < DelDone(y))
    <3>1. y = m /\ j = i
      BY <1>3, <1>4, <2>1, <2>3
    <3> QED BY <1>7, <1>8, <1>9, <3>1
  <2> QED BY <2>2, <2>3
<1>15. LeftoversExplained'
  <2> SUFFICES ASSUME NEW z \in Insts, NEW y \in SessionMaps, NEW k \in content'[z][y],
                      k[1] = "bench"
               PROVE  <<z, y, k>> \in aborted' \cup InProgress'
    BY DEF LeftoversExplained
  <2>1. <<z, y, k>> \in aborted \cup InProgress
    BY <1>0, <1>9 DEF LeftoversExplained
  <2>4. <<z, y, k>> \in aborted => <<z, y, k>> \in aborted'
    <3>1. ~(z = x /\ y = m /\ k = Key)
      BY <1>9
    <3> QED BY <1>1, <1>6, <3>1
  <2>2. CASE step' \in Dels
    <3>1. InProgress' = InProgress
      BY <1>1, <1>7, <1>8, <2>2 DEF InProgress
    <3> QED BY <2>1, <2>4, <3>1
  <2>3. CASE step' = "reply"
    <3>1. ASSUME <<z, y, k>> \in InProgress PROVE FALSE
      <4>1. PICK u \in SessionMaps, j \in 0..(n - 1) : <<z, y, k>> = <<fds[u], u, <<"bench", j>>>>
        BY <1>1, <1>8, <3>1 DEF InProgress
      <4>2. DelDone(y)' = n
        BY <1>1, <2>3 DEF DelDone
      <4>3. z = fds'[y] /\ k = <<"bench", j>> /\ j \in 0..(DelDone(y)' - 1)
        BY <1>7, <4>1, <4>2
      <4> QED BY <1>10, <1>14, <4>3 DEF ClearOK
    <3> QED BY <2>1, <2>4, <3>1
  <2> QED BY <1>10, <2>2, <2>3
<1> QED BY <1>11, <1>12, <1>13, <1>14, <1>15 DEF AInv, SInv

LEMMA PutAInv == ASSUME AInv, RInv, Put PROVE AInv'
<1> DEFINE m == MapOf(step)
<1>1. step \in Puts /\ UNCHANGED backlog
  BY DEF Put
<1>2. m \in MapNames
  BY <1>1 DEF Puts, MapOf, MapNames, SessionMaps
<1>3. CASE Fd(m) = 0 /\ Raise /\ UNCHANGED <<fds, content>>
  <2>1. fds \in [MapNames -> 0..MaxLoads]
    BY DEF AInv, UType
  <2> QED BY <1>1, <1>3, <2>1, RaiseAInv
<1>4. CASE Open(m) /\ Raise /\ UNCHANGED content
  BY <1>1, <1>2, <1>4, OpenType, RaiseAInv
<1>5. CASE /\ Fd(m) # 0 /\ Open(m) /\ Write(m) /\ Advance(step)
           /\ UNCHANGED <<n, cur, client, aborted>>
  <2>1. step \in {"put_far", "put_qer"} \cup SessionPuts
    BY <1>1 DEF Puts, SessionPuts
  <2>2. CASE step \in {"put_far", "put_qer"}
    BY <1>1, <1>5, <2>2, PutRulesAInv
  <2>3. CASE step \in SessionPuts
    BY <1>1, <1>5, <2>3, PutSessionAInv
  <2> QED BY <2>1, <2>2, <2>3
<1> QED BY <1>3, <1>4, <1>5 DEF Put

\* A new process: what no one holds any more goes, with its history.
LEMMA StartAInv == ASSUME AInv, Start PROVE AInv'
<1>0. UType /\ JobOK /\ LeftoversExplained
  BY DEF AInv, SInv
<1>1. /\ step = "down" /\ step' = "put_far" /\ i' = 0 /\ n' = Initial
      /\ fds' = [m \in MapNames |-> 0]
      /\ content' = [x \in Insts |-> IF x \in Held THEN content[x]
                                     ELSE [m \in SessionMaps |-> {}]]
      /\ aborted' = {e \in aborted : e[1] \in Held}
      /\ UNCHANGED <<cur, backlog, client>>
  BY DEF Start, hvars
<1>2. cur = NONE
  BY <1>0, <1>1 DEF JobOK, SessionPuts, Dels, Serving
<1>3. step' \in Puts /\ step' \notin SessionPuts \cup Dels \cup {"reply", "listen"}
  BY <1>1 DEF Puts, SessionPuts, Dels
<1>4. UType'
  <2>1. fds' \in [MapNames -> 0..MaxLoads] /\ n' \in Nat /\ i' \in 0..n'
    BY <1>1, AgentAssumption
  <2>2. content' \in [Insts -> [SessionMaps -> SUBSET Keys]]
    BY <1>0, <1>1 DEF UType
  <2>3. aborted' \subseteq aborted
    BY <1>1
  <2> QED BY <1>0, <1>1, <1>3, <2>1, <2>2, <2>3 DEF UType
<1>5. JobOK' /\ OpenOK' /\ BootOK' /\ ClearOK'
  BY <1>1, <1>2, <1>3 DEF JobOK, OpenOK, BootOK, ClearOK
<1>6. LeftoversExplained'
  <2> SUFFICES ASSUME NEW z \in Insts, NEW y \in SessionMaps, NEW k \in content'[z][y],
                      k[1] = "bench"
               PROVE  <<z, y, k>> \in aborted'
    BY DEF LeftoversExplained
  <2>1. z \in Held /\ k \in content[z][y]
    BY <1>1
  <2>2. <<z, y, k>> \in aborted
    BY <1>0, <1>2, <2>1 DEF LeftoversExplained, InProgress
  <2> QED BY <1>1, <2>1, <2>2
<1> QED BY <1>4, <1>5, <1>6 DEF AInv, SInv

\* A process killed in a measurement leaves what it has in progress.
LEMMA CrashAInv == ASSUME AInv, Crash PROVE AInv'
<1>1. /\ step' = "down" /\ cur' = NONE /\ backlog' = <<>> /\ i' = 0 /\ n' = 0
      /\ client' = [k \in Clients |-> "idle"] /\ aborted' = aborted \cup Unremoved
      /\ fds' = [m \in MapNames |-> 0] /\ UNCHANGED content
  BY DEF Crash
<1>2. step' \notin Puts \cup SessionPuts \cup Dels \cup {"reply", "listen"}
  BY <1>1 DEF Puts, SessionPuts, Dels
<1>3. UType'
  <2>1. fds' \in [MapNames -> 0..MaxLoads] /\ n' \in Nat /\ i' \in 0..n'
    BY <1>1, AgentAssumption
  <2>2. aborted' \subseteq Insts \X SessionMaps \X Keys
    BY <1>1, CutShort
  <2>3. backlog' \in Seq(Clients) /\ client' \in [Clients -> {"idle"} \cup Pending]
    BY <1>1
  <2> QED BY <1>1, <1>2, <2>1, <2>2, <2>3 DEF AInv, UType
<1>4. JobOK' /\ OpenOK' /\ BootOK' /\ ClearOK'
  BY <1>1, <1>2 DEF JobOK, OpenOK, BootOK, ClearOK
<1>5. LeftoversExplained'
  BY <1>1, CutShort
<1> QED BY <1>3, <1>4, <1>5 DEF AInv, SInv

\* The clients touch only their connections.
LEMMA ClientAInv == ASSUME AInv, ClientNext PROVE AInv'
<1> PICK k \in Clients : Connect(k) \/ Send(k)
  BY DEF ClientNext
<1>1. UNCHANGED <<fds, content, step, i, n, cur, aborted>>
  BY DEF Connect, Send, avars
<1>2. backlog' \in Seq(Clients) /\ client' \in [Clients -> {"idle"} \cup Pending]
  <2>1. backlog \in Seq(Clients) /\ client \in [Clients -> {"idle"} \cup Pending]
    BY DEF AInv, UType
  <2>2. CASE Connect(k)
    <3>1. backlog' = Append(backlog, k) /\ client' = [client EXCEPT ![k] = "connected"]
      BY <2>2 DEF Connect
    <3> QED BY <2>1, <3>1 DEF Pending
  <2>3. CASE Send(k)
    <3>1. backlog' = backlog /\ client' = [client EXCEPT ![k] = "sent"]
      BY <2>3 DEF Send
    <3> QED BY <2>1, <3>1 DEF Pending
  <2> QED BY <2>2, <2>3
<1>3. UType'
  BY <1>1, <1>2 DEF AInv, UType
<1>4. JobOK' /\ OpenOK' /\ BootOK' /\ ClearOK'
  BY <1>1 DEF AInv, SInv, JobOK, OpenOK, BootOK, ClearOK, PutDone, DelDone
<1>5. LeftoversExplained'
  <2>1. InProgress' = InProgress
    BY <1>1 DEF InProgress
  <2> QED BY <1>1, <2>1 DEF AInv, SInv, LeftoversExplained
<1> QED BY <1>3, <1>4, <1>5 DEF AInv, SInv

LEMMA AcceptAInv == ASSUME AInv, Accept PROVE AInv'
<1>0. UType /\ JobOK /\ BootOK /\ LeftoversExplained
  BY DEF AInv, SInv
<1>1. /\ step = "listen" /\ backlog # <<>> /\ step' = "read"
      /\ cur' = Head(backlog) /\ backlog' = Tail(backlog)
      /\ UNCHANGED <<fds, content, i, n, client, aborted>>
  BY DEF Accept
<1>2. cur' \in Clients /\ cur' # NONE /\ backlog' \in Seq(Clients)
  BY <1>0, <1>1, AgentAssumption DEF UType
<1>3. step' \notin Puts \cup SessionPuts \cup Dels \cup {"reply", "listen"}
      /\ step \notin Puts \cup Dels /\ step' \in Serving
  BY <1>1 DEF Puts, SessionPuts, Dels, Serving
<1>4. UType'
  BY <1>0, <1>1, <1>2, <1>3 DEF UType
<1>5. JobOK' /\ OpenOK' /\ BootOK' /\ ClearOK'
  BY <1>0, <1>1, <1>2, <1>3 DEF JobOK, OpenOK, BootOK, ClearOK
<1>6. LeftoversExplained'
  <2>1. InProgress = {}
    BY <1>3 DEF InProgress
  <2> QED BY <1>0, <1>1, <2>1 DEF LeftoversExplained
<1> QED BY <1>4, <1>5, <1>6 DEF AInv, SInv

\* A request for metrics, or a measurement of m sessions.
LEMMA BeginAInv ==
    ASSUME AInv, step = "read", UNCHANGED <<fds, content, backlog, cur, client, aborted>>,
           \/ step' = "dump" /\ UNCHANGED <<i, n>>
           \/ step' = "put_pdr" /\ i' = 0 /\ n' \in Ns
    PROVE  AInv'
<1>0. UType /\ JobOK /\ BootOK /\ LeftoversExplained
  BY DEF AInv, SInv
<1>1. cur # NONE /\ step \notin Puts \cup Dels
  BY <1>0 DEF JobOK, Puts, Dels
<1>2. step' \notin Dels \cup {"reply", "listen"} /\ (step' \in Puts => step' = "put_pdr")
      /\ step' \in SessionPuts \cup (Serving \ {"listen"})
      /\ (step' \in SessionPuts => step' = "put_pdr")
  BY DEF Puts, SessionPuts, Dels, Serving
<1>3. step' = "put_pdr" => n' \in Nat /\ 0 < n' /\ i' = 0
  <2>1. \A m \in Ns : m \in Nat /\ 0 < m
    BY AgentAssumption
  <2> QED BY <2>1
<1>4. UType'
  <2>1. n' \in Nat /\ i' \in 0..n' /\ (step' \in Puts \cup Dels => i' = 0 \/ i' < n')
    BY <1>0, <1>2, <1>3 DEF UType
  <2>2. step' \in {"down"} \cup Puts \cup Dels \cup Serving
    BY DEF Puts, Serving
  <2> QED BY <1>0, <2>1, <2>2 DEF UType
<1>5. JobOK' /\ BootOK' /\ ClearOK'
  BY <1>0, <1>1, <1>2, <1>3 DEF JobOK, BootOK, ClearOK
<1>6. OpenOK'
  <2>1. step' = "put_pdr" => \A m \in SessionMaps : PutDone(m)' = 0
    BY <1>3 DEF PutDone
  <2> QED BY <1>2, <2>1 DEF OpenOK
<1>7. LeftoversExplained'
  <2>1. InProgress = {}
    BY <1>1 DEF InProgress
  <2> QED BY <1>0, <2>1 DEF LeftoversExplained
<1> QED BY <1>4, <1>5, <1>6, <1>7 DEF AInv, SInv

LEMMA DoGetAInv == ASSUME AInv, DoGet \/ Dump PROVE AInv'
<1>1. step \in {"read", "dump"} /\ UNCHANGED <<fds, content, backlog>>
  BY DEF DoGet, Dump
<1>2. CASE Answer /\ UNCHANGED aborted
  <2>1. InProgress = {}
    BY <1>1 DEF InProgress, Puts, Dels
  <2>2. LeftoversExplained'
    BY <1>1, <1>2, <2>1 DEF AInv, SInv, LeftoversExplained
  <2> QED BY <1>1, <1>2, <2>2, AnswerAInv
<1>3. CASE Raise
  <2>1. fds \in [MapNames -> 0..MaxLoads]
    BY DEF AInv, UType
  <2> QED BY <1>1, <1>3, <2>1, RaiseAInv
<1>4. CASE step = "read" /\ step' = "dump" /\ UNCHANGED <<i, n, cur, client, aborted>>
  BY <1>1, <1>4, BeginAInv
<1>5. ASSUME NEW m \in Ns, step = "read", Measure(m) PROVE AInv'
  BY <1>1, <1>5, BeginAInv DEF Measure
<1> QED BY <1>2, <1>3, <1>4, <1>5 DEF DoGet, Dump

\* A complete measurement has nothing left to answer for.
LEMMA ReplyAInv == ASSUME AInv, Reply PROVE AInv'
<1>1. step = "reply" /\ Answer /\ UNCHANGED <<fds, content, backlog, aborted>>
  BY DEF Reply
<1>2. InProgress = {}
  BY <1>1 DEF InProgress, Puts, Dels
<1>3. LeftoversExplained'
  BY <1>1, <1>2 DEF AInv, SInv, LeftoversExplained
<1> QED BY <1>1, <1>3, AnswerAInv

\* The agent, its clients and the reloads keep the types and the account of
\* the sessions.
THEOREM SessionInvariance == Spec => [](AInv /\ RInv)
<1>1. Init => AInv /\ RInv
  BY InitAInv
<1>2. AInv /\ RInv /\ [Next]_vars => AInv' /\ RInv'
  <2> SUFFICES ASSUME AInv, RInv, [Next]_vars PROVE AInv' /\ RInv'
    OBVIOUS
  <2>1. CASE AgentStep
    <3>1. UNCHANGED <<pin, rvars, wiped>>
      BY <2>1 DEF AgentStep, Put, Delete, Accept, DoGet, Dump, Reply
    <3> QED BY <2>1, <3>1, KeepRInv, PutAInv, DeleteAInv, AcceptAInv, DoGetAInv, ReplyAInv
            DEF AgentStep
  <2>2. CASE Start
    <3>1. UNCHANGED <<pin, rvars>> /\ wiped' = FALSE
      BY <2>2 DEF Start
    <3>2. wiped' \in BOOLEAN
      BY <3>1
    <3>3. RInv'
      BY <3>1, <3>2 DEF RInv, RType, RoomOK, rvars
    <3> QED BY <2>2, <3>3, StartAInv
  <2>3. CASE Crash
    BY <2>3, CrashAInv, KeepRInv DEF Crash
  <2>4. CASE ClientNext
    <3>1. UNCHANGED <<pin, rvars, wiped>>
      BY <2>4 DEF ClientNext, Connect, Send
    <3> QED BY <2>4, <3>1, ClientAInv, KeepRInv
  <2>5. CASE ReloadNext
    BY <2>5, ReloadRInv, ReloadAInv
  <2>6. CASE UNCHANGED vars
    <3>1. UNCHANGED uvars /\ UNCHANGED <<pin, rvars, wiped>>
      BY <2>6 DEF vars, uvars, rvars
    <3> QED BY <3>1, ReloadAInv, KeepRInv
  <2> QED BY <2>1, <2>2, <2>3, <2>4, <2>5, <2>6 DEF Next
<1> QED BY <1>1, <1>2, PTL DEF Spec

\* Every variable keeps its type, the loop counter its bound.
THEOREM TypeCorrect == Spec => []TypeOK
<1>1. AInv /\ RInv => TypeOK
  BY Types DEF AInv, RInv
<1> QED BY <1>1, SessionInvariance, PTL

\* Whatever /ruleupdate requests run, fail or are killed, and whatever is
\* reloaded under them, an entry of a measurement's key range that no
\* measurement is working on was left by one cut short.
THEOREM MeasurementsCleanUp == Spec => []LeftoversExplained
<1>1. AInv => LeftoversExplained
  BY DEF AInv, SInv
<1> QED BY <1>1, SessionInvariance, PTL

\* Once the agent serves, the sessions of its bootstrap stay complete in the
\* maps it has open.
THEOREM BootstrapStays == Spec => []InitialSessionsStay
<1>1. AInv => InitialSessionsStay
  BY DEF AInv, SInv, BootOK, InitialSessionsStay
<1> QED BY <1>1, SessionInvariance, PTL
=============================================================================
