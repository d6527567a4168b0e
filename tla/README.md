# A TLA+ model of ebpf-upf

ebpf-upf is the user-plane function of a 5G core, written as three eBPF
programs (`bpf/`), and a PFCP-equivalent agent (`loader/agent.py`) that fills
the maps they read. This directory holds TLA+ modules translated from that
code, the TLC runs that check them on small instances, and TLAPS proofs of the
main properties for every value of the constants. `PROJECT.json` maps each
definition to the lines it models.

## Inventory

| Component | State | Operations | What is hard |
|---|---|---|---|
| Transactional rule update | `tc_bundle_map` | `install_tc_bundle`, `modify_tc_bundle`, delete; datapath reads | packets hold a pointer into the map while it is rewritten; a crash between the two writes; two writers |
| QER policing | `qer_table`, `qer_state` or `qer_state_shared` | `install_qer`, `upf_qer_admit` | time sampled before the lock; 64-bit arithmetic; QER rewritten in place |
| URR accounting | `urr_counters` (per CPU) | `upf_urr_update`, `read_urr` | two CPUs creating one key; a full map; reports during counting |
| Sessions | `pdr_table`, `tc_bundle_map`, `teid_session` (LRU) | `install_session`, `remove_session`, the loop of `bench_rule_update.c` | three system calls, each of which may fail or be the last; eviction |
| Uplink pipeline | none of its own, reads all maps | `upf_xdp_uplink`, `upf_tc_ingress`, `upf_far_forward` | four lookups of a packet at different times; the FAR rewritten in place |
| Downlink | `dl_ue_map`, `upf_config_map` | `upf_tc_egress`, `install_dl_ue`, `install_upf_config` | a map pointer kept across helper calls; the IP checksum; 16-bit lengths |
| Header parsing | none | the first part of all three programs | parsers that must agree; the decapsulation length |
| Metrics and HTTP | `metrics` (per CPU), the listening socket | `bump`, `read_metrics`, `do_GET`, `measure_rule_update` | counters that must add up along the pipeline; scrapes during traffic; leftovers of a failed measurement; one connection at a time |
| System call layer | cached descriptors | `bpf_obj_get`, update, lookup, delete | stale descriptors after a reload |
| Loading | pinned maps, attached programs | `reload_all.sh` | windows between detach, unpin, load and attach; failure at any command, that of a detach ignored |
| gtp5g netlink clients | a socket and its queue | `gtp5g_genl.py`, `gtp5g_link_add.py` | attribute alignment; answers taken for those of another request |
| Tests, generators, plots, eUPF clients | none | | not part of the system |

The control plane and the datapath share only the pinned maps. The agent is
single-threaded, but several processes use the maps (the agent, test scripts
such as `test/toggle_bundle.py`, `bench_rule_update`), and nothing coordinates
them. XDP and TC programs run on every CPU at once, not interrupted by
another packet on their CPU. Between XDP and TC nothing is handed over: TC
parses and resolves the packet again.

What makes each part correct: a packet's decision belongs to one modification
(rule update); no more than burst + MBR × time is admitted (QER); the usage
counted differs from the usage by the documented loss only (URR); a session is
visible only when complete, and a miss is always a race (sessions, pipeline);
every packet is counted once per program, by programs that agree on what it is
(parsing, metrics); a packet enters the tunnel of one entry under valid headers
(downlink); agent and programs mean the same maps, and every request ends
(agent, loading); what a client reports is what the kernel answered (netlink).

## Modules

| Module | Models | Composition |
|---|---|---|
| `TcBundle` | one `tc_bundle_map` entry among others, its writers, the kernel's hash update, packets reading it | implements `AtomicRule` |
| `AtomicRule` | what the comments promise of an entry: an atomic register of whole tuples | instantiated by `TcBundle` with the refinement mapping (`Rule`) |
| `QerBucket` | `upf_qer_admit`, both builds, and `install_qer` | |
| `Uplink` | sessions over three maps, the FAR, the lookups of both uplink programs | abstracts `TcBundle` to a key and `QerBucket` to "admitted or not" |
| `UrrAccounting` | `upf_urr_update`, `read_urr` | |
| `Metering` | the CPUs and packet lengths of the two | extended by `QerBucket` and `UrrAccounting`; definitions of the former that both have carry the prefix `Qer` |
| `Headers` | the three parsers and the header lengths, as operators over frames | extended by `Datapath` and `Downlink` |
| `Datapath` | the three programs from counter to counter on several CPUs, and `/metrics` | leaves open what a lookup finds: `Uplink`, `QerBucket` and `Downlink` model it |
| `Downlink` | `upf_tc_egress` step by step with the bytes it writes, and the control plane of both its maps | its output is fed to the uplink parsers of `Headers` |
| `Agent` | the agent's life (bootstrap, server loop, `/ruleupdate`, crash) composed with `reload_all.sh` | abstracts sessions to keys in map instances |
| `GenlClient` | both netlink clients and the kernel's queue of answers | |
| `MC*` | model values, symmetry, frames | |
| `*Proofs` | the theorems | extend the component's module; `MeteringProofs` extends `UrrAccounting` and `QerBucket` |
| `SumTheorems` | induction over sets, and what `SumFunctionOnSet` computes | extended by `MeteringProofs`, `DatapathProofs` and `GenlProofs` |

**TcBundle.** The value is a function from words (slot, field) to numbers, so
a copy can be cut between any two words. `InstallTcBundle` and `ModifyTcBundle`
compute the value of the next `map_update`; `UpdateBegin`, `UpdateCopy` and
`UpdateLink` are that system call inside the kernel: choose an unlinked
element, copy word by word under the bucket lock, link. `Crash` is allowed
between system calls and not inside one. A packet is `Lookup`, `ReadActive`,
one `Load` per field (any order, except that the key of the first `far_table`
lookup comes first) and `Return`. `Recycling` is TRUE for the map as
configured: the elements are preallocated, and the kernel may refill an
unlinked element while a program still holds a pointer to it. `Recycling =
FALSE` is the guarantee the comments rely on. Elements belong to the whole map:
with `OtherKeys` the writers also install, rewrite and delete entries of other
PDRs (`InstallOther`, `DeleteOther`; `others` holds their elements), which take
and give back elements of the same pool. The history variables `seen`
(the tuple at the packet's lookup) and `churn` (updates and deletes of any key
that overlap it) serve the properties. Updates are made one at a time although
the kernel locks a bucket of the map only: two that overlap in time both count
in `churn`, so the property says nothing of a packet that meets them, and
`bundle_atomic` has one writer. The lookup in `modify_tc_bundle` is one atomic
read; the kernel copies the value without the bucket lock, so with two writers
and recycling it may be torn. What a writer then writes is still one value,
which is all `TornNeedsTwoUpdates` and its proof need, and the refinement
assumes one writer and no recycling. `MaxGen` stands for the largest generation
`struct.pack("<I")` accepts: beyond it `modify_tc_bundle` raises before it
writes.

**QerBucket.** `Sample` is the call up to the lock, `Charge` the rest;
`Elapsed`, `Refill`, `Filled`, `Spent` and `LastNs` are its parts. `Word` is
the modulus of `__u64`, `Cap` and `Div` the constants 10^9 and 8·10^9, scaled
down in the runs with their ratios kept in play (division truncates; a long
wait exceeds the cap; the product of `qer_percpu` wraps). `InstallQer` rewrites
one field at a time. The default build runs without the lock, each CPU on its
own bucket. `Charge` reads MBR and burst once, where the code reads them again
between lines 82 and 85 (121 and 124), so a charge that a rewrite overlaps may
combine the old MBR with the new burst. The accounts of the properties start
over at a rewrite, with the first packet metered under the new QER, and its
charge clamps whatever tokens it finds to the burst: an overlapped charge belongs
to the packets before, and leaves no tokens that the model's buckets cannot hold.

**Uplink.** A session stands for a TEID with the PDR id installed with it. A
process's `pc` names its next system call and `After` their order, which for
the processes in `Harness` is the one of `bench_rule_update.c`; a full hash
map refuses a key and ends the caller with nothing undone; a full LRU map
evicts any entries. `MaxTeids` is the number of entries `teid_session` takes
before it evicts anything; the kernel keeps some free entries in per-CPU lists,
so that this is a little below `max_entries`. In the code the PDR limit is 4096
and the TEID limit 65536. Each lookup of a packet and each read of the FAR is a
step. `far_id` is always in range (the callers install FAR 1), so an array
lookup never misses. `changed` is the history of a packet: whether its session
was touched since its first lookup. That each session has one process that installs and
removes it (`Owner`) is an assumption: nothing in the code enforces it, and the
agent's measurements and `bench_rule_update.c` use the same key range.

**UrrAccounting.** A lookup that misses and the insertion that follows are two
steps; an increment of a CPU's own counter is one. `read_urr` reads the CPUs in
any order.

**Headers.** A frame is what the bounds tests and comparisons of the parsers
tell apart: its length, IPv4 or not, UDP or not, the IHL field, and whether the
bytes where IHL points hold the port and then the message type. A TC program
sees the linear part of the `sk_buff` only; `Pulled`, at least all headers with
IP options, is what a driver leaves there of a longer frame (external).

**Datapath.** `stage` is the counter a CPU bumped last; `XdpNext`, `TcNext` and
`TcAfter` say which may follow, so each `bump()` is a step. `Take` starts a
frame once the program may return: a CPU takes a frame through XDP and TC before
the next one. NAPI may run XDP over a batch before TC sees its first frame, and
RPS may move a frame to another CPU. That changes how many frames are between
the hooks, not what either program does with one: `XdpConserved` and
`ScrapeOrdered` are about frames inside XDP, of which a CPU has at most one
either way, and in `TcConserved` the term for the frame on its way to TC would
become the number of frames waiting there. `Lose` drops a frame between the hooks.
`Scrape*` is `read_metrics`, one CPU's value of one entry per step. The result
`out` keeps the entries that `ScrapeOrdered` relates; `floor` and `flight` are
history. A scrape's dump in the code is made by `bpftool`, which reads entry by
entry, and is then added up; the model reads and adds at once.

**Downlink.** One UE's entry in a recycled hash element, as in `TcBundle`; other
UEs' entries (`others`) use the same elements, and `mine` says whose entry the
update in progress writes. Updates are made one at a time for the same reason.
`InstallDlUe`, `CopyWord` and `Link` are one `map_update`; `Lookup`,
`AdjustRoom`, `WriteIp`, `WriteGtp`, `Return` one packet. Headers are byte
sequences; `Checksum20` adds ten little-endian words (`Add10`, the loop
unrolled) as the CPU does, and `HeaderValid` checks the result the way a
receiver does, over big-endian words. The address 0.0.0.0 is
the source until `install_upf_config` has run.

**Agent.** A map instance is the number of the load that created it; `fds` is
the descriptor cache, `pin` the bpffs directory, `attached` what each program's
maps resolve to. `Advance` gives the order of system calls in the bootstrap and
in `measure_rule_update`; `Raise` is an exception: it ends the process in the
bootstrap and only the connection later. `DoGet` chooses any request. Detaching
in `reload_all.sh` ends with `|| true`: `XdpOff` and `TcDel` either detach or
fail and go on (`DetachFails`), and `stuck` records the programs that were left
attached that way, until a later detach succeeds. Every other command that fails
ends the script (`ReloadFails`); `ip` without `-force` refuses to replace an XDP
program and `tc` to add a second clsact qdisc (`clsact`), so a reload after a
failed detach always ends there. `rm -rf` removes the
pins in the order bpffs lists them, and libbpf pins maps in the order of their
declaration. Six maps stand for the eleven: the others are treated alike. A request is taken
to arrive once its connection is accepted, since nobody sees it before. When a
new agent starts, the contents of maps without a pin are forgotten: no agent can
reach them any more. `aborted`, `wiped` and `stuck` are history.

**GenlClient.** Requests and the family reply are byte sequences as far as
attributes go, with real lengths, types, nesting and padding; the kernel's walk
over them (`KernelAttrs`, external) is written independently of `Nla`. The
kernel answers within the send and may refuse anything. `Recv` takes the oldest
message of the socket, whatever request it belongs to, as the code does. The
history variables `answer` and `verdict` keep what the kernel said to the family
request and to the command.

## Runs

| Run | Result | Question | Bounds |
|---|---|---|---|
| `bundle_atomic` | pass | is an entry an atomic register (refinement), with no recycling? | 1 writer, 1 CPU, 3 elements, one id, generation ≤ 3, entries of other PDRs |
| `bundle_recycled` | pass | how many updates must overlap a packet to tear it, of any entry, with recycling and two writers? | 2 writers, 1 CPU, 3 elements, generation ≤ 1, entries of other PDRs |
| `bundle_hybrid` | violation | "can never observe a hybrid" | 1 writer, two id fields |
| `qer_percpu` | pass | does each CPU's bucket conserve credit and enforce the MBR? | 2 CPUs, time ≤ 4, three MBRs, two bursts |
| `qer_rewind` | violation | "an MBR is enforced in aggregate" | 2 CPUs, one bucket |
| `uplink_sessions` | pass | sessions complete, misses are races, nothing evicted | 3 sessions, an agent and a benchmark process, maps for 2, 3 FARs |
| `urr_bound` | pass | what do creation races lose; is a report bounded? | 2 CPUs, 2 URRs, room for one |
| `agent` | pass | do agent and programs share maps; what stays behind; does every request end? | 2 clients, a queue of 1, 1 initial session, measurements of 1 and 2, maps for 2, 2 loads |
| `genl` | pass | do requests carry what was meant; are reports true; do processes end? | all combinations of optional arguments, 2 errors |
| `genl_ack` | violation | "[+] FAR added" | as `genl` |
| `downlink` | pass | one tunnel per packet, valid headers, recognised by the uplink | 1 CPU, 3 elements, 2 tunnels, 2 addresses, 5 frames |
| `datapath` | pass | does every packet have one outcome per program; what does a scrape show? | 2 CPUs, 1 frame each out of 6 |

Why the bounds are enough to be interesting: three elements are the linked
one, one that a packet holds and one to fill; with recycling an update of this
or another entry may fill the packet's element. Three
modifications take the active slot from 0 to 1, back and again; in
`bundle_atomic` the generation tells tuples apart and one id is enough, the
other `bundle_` runs have two. Three sessions over maps for two fill every map
and make every error path happen; so does a measurement of two beside one
initial session. Two loads let a reload meet the maps, programs and descriptors
of another one, complete or not. With two clients one can wait while the other is
served. Two CPUs are enough for reordered lock acquisitions, creation races and
counters that grow under a scrape, because each involves two parties; one frame
per CPU suffices there because a scrape reads each counter of a CPU once, and
the frames reach every branch of the parsers, at their exact lengths. One pair of
addresses in `downlink` makes the checksum carry twice, and two frames lie on
both sides of the 16-bit limit. `MaxTime`, `MaxPkts`, `MaxGen`, `MaxLoads` and
`MaxFrames` are the only bounds on behaviours.

The violations are disagreements between the code and what it says: see
"findings" in `PROJECT.json`. A packet that is overlapped by both writes of one
modification can combine old and new ids (it has to be held up between two loads
for the duration of two system calls; within one update it is safe, which
`OneUpdateIsSafe` proves). In the shared bucket a late CPU sets `last_ns` back.
`gtp5g_genl.py` reads the acknowledgement of its family request as the answer
to its command, so it reports success whatever the kernel answered.

Limits of the code that the models contain and no run singles out. A FAR is
looked up twice (`upf_tc.c:175`, `upf_tc.c:285`) and overwritten in place, so a
packet that a rewrite overlaps can take FORWARD from one FAR and its interface
from another, although `upf_maps.h:97-98` calls such updates "independently
atomic per their own key"; no property excludes it. `reload_all.sh` goes on
after a failed `tc qdisc del`, attaches the new XDP program and stops at `tc
qdisc add`, with the old TC programs and their maps behind it, against
`upf_maps.h:5-6` ("resolve to the *same* map instances"); `OneSetOfMaps` proves
that only a failed detach leads there. Further: the refill
product wraps above about 18.4 Gbit/s and then credits too little
(`upf_tc.c:121`); sessions of the benchmark have no bundle and miss in TC
(`bench_rule_update.c:105`); a full `urr_counters` loses every packet of a new
URR (`upf_tc.c:155`); after a reload has removed the pins a running agent writes
to maps nobody reads (`bpf_syscall.py:117`); a measurement that fails leaves its
entries behind (`agent.py:276`).

### Fairness

`Agent` assumes that a living agent goes on (`WF(AgentStep)`) and that a client
that has connected sends its request; nobody has to start, crash, connect or
reload. The second is an assumption on clients the code needs: the handler sets
no timeout, and one silent client blocks the single-threaded server. `GenlClient`
assumes that a running process goes on; that `recv` returns is not assumed but
follows from the kernel's answers. All other specifications are
`Init /\ [][Next]_vars`: their properties are safety properties.

## Proofs

Every safety property of the passing runs is proved, and so is the refinement.
All constants are arbitrary within the named assumptions of the modules:
numbers are natural numbers, `NONE` differs from the values it stands beside (in
`TcBundle` also from every tuple), a sum runs over finitely many CPUs, `Pulled`
covers the headers, an error number is not 0. Hypotheses beyond these are stated
in the theorem and named below.

- `TcBundleProofs`: `TypeCorrect`; `OneUpdateIsSafe` (`TornNeedsTwoUpdates`),
  for updates of any key and with or without recycling. The
  invariant adds `WriterOK`, which says that the element being filled is not
  a linked one and that only the lock holder copies, and `ReaderOK`: as
  long as a packet is protected (its element is linked, or has been unlinked by
  the only update that overlaps it, or is never recycled) the element still
  holds the tuple of its lookup, and what it has loaded is part of it.
  The property alone says nothing of the loads still to come.
  `ImplementsAtomicRule` is the refinement (`IsAtomicRule`, assuming
  `~Recycling` and one writer): initial states map to initial states and every
  step to a step of `AtomicRule` or a stutter. What makes it go through is
  `RInv`: the value a writer has read, and the one it is about to write, are
  the tuple in force or its successor, so that linking the first write of a
  modification changes nothing and linking the second is the modification.
- `MeteringProofs`, token buckets: `QerTypeCorrect`; `CreditConserved`
  (`WithinCredit`); `PerCpuMbr` (`MbrEnforced`, assuming `~SharedLock`).
  `TimesOK` bounds every sample by the clock, `InOrder` says that a CPU with a
  bucket of its own never samples before its `last_ns`, so the unsigned
  subtraction does not wrap. One step adds at most `Refill`, which is at most
  MBR × elapsed / Div even if the product wraps or is truncated (`RefillBound`).
- `UplinkProofs`: `TypeCorrect`; `SessionsComplete`; `MissesAreRaces`;
  `NothingEvicted` (assuming `MaxPdrs <= MaxTeids`). The invariant adds what each process has achieved at each `pc`
  (`ProcOK`), that no two processes work on one session, and that a packet whose
  session has not changed still finds it in `teid_session` (`PacketOK`).
- `MeteringProofs`, usage: `TypeCorrect`; `RaceLosesOne` (`PresentLosesOne`).
  Losing one packet is not inductive on its own: `MissedOK` says that a CPU
  which is about to lose the race has lost none before, and `AbsentOK` that an
  absent URR for which there is room has not been accounted at all.
  `ReportsAreBounded` (`ReportBounded`) follows a report half-way through
  (`ReportOK`): what has been added up, together with the counters still to be
  read, covers the counters at the beginning, and it does not exceed the usage
  on the CPUs read.
- `DatapathProofs`: `TypeCorrect`; `ParsersAgree`, a fact about `Headers` for
  frames of every length; `XdpCounts` and `TcCounts` (`XdpConserved`,
  `TcConserved`). The invariant adds what the last counter says about the frame
  (`FrameOK`); that nothing but a hit gets an outcome in TC then rests on
  `ParsersAgree`. `ScrapesAreBounded` is the argument of `ReportsAreBounded`
  again (`EntryOK`). `ScrapesAreOrdered` needs one inequality for each of the
  entries 4, 5, 6 and for all later ones (`OutcomesOK`): the G-PDUs shown are
  covered by the outcomes shown, the one being read, those still to come and
  the G-PDUs in flight. It starts from `XdpConserved` summed over the CPUs.
- `AgentProofs`: `TypeCorrect`; `OneSetOfMaps` (`ProgramsShareMaps`),
  `CacheIsCurrent` (`WritesReachDatapath`). Pins and programs belong to the
  last load, and apart from what a failed detach has left none is attached while
  another set of maps is created (`AttachedOK`), and a cached descriptor is what its pin refers to while no pin
  is removed (`CacheOK`). `MeasurementsCleanUp` (`LeftoversExplained`) and
  `BootstrapStays` (`InitialSessionsStay`) rest on how far the loop of the
  current job has come: the maps it has worked on are open (`OpenOK`), the
  bootstrap's sessions up to its counter are there (`BootOK`), and what the
  removal loop has come past is gone (`ClearOK`).
- `DownlinkProofs`: `TypeCorrect`; `OneTunnel` (`TunnelWhole`). `PointerOK`
  says that the element a packet points to still holds what its lookup found as
  long as at most one update of the map overlaps it, `HeaderOK` that the bytes written so
  far were read from it. `ChecksumAccepted` (`HeaderValid`) and `Recognised`
  (`TunnelRecognised`) follow from `WireOK`, which says what the headers written
  so far consist of, and from arithmetic: two folds of a sum of ten words leave
  its remainder modulo 65535 and never 0 (`FoldTwice`), and swapping the bytes of
  every word multiplies that remainder by 256, so that a checksum computed in
  one byte order is right in the other (`AnyOrder`).
- `SumTheorems`: a sum of the community modules is a recursive function that
  takes elements in the order `CHOOSE` gives them. The module shows that this
  function exists (`AddsExists`) and is the only one (`AddsUnique`), hence that
  any element can be taken out first (`SumRemove`); sums are monotone, can be
  added, and count a set when their terms are 0 and 1. Induction is carried by
  sets (`SubsetInduction`: a set of subsets that contains the empty one and is
  closed under adding an element contains all), which `WFMin` of the library
  allows, because the provers cannot instantiate theorems about arbitrary
  predicates.
- `GenlProofs`: `TypeCorrect`; `RequestsUnderstood` (`Understood`);
  `FamilyAlwaysFound` (`FamilyFound`); `AlarmsAreTrue` (`NoFalseAlarm`);
  `LinkReportsTrue` (`LinkReportTrue`). The first half is about bytes. Both the
  kernel's walk and the loop of `resolve_family` are recursive functions of an
  offset that only grows, so they exist (`Recursion`, by `SetInduction`), and the
  walk does not depend on where in a buffer it starts (`WalkShift`). Hence
  `WalkFindsNla`: what `nla` wrote is found again with its type and payload,
  and the walk goes on exactly behind the padding. It composes: `Holds` says which
  attributes a piece of a message holds, whatever follows it; one attribute is
  such a piece (`NlaHolds`), concatenation takes the union (`CatHolds`), an
  optional argument adds its attribute or nothing (`WhenHolds`), and `FoundPaths`
  goes through the three levels of nesting. So
  `FarUnderstood`, `PdrUnderstood` and `LinkUnderstood` cover every choice of
  optional arguments with one argument each. `LoopFindsFamily` does the same for
  the reply of the controller. The second half is the invariant: `QueueOK` says
  which answers the socket holds at each `pc`, in particular that the
  acknowledgement of the family request is ahead of the answer to the command.
  That is why `NoFalseAlarm` holds, and also why `AddedMeansAccepted` does not
  (`genl_ack`): `CommandedPart` shows that `cmd` always reads a success.

Only model-checked: liveness (`EveryRequestEnds`, `EveryRunEnds`), which is
outside the prover's reach.

## Not modelled

Perf events (decision, latency and buffer events are observations and change no
state of the system); the wording of the Prometheus text and of JSON, and
measured times; `load_xdp.sh` and `setup_netns.sh`, which set up a test
namespace; traffic generators and benchmarks other than the map operations of
`bench_rule_update.c`; plots and measured results; the eUPF comparison clients,
which send requests to another UPF and keep no state; the gtp5g kernel module
beyond its answers. `mbr_dl_bps`, `precedence`, `qfi`, `bytes_dl` and `pkts_dl`
are never read by the code. The starvation of an often-used bucket by
truncation is a documented under-enforcement of which the code promises nothing.
