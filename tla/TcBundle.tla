------------------------------ MODULE TcBundle ------------------------------
(***************************************************************************)
(* The transactional-consistency mechanism: one entry of tc_bundle_map,    *)
(* changed by control-plane processes (install_session, modify_tc_bundle,  *)
(* remove_session of loader/agent.py) while TC programs on several CPUs    *)
(* resolve packets through it (upf_tc_ingress of bpf/upf_tc.c).            *)
(*                                                                         *)
(* tc_bundle_map is a preallocated BPF_MAP_TYPE_HASH.  bpf_map_update_elem *)
(* copies the value into an element that is not linked, under the bucket   *)
(* lock, and then links it in place of the old one.  A packet keeps the    *)
(* POINTER its lookup returned and dereferences it field by field.  The    *)
(* kernel does not wait for such readers before it reuses an unlinked      *)
(* element of a preallocated map; Recycling says whether it may do so      *)
(* (the map as configured) or not (the atomicity the comments assume).     *)
(* The elements belong to the map, not to the key: an element this entry   *)
(* gives up may be filled next for another PDR, and the other way round.   *)
(***************************************************************************)
EXTENDS Naturals, FiniteSets

CONSTANTS
    Writers,    \* control-plane processes
    CPUs,       \* CPUs running upf_tc_ingress, one packet each at a time
    Elems,      \* preallocated hash elements of the map
    Fields,     \* fields of tc_bundle_slot other than generation
    Ids,        \* values the fields take
    Recycling,  \* may an update reuse an element a packet still points to?
    Reinstalls, \* may the session be removed and installed again?
    OtherKeys,  \* are entries of other PDRs written and deleted meanwhile?
    MaxGen,     \* largest generation struct.pack("<I") accepts
    NONE        \* absent

AllFields == Fields \cup {"generation"}

ASSUME BundleAssumption ==
    /\ Ids \subseteq Nat /\ Ids # {}
    /\ MaxGen \in Nat
    /\ Recycling \in BOOLEAN /\ Reinstalls \in BOOLEAN /\ OtherKeys \in BOOLEAN
    /\ "far_id" \in Fields
    /\ Fields \cap {"active", "generation", "key"} = {}
    /\ NONE \notin Nat \cup Writers \cup Elems
    /\ NONE \notin [Fields \cup {"generation"} -> Nat]

\* struct tc_bundle as memory: 32-bit words, named by slot and field.
ActiveWord == <<0, "active">>
Words == {ActiveWord} \cup ({0, 1} \X AllFields)
Bundle == {b \in [Words -> Nat] : b[ActiveWord] \in {0, 1}}
Tuples == [AllFields -> Nat]

\* The tuple a value shows to a packet that reads all of it at once.
Slot(b, i) == [f \in AllFields |-> b[<<i, f>>]]
Tuple(b) == Slot(b, b[ActiveWord])

\* enc_bundle: slot 0 holds t0, slot 1 holds t1.
Enc(active, t0, t1) ==
    [wd \in Words |-> IF wd = ActiveWord THEN active
                      ELSE IF wd[1] = 0 THEN t0[wd[2]] ELSE t1[wd[2]]]

\* What a packet reads through the pointer after `active`: far_id as the key
\* of the first far_table lookup, then the arguments of upf_far_forward.
Loads == AllFields \cup {"key"}
FieldOf(l) == IF l = "key" THEN "far_id" ELSE l
Blank == [l \in Loads |-> NONE]

VARIABLES
    elem,    \* memory of each element
    live,    \* the element linked under the key, or NONE
    others,  \* the elements linked under other keys
    lock,    \* the writer inside bpf_map_update_elem, or NONE
    tgt,     \* the element it fills
    left,    \* the words it has still to copy
    wpc,     \* next map_update of each writer
    wval,    \* its value
    ptr,     \* `bundle` of each CPU's packet, NONE between packets
    act,     \* `active` once read
    reg,     \* fields read so far
    seen,    \* history: the tuple at the packet's lookup
    churn    \* history: updates and deletes of any key overlapping the
             \* packet, up to 2

kvars == <<elem, live, others, lock, tgt, left>>
wvars == <<wpc, wval>>
rvars == <<ptr, act, reg, seen, churn>>
vars == <<elem, live, others, lock, tgt, left, wpc, wval,
          ptr, act, reg, seen, churn>>

TypeOK ==
    /\ elem \in [Elems -> Bundle]
    /\ live \in Elems \cup {NONE} /\ others \subseteq Elems
    /\ lock \in Writers \cup {NONE}
    /\ tgt \in Elems \cup {NONE}
    /\ left \in SUBSET Words
    /\ wpc \in [Writers -> {"idle", "prep", "commit", "install", "other"}]
    /\ wval \in [Writers -> Bundle \cup {NONE}]
    /\ ptr \in [CPUs -> Elems \cup {NONE}]
    /\ act \in [CPUs -> {0, 1, NONE}]
    /\ reg \in [CPUs -> [Loads -> Nat \cup {NONE}]]
    /\ seen \in [CPUs -> Tuples \cup {NONE}]
    /\ churn \in [CPUs -> 0..2]

Init ==
    /\ elem = [e \in Elems |-> [wd \in Words |-> 0]]
    /\ live = NONE /\ others = {} /\ lock = NONE /\ tgt = NONE /\ left = {}
    /\ wpc = [w \in Writers |-> "idle"]
    /\ wval = [w \in Writers |-> NONE]
    /\ ptr = [c \in CPUs |-> NONE]
    /\ act = [c \in CPUs |-> NONE]
    /\ reg = [c \in CPUs |-> Blank]
    /\ seen = [c \in CPUs |-> NONE]
    /\ churn = [c \in CPUs |-> 0]

-----------------------------------------------------------------------------
(* The control plane: each map_update is one value, handed to the kernel.  *)

\* What install_tc_bundle writes: both slots identical, active 0,
\* generation 0.
Fresh ==
    {LET slot == [f \in AllFields |-> IF f = "generation" THEN 0 ELSE t[f]]
     IN  Enc(0, slot, slot) : t \in [Fields -> Ids]}

InstallTcBundle(w) ==
    /\ wpc[w] = "idle"
    /\ live = NONE \/ Reinstalls
    /\ wval' \in {[wval EXCEPT ![w] = b] : b \in Fresh}
    /\ wpc' = [wpc EXCEPT ![w] = "install"]
    /\ UNCHANGED <<kvars, rvars>>

\* The same for another PDR, installed or written again.
InstallOther(w) ==
    /\ OtherKeys
    /\ wpc[w] = "idle"
    /\ wval' \in {[wval EXCEPT ![w] = b] : b \in Fresh}
    /\ wpc' = [wpc EXCEPT ![w] = "other"]
    /\ UNCHANGED <<kvars, rvars>>

\* The tuple modify_tc_bundle writes: a field the caller leaves out (None)
\* keeps its current value, the generation is one more.
NewTuple(cur, req) ==
    [f \in AllFields |-> IF f = "generation" THEN cur[f] + 1
                         ELSE IF req[f] = NONE THEN cur[f] ELSE req[f]]

\* MUTANT of PrepValue: `new` goes to the slot packets are reading.
PrepValueActive(raw, new) ==
    LET active == raw[ActiveWord]
        cur    == Tuple(raw)
    IN  IF active = 0 THEN Enc(0, new, cur) ELSE Enc(1, cur, new)

\* Step 1 of modify_tc_bundle: `new` in the inactive slot.
PrepValue(raw, new) ==
    LET active == raw[ActiveWord]
        cur    == Tuple(raw)
    IN  IF active = 0 THEN Enc(0, cur, new) ELSE Enc(1, new, cur)

\* MUTANT of CommitValue: counts up instead of alternating.
CommitValueNext(prep) == [prep EXCEPT ![ActiveWord] = @ + 1]

\* Step 2: the same bytes with `active` flipped.
CommitValue(prep) == [prep EXCEPT ![ActiveWord] = 1 - @]

\* modify_tc_bundle up to its first map_update.  A missing key raises, as
\* does a generation that does not fit 32 bits: nothing is written.
ModifyTcBundle(w) ==
    /\ wpc[w] = "idle"
    /\ live # NONE
    /\ Tuple(elem[live])["generation"] < MaxGen
    /\ \E req \in [Fields -> Ids \cup {NONE}] :
         wval' = [wval EXCEPT ![w] = PrepValue(elem[live],
                                       NewTuple(Tuple(elem[live]), req))]
    /\ wpc' = [wpc EXCEPT ![w] = "prep"]
    /\ UNCHANGED <<kvars, rvars>>

\* What the writer does once the kernel has linked its value.
AfterUpdate(w) ==
    IF wpc[w] = "prep"
    THEN /\ wpc' = [wpc EXCEPT ![w] = "commit"]
         /\ wval' = [wval EXCEPT ![w] = CommitValue(wval[w])]
    ELSE /\ wpc' = [wpc EXCEPT ![w] = "idle"]
         /\ wval' = [wval EXCEPT ![w] = NONE]

\* The process dies between two system calls.
Crash(w) ==
    /\ wpc[w] # "idle"
    /\ lock # w
    /\ wpc' = [wpc EXCEPT ![w] = "idle"]
    /\ wval' = [wval EXCEPT ![w] = NONE]
    /\ UNCHANGED <<kvars, rvars>>

-----------------------------------------------------------------------------
(* The kernel's hash map.                                                  *)

\* Packets in flight learn that an entry is being replaced or deleted.
Churned == [c \in CPUs |-> IF ptr[c] # NONE /\ churn[c] < 2 THEN churn[c] + 1
                           ELSE churn[c]]

\* MUTANT of Free: the value is overwritten in place, as in an array map.
FreeInPlace == IF live = NONE THEN Elems ELSE {live}

\* Elements an update of any key may fill: never a linked one; those packets
\* still point to only if the map recycles them.
Free == {e \in Elems \ (others \cup {live}) : Recycling \/ \A c \in CPUs : ptr[c] # e}

UpdateBegin(w) ==
    /\ wpc[w] # "idle"
    /\ lock = NONE
    /\ tgt' \in Free
    /\ lock' = w
    /\ left' = Words
    /\ churn' = Churned
    /\ UNCHANGED <<elem, live, others, wvars, ptr, act, reg, seen>>

\* The value is copied word by word, in no order a reader may rely on.
UpdateCopy(wd) ==
    /\ lock # NONE
    /\ wd \in left
    /\ elem' = [elem EXCEPT ![tgt][wd] = wval[lock][wd]]
    /\ left' = left \ {wd}
    /\ UNCHANGED <<live, others, lock, tgt, wvars, rvars>>

\* The filled element takes the place of the key's old one, if it had one.
Linked ==
    IF wpc[lock] = "other"
    THEN live' = live /\ \E old \in others \cup {NONE} : others' = (others \ {old}) \cup {tgt}
    ELSE live' = tgt /\ others' = others

UpdateLink ==
    /\ lock # NONE
    /\ left = {}
    /\ Linked
    /\ lock' = NONE
    /\ tgt' = NONE
    /\ AfterUpdate(lock)
    /\ UNCHANGED <<elem, left, ptr, act, reg, seen, churn>>

\* remove_session's map_delete of the entry (a missing key is swallowed).
DeleteElem(w) ==
    /\ Reinstalls
    /\ wpc[w] = "idle"
    /\ lock = NONE
    /\ live # NONE
    /\ live' = NONE
    /\ churn' = Churned
    /\ UNCHANGED <<elem, others, lock, tgt, left, wvars, ptr, act, reg, seen>>

DeleteOther(w) ==
    /\ wpc[w] = "idle"
    /\ lock = NONE
    /\ \E e \in others : others' = others \ {e}
    /\ churn' = Churned
    /\ UNCHANGED <<elem, live, lock, tgt, left, wvars, ptr, act, reg, seen>>

-----------------------------------------------------------------------------
(* The datapath.                                                           *)

Lookup(c) ==
    /\ ptr[c] = NONE
    /\ live # NONE
    /\ ptr' = [ptr EXCEPT ![c] = live]
    /\ seen' = [seen EXCEPT ![c] = Tuple(elem[live])]
    /\ churn' = [churn EXCEPT ![c] = IF lock = NONE THEN 0 ELSE 1]
    /\ UNCHANGED <<kvars, wvars, act, reg>>

ReadActive(c) ==
    /\ ptr[c] # NONE
    /\ act[c] = NONE
    /\ act' = [act EXCEPT ![c] = elem[ptr[c]][ActiveWord]]
    /\ UNCHANGED <<kvars, wvars, ptr, reg, seen, churn>>

\* One load through `cur`; the far_table key is read before the rest.
Load(c, l) ==
    /\ act[c] # NONE
    /\ reg[c][l] = NONE
    /\ l # "key" => reg[c]["key"] # NONE
    /\ reg' = [reg EXCEPT ![c][l] = elem[ptr[c]][<<act[c], FieldOf(l)>>]]
    /\ UNCHANGED <<kvars, wvars, ptr, act, seen, churn>>

Loaded(c) == {l \in Loads : reg[c][l] # NONE}

\* The program returns: a missing or dropping FAR needs the key alone, a
\* buffering one puts far_id in its event, a forwarding one uses them all.
Return(c) ==
    /\ Loaded(c) \in {{"key"}, {"key", "far_id"}, Loads}
    /\ ptr' = [ptr EXCEPT ![c] = NONE]
    /\ act' = [act EXCEPT ![c] = NONE]
    /\ reg' = [reg EXCEPT ![c] = Blank]
    /\ seen' = [seen EXCEPT ![c] = NONE]
    /\ churn' = [churn EXCEPT ![c] = 0]
    /\ UNCHANGED <<kvars, wvars>>

-----------------------------------------------------------------------------
Next ==
    \/ \E w \in Writers : \/ InstallTcBundle(w)
                          \/ ModifyTcBundle(w)
                          \/ Crash(w)
                          \/ UpdateBegin(w)
                          \/ DeleteElem(w)
                          \/ InstallOther(w)
                          \/ DeleteOther(w)
    \/ \E wd \in Words : UpdateCopy(wd)
    \/ UpdateLink
    \/ \E c \in CPUs : \/ Lookup(c)
                       \/ ReadActive(c)
                       \/ \E l \in Loads : Load(c, l)
                       \/ Return(c)

Spec == Init /\ [][Next]_vars

-----------------------------------------------------------------------------
\* The fields a packet has read are those of the tuple its lookup found.
Whole(c) == \A l \in Loads : reg[c][l] # NONE => reg[c][l] = seen[c][FieldOf(l)]

\* With elements recycled, a packet is safe against one update or delete in
\* the map: only a second one that overlaps it (the two writes of a single
\* modify_tc_bundle suffice, or one that replaces the entry and one for
\* another PDR) can tear what upf_tc_ingress reads through `cur`.
TornNeedsTwoUpdates == \A c \in CPUs : churn[c] < 2 => Whole(c)

\* upf_maps.h: the datapath "can never observe a hybrid of old and new ids".
\* While one modification runs, the ids a forwarded packet uses together are
\* those of the tuple at its lookup, of the tuple linked now, or of the one
\* being written.
NoHybrid ==
    \A c \in CPUs :
        Loaded(c) = Loads =>
            \E t \in {seen[c]}
                     \cup {Tuple(elem[e]) : e \in Elems \cap {live}}
                     \cup {Tuple(wval[w]) : w \in {x \in Writers : wval[x] # NONE}} :
                \A f \in Fields : reg[c][f] = t[f]

\* The register is the active tuple of the linked element, a packet has
\* taken it when its lookup returns.
Rule == INSTANCE AtomicRule WITH
          rule <- IF live = NONE THEN NONE ELSE Tuple(elem[live]),
          got <- seen, dec <- reg

\* With one writer the entry behaves as an atomic register whose generation
\* grows by one with every modification: the two writes of modify_tc_bundle,
\* a crash between them and the word-by-word copies do not show.
IsAtomicRule == Rule!Spec
=============================================================================
