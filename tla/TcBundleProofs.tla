--------------------------- MODULE TcBundleProofs ---------------------------
(***************************************************************************)
(* Proofs about TcBundle, for any number of writers, CPUs and elements and *)
(* any fields and ids.                                                     *)
(***************************************************************************)
EXTENDS TcBundle, TLAPS

\* What enc_bundle packs is a bundle whose slots are the two tuples packed.
LEMMA EncType ==
    ASSUME NEW a \in {0, 1}, NEW t0 \in Tuples, NEW t1 \in Tuples
    PROVE  Enc(a, t0, t1) \in Bundle
<1>1. ASSUME NEW wd \in Words
      PROVE  /\ wd[1] \in {0, 1}
             /\ wd # ActiveWord => wd[2] \in AllFields
  BY DEF Words, ActiveWord
<1>2. ASSUME NEW wd \in Words PROVE Enc(a, t0, t1)[wd] \in Nat
  BY <1>1 DEF Enc, Tuples
<1>3. Enc(a, t0, t1) \in [Words -> Nat]
  BY <1>2 DEF Enc
<1>4. Enc(a, t0, t1)[ActiveWord] = a
  BY DEF Enc, Words
<1> QED BY <1>3, <1>4 DEF Bundle

\* What install_tc_bundle writes packs one tuple of generation 0 twice.
LEMMA FreshType ==
    ASSUME NEW b \in Fresh
    PROVE  /\ b \in Bundle
           /\ \E slot \in Tuples : slot["generation"] = 0 /\ b = Enc(0, slot, slot)
<1>1. PICK t \in [Fields -> Ids] :
        b = Enc(0, [f \in AllFields |-> IF f = "generation" THEN 0 ELSE t[f]],
                   [f \in AllFields |-> IF f = "generation" THEN 0 ELSE t[f]])
  BY DEF Fresh
<1> DEFINE slot == [f \in AllFields |-> IF f = "generation" THEN 0 ELSE t[f]]
<1>2. slot \in Tuples /\ slot["generation"] = 0
  BY BundleAssumption DEF AllFields, Tuples
<1>3. b = Enc(0, slot, slot)
  BY <1>1
<1> HIDE DEF slot
<1> QED BY <1>2, <1>3, EncType

\* A slot of a bundle is a tuple.
LEMMA TupleType ==
    ASSUME NEW b \in Bundle
    PROVE  /\ b[ActiveWord] \in {0, 1}
           /\ \A i \in {0, 1} : Slot(b, i) \in Tuples
           /\ Tuple(b) \in Tuples
<1>1. \A i \in {0, 1}, f \in AllFields : <<i, f>> \in Words
  BY DEF Words
<1>2. b \in [Words -> Nat] /\ b[ActiveWord] \in {0, 1}
  BY DEF Bundle
<1>3. \A i \in {0, 1} : Slot(b, i) \in Tuples
  BY <1>1, <1>2 DEF Slot, Tuples
<1> QED BY <1>2, <1>3 DEF Tuple

\* The value modify_tc_bundle writes first is a bundle.
LEMMA PrepType ==
    ASSUME NEW raw \in Bundle, NEW new \in Tuples
    PROVE  PrepValue(raw, new) \in Bundle
<1>1. Tuple(raw) \in Tuples BY TupleType
<1>2. PrepValue(raw, new) = Enc(0, Tuple(raw), new) \/ PrepValue(raw, new) = Enc(1, new, Tuple(raw))
  BY DEF PrepValue
<1> QED BY <1>1, <1>2, EncType

\* So is the committed value, whose `active` stays 0 or 1.
LEMMA CommitType ==
    ASSUME NEW b \in Bundle
    PROVE  CommitValue(b) \in Bundle
  BY DEF CommitValue, Bundle, Words

\* Overwriting one word of a bundle by that of another leaves a bundle.
LEMMA CopyType ==
    ASSUME NEW a \in Bundle, NEW b \in Bundle, NEW wd \in Words
    PROVE  [a EXCEPT ![wd] = b[wd]] \in Bundle
<1>1. a \in [Words -> Nat] /\ b \in [Words -> Nat] /\ ActiveWord \in Words
  BY DEF Bundle, Words
<1>2. [a EXCEPT ![wd] = b[wd]] \in [Words -> Nat]
  BY <1>1
<1>3. [a EXCEPT ![wd] = b[wd]][ActiveWord] \in {0, 1}
  BY <1>1 DEF Bundle
<1> QED BY <1>2, <1>3 DEF Bundle

\* The tuple modify_tc_bundle builds is a tuple.
LEMMA NewTupleType ==
    ASSUME NEW cur \in Tuples, NEW req \in [Fields -> Ids \cup {NONE}]
    PROVE  NewTuple(cur, req) \in Tuples
<1>1. ASSUME NEW f \in AllFields
      PROVE  (IF f = "generation" THEN cur[f] + 1
              ELSE IF req[f] = NONE THEN cur[f] ELSE req[f]) \in Nat
  <2>1. cur[f] \in Nat BY DEF Tuples
  <2>2. f # "generation" => f \in Fields BY DEF AllFields
  <2>3. f # "generation" => req[f] \in Ids \cup {NONE} BY <2>2
  <2>4. Ids \subseteq Nat BY BundleAssumption
  <2>5. cur[f] + 1 \in Nat BY <2>1
  <2> QED BY <2>1, <2>3, <2>4, <2>5
<1> QED BY <1>1 DEF NewTuple, Tuples

-----------------------------------------------------------------------------
(* The inductive invariant.                                                *)

\* A writer with a map_update to make has a value for it, and the one inside
\* the kernel fills an element that is not linked.
WriterOK ==
    /\ \A w \in Writers : wpc[w] # "idle" => wval[w] \in Bundle
    /\ lock # NONE => wpc[lock] # "idle" /\ tgt \in Elems /\ tgt # live
    /\ lock = NONE => tgt = NONE

\* A packet that no second update overlaps, or whose element the map does not
\* recycle, points to an element nobody is filling and that still shows the
\* tuple of its lookup.
Protected(c) == Recycling => churn[c] < 2

ReaderOK(c) ==
    /\ ptr[c] = NONE => act[c] = NONE
    /\ act[c] = NONE => reg[c] = Blank
    /\ ptr[c] # NONE /\ Protected(c) =>
         /\ tgt # ptr[c]
         /\ seen[c] = Tuple(elem[ptr[c]])
         /\ act[c] # NONE => act[c] = elem[ptr[c]][ActiveWord]
         /\ Whole(c)
         /\ churn[c] = 0 => ptr[c] = live /\ lock = NONE

IInv == TypeOK /\ WriterOK /\ \A c \in CPUs : ReaderOK(c)

\* Nothing is linked and no packet is in flight when the maps are created.
LEMMA InitIInv == Init => IInv
<1> SUFFICES ASSUME Init PROVE IInv
  OBVIOUS
<1>1. [wd \in Words |-> 0] \in Bundle
  BY DEF Bundle, Words
<1>2. TypeOK
  BY <1>1 DEF Init, TypeOK, Blank
<1>3. WriterOK
  BY DEF Init, WriterOK
<1>4. \A c \in CPUs : ReaderOK(c)
  BY DEF Init, ReaderOK
<1> QED BY <1>2, <1>3, <1>4 DEF IInv

\* ReaderOK depends only on the packet's own variables, on the memory it
\* points to and on what the kernel is filling.
LEMMA ReaderFrame ==
    ASSUME NEW c \in CPUs, TypeOK, ReaderOK(c),
           UNCHANGED <<live, lock, tgt, ptr, act, reg, seen, churn>>,
           ptr[c] # NONE /\ Protected(c) => elem'[ptr[c]] = elem[ptr[c]]
    PROVE  ReaderOK(c)'
  BY DEF ReaderOK, Protected, Whole, Tuple, Slot

\* The control plane's own steps leave the map and the packets alone.
LEMMA ControlStep ==
    ASSUME IInv, NEW w \in Writers,
           InstallTcBundle(w) \/ InstallOther(w) \/ ModifyTcBundle(w) \/ Crash(w)
    PROVE  IInv'
<1>1. TypeOK /\ WriterOK /\ \A c \in CPUs : ReaderOK(c)
  BY DEF IInv
<1>2. UNCHANGED <<kvars, rvars>>
  BY DEF InstallTcBundle, InstallOther, ModifyTcBundle, Crash
<1>3. \A c \in CPUs : ReaderOK(c)'
  BY <1>1, <1>2, ReaderFrame DEF kvars, rvars
<1>4. CASE InstallTcBundle(w) \/ InstallOther(w)
  <2>1. PICK b \in Fresh : wval' = [wval EXCEPT ![w] = b]
    BY <1>4 DEF InstallTcBundle, InstallOther
  <2>2. b \in Bundle
    BY FreshType
  <2>3. wval'[w] \in Bundle
    BY <1>1, <2>1, <2>2 DEF TypeOK
  <2>4. TypeOK'
    BY <1>1, <1>2, <1>4, <2>1, <2>2 DEF TypeOK, InstallTcBundle, InstallOther, kvars, rvars
  <2>5. WriterOK'
    BY <1>1, <1>2, <1>4, <2>1, <2>3 DEF TypeOK, WriterOK, InstallTcBundle, InstallOther, kvars
  <2> QED BY <1>3, <2>4, <2>5 DEF IInv
<1>5. CASE ModifyTcBundle(w)
  <2>1. PICK req \in [Fields -> Ids \cup {NONE}] :
          wval' = [wval EXCEPT ![w] =
            PrepValue(elem[live], NewTuple(Tuple(elem[live]), req))]
    BY <1>5 DEF ModifyTcBundle
  <2>2. elem[live] \in Bundle
    BY <1>1, <1>5 DEF ModifyTcBundle, TypeOK
  <2>3. wval'[w] \in Bundle
    BY <1>1, <2>1, <2>2, TupleType, NewTupleType, PrepType DEF TypeOK
  <2>4. TypeOK'
    BY <1>1, <1>2, <1>5, <2>1, <2>3 DEF TypeOK, ModifyTcBundle, kvars, rvars
  <2>5. WriterOK'
    BY <1>1, <1>2, <1>5, <2>1, <2>3 DEF TypeOK, WriterOK, ModifyTcBundle, kvars
  <2> QED BY <1>3, <2>4, <2>5 DEF IInv
<1>6. CASE Crash(w)
  <2>1. TypeOK'
    BY <1>1, <1>2, <1>6 DEF TypeOK, Crash, kvars, rvars
  <2>2. WriterOK'
    BY <1>1, <1>2, <1>6 DEF TypeOK, WriterOK, Crash, kvars
  <2> QED BY <1>3, <2>1, <2>2 DEF IInv
<1> QED BY <1>4, <1>5, <1>6

\* The kernel's steps never fill an element a protected packet points to.
LEMMA KernelStep ==
    ASSUME IInv,
           \/ \E w \in Writers : UpdateBegin(w) \/ DeleteElem(w) \/ DeleteOther(w)
           \/ \E wd \in Words : UpdateCopy(wd)
           \/ UpdateLink
    PROVE  IInv'
<1>1. TypeOK /\ WriterOK /\ \A c \in CPUs : ReaderOK(c)
  BY DEF IInv
<1>0. NONE \notin Elems /\ NONE \notin Writers
  BY BundleAssumption
<1>a. /\ Churned \in [CPUs -> 0..2]
      /\ \A c \in CPUs : ptr[c] # NONE => Churned[c] # 0
      /\ \A c \in CPUs : Churned[c] < 2 /\ ptr[c] # NONE => churn[c] = 0
  BY <1>1 DEF TypeOK, Churned
<1>2. ASSUME NEW w \in Writers, UpdateBegin(w) PROVE IInv'
  <2>1. TypeOK'
    BY <1>1, <1>2, <1>a DEF TypeOK, UpdateBegin, wvars, Free
  <2>2. WriterOK'
    BY <1>0, <1>1, <1>2 DEF TypeOK, WriterOK, UpdateBegin, wvars, Free
  <2>3. ASSUME NEW c \in CPUs PROVE ReaderOK(c)'
    <3>1. UNCHANGED <<elem, live, ptr, act, reg, seen>> /\ churn' = Churned /\ tgt' \in Free
      BY <1>2 DEF UpdateBegin
    <3>2. CASE ptr[c] = NONE
      BY <1>1, <3>1, <3>2 DEF ReaderOK
    <3>3. CASE ptr[c] # NONE /\ ~Recycling
      BY <1>1, <1>a, <3>1, <3>3 DEF ReaderOK, Protected, Free, Whole
    <3>4. CASE ptr[c] # NONE /\ Recycling
      BY <1>1, <1>a, <3>1, <3>4 DEF ReaderOK, Protected, Free, Whole
    <3> QED BY <3>2, <3>3, <3>4
  <2> QED BY <2>1, <2>2, <2>3 DEF IInv
<1>3. ASSUME NEW w \in Writers, DeleteElem(w) \/ DeleteOther(w) PROVE IInv'
  <2>1. TypeOK'
    BY <1>1, <1>3, <1>a DEF TypeOK, DeleteElem, DeleteOther, wvars
  <2>2. WriterOK'
    BY <1>0, <1>1, <1>3 DEF TypeOK, WriterOK, DeleteElem, DeleteOther, wvars
  <2>3. ASSUME NEW c \in CPUs PROVE ReaderOK(c)'
    <3>1. UNCHANGED <<elem, tgt, ptr, act, reg, seen>> /\ churn' = Churned
      BY <1>3 DEF DeleteElem, DeleteOther
    <3> QED BY <1>1, <1>a, <3>1 DEF ReaderOK, Protected, Whole
  <2> QED BY <2>1, <2>2, <2>3 DEF IInv
<1>4. ASSUME NEW wd \in Words, UpdateCopy(wd) PROVE IInv'
  <2>1. lock \in Writers /\ tgt \in Elems /\ wval[lock] \in Bundle
    BY <1>0, <1>1, <1>4 DEF TypeOK, WriterOK, UpdateCopy
  <2>2. [elem[tgt] EXCEPT ![wd] = wval[lock][wd]] \in Bundle
    BY <1>1, <2>1, CopyType DEF TypeOK
  <2>3. elem' = [elem EXCEPT ![tgt] = [elem[tgt] EXCEPT ![wd] = wval[lock][wd]]]
    BY <1>1, <1>4, <2>1 DEF UpdateCopy, TypeOK
  <2>4. elem' \in [Elems -> Bundle]
    BY <1>1, <2>2, <2>3 DEF TypeOK
  <2>5. TypeOK'
    BY <1>1, <1>4, <2>4 DEF TypeOK, UpdateCopy, wvars, rvars
  <2>6. WriterOK'
    BY <1>1, <1>4 DEF WriterOK, UpdateCopy, wvars
  <2>7. ASSUME NEW c \in CPUs PROVE ReaderOK(c)'
    <3>1. ptr[c] # NONE /\ Protected(c) => tgt # ptr[c] /\ ptr[c] \in Elems
      BY <1>1 DEF ReaderOK, TypeOK
    <3>2. ptr[c] # NONE /\ Protected(c) => elem'[ptr[c]] = elem[ptr[c]]
      BY <1>1, <2>3, <3>1 DEF TypeOK
    <3> QED BY <1>1, <1>4, <3>2, ReaderFrame DEF UpdateCopy, rvars
  <2> QED BY <2>5, <2>6, <2>7 DEF IInv
<1>5. ASSUME UpdateLink PROVE IInv'
  <2>1. lock \in Writers /\ tgt \in Elems /\ wval[lock] \in Bundle
    BY <1>0, <1>1, <1>5 DEF TypeOK, WriterOK, UpdateLink
  <2>2. CommitValue(wval[lock]) \in Bundle
    BY <2>1, CommitType
  <2>3. TypeOK'
    BY <1>1, <1>5, <2>1, <2>2 DEF TypeOK, UpdateLink, Linked, AfterUpdate
  <2>4. WriterOK'
    BY <1>1, <1>5, <2>1, <2>2 DEF TypeOK, WriterOK, UpdateLink, AfterUpdate
  <2>5. ASSUME NEW c \in CPUs PROVE ReaderOK(c)'
    <3>1. UNCHANGED <<elem, ptr, act, reg, seen, churn>> /\ tgt' = NONE /\ lock # NONE
      BY <1>5 DEF UpdateLink
    <3> QED BY <1>0, <1>1, <3>1 DEF ReaderOK, Protected, Whole, TypeOK
  <2> QED BY <2>3, <2>4, <2>5 DEF IInv
<1> QED BY <1>2, <1>3, <1>4, <1>5

\* A packet's own steps read the tuple of its lookup while it is protected.
LEMMA PacketStep ==
    ASSUME IInv, NEW c \in CPUs,
           \/ Lookup(c) \/ ReadActive(c) \/ Return(c)
           \/ \E l \in Loads : Load(c, l)
    PROVE  IInv'
<1>1. TypeOK /\ WriterOK /\ \A d \in CPUs : ReaderOK(d)
  BY DEF IInv
<1>0. NONE \notin Elems /\ NONE \notin Writers /\ NONE \notin Nat
  BY BundleAssumption
<1>2. UNCHANGED <<elem, live, others, lock, tgt, left, wpc, wval>>
  BY DEF Lookup, ReadActive, Return, Load, kvars, wvars
<1>3. WriterOK'
  BY <1>1, <1>2 DEF WriterOK
<1>4. Blank \in [Loads -> Nat \cup {NONE}]
  BY DEF Blank
<1>5. ptr[c] # NONE => ptr[c] \in Elems /\ elem[ptr[c]] \in Bundle
  BY <1>1 DEF TypeOK
<1>6. CASE Lookup(c)
  <2>1. live \in Elems /\ elem[live] \in Bundle /\ Tuple(elem[live]) \in Tuples
    BY <1>1, <1>6, TupleType DEF TypeOK, Lookup
  <2>2. TypeOK'
    BY <1>1, <1>2, <1>6, <2>1 DEF TypeOK, Lookup
  <2>3. ASSUME NEW d \in CPUs PROVE ReaderOK(d)'
    <3>1. CASE d # c
      <4>1. /\ ptr'[d] = ptr[d] /\ act'[d] = act[d] /\ reg'[d] = reg[d]
            /\ seen'[d] = seen[d] /\ churn'[d] = churn[d]
        BY <1>1, <1>6, <3>1 DEF TypeOK, Lookup
      <4> QED BY <1>1, <1>2, <4>1 DEF ReaderOK, Protected, Whole
    <3>2. CASE d = c
      <4>1. /\ ptr'[c] = live /\ act'[c] = NONE /\ reg'[c] = Blank
            /\ seen'[c] = Tuple(elem[live])
            /\ churn'[c] = 0 => lock = NONE
        BY <1>1, <1>6 DEF TypeOK, Lookup, ReaderOK
      <4>2. tgt # live
        BY <1>0, <1>1, <2>1 DEF WriterOK
      <4>3. Whole(c)'
        BY <4>1 DEF Whole, Blank
      <4> QED BY <1>0, <1>2, <2>1, <3>2, <4>1, <4>2, <4>3 DEF ReaderOK, Protected
    <3> QED BY <3>1, <3>2
  <2> QED BY <1>3, <2>2, <2>3 DEF IInv
<1>7. CASE ReadActive(c)
  <2>1. elem[ptr[c]][ActiveWord] \in {0, 1}
    BY <1>5, <1>7, TupleType DEF ReadActive
  <2>2. TypeOK'
    BY <1>1, <1>2, <1>7, <2>1 DEF TypeOK, ReadActive
  <2>3. ASSUME NEW d \in CPUs PROVE ReaderOK(d)'
    <3>1. UNCHANGED <<ptr, reg, seen, churn>>
      BY <1>7 DEF ReadActive
    <3>2. d # c => act'[d] = act[d]
      BY <1>1, <1>7 DEF TypeOK, ReadActive
    <3>3. act'[c] = elem[ptr[c]][ActiveWord] /\ ptr[c] # NONE /\ act'[c] # NONE
      BY <1>0, <1>1, <1>7, <2>1 DEF TypeOK, ReadActive
    <3> QED BY <1>1, <1>2, <3>1, <3>2, <3>3 DEF ReaderOK, Protected, Whole
  <2> QED BY <1>3, <2>2, <2>3 DEF IInv
<1>8. ASSUME NEW l \in Loads, Load(c, l) PROVE IInv'
  <2>1. ptr[c] # NONE /\ act[c] \in {0, 1}
    BY <1>1, <1>8 DEF ReaderOK, Load, TypeOK
  <2>2. FieldOf(l) \in AllFields
    BY BundleAssumption DEF FieldOf, Loads, AllFields
  <2>3. elem[ptr[c]][<<act[c], FieldOf(l)>>] \in Nat
    BY <1>5, <2>1, <2>2 DEF Bundle, Words
  <2>4. /\ reg' = [reg EXCEPT ![c] = [reg[c] EXCEPT ![l] = elem[ptr[c]][<<act[c], FieldOf(l)>>]]]
        /\ UNCHANGED <<ptr, act, seen, churn>>
    BY <1>1, <1>8 DEF TypeOK, Load
  <2>5. [reg[c] EXCEPT ![l] = elem[ptr[c]][<<act[c], FieldOf(l)>>]] \in [Loads -> Nat \cup {NONE}]
    BY <1>1, <2>3 DEF TypeOK
  <2>6. TypeOK'
    BY <1>1, <1>2, <2>4, <2>5 DEF TypeOK
  <2>7. ASSUME NEW d \in CPUs PROVE ReaderOK(d)'
    <3>1. CASE d # c
      <4>1. reg'[d] = reg[d]
        BY <1>1, <2>4, <3>1 DEF TypeOK
      <4> QED BY <1>1, <1>2, <2>4, <4>1 DEF ReaderOK, Protected, Whole
    <3>2. CASE d = c
      <4>1. ASSUME Protected(c) PROVE Whole(c)'
        <5>1. seen[c] = Tuple(elem[ptr[c]]) /\ act[c] = elem[ptr[c]][ActiveWord] /\ Whole(c)
          BY <1>0, <1>1, <2>1, <4>1 DEF ReaderOK
        <5>2. seen[c][FieldOf(l)] = elem[ptr[c]][<<act[c], FieldOf(l)>>]
          BY <2>2, <5>1 DEF Tuple, Slot
        <5> QED BY <1>1, <2>4, <5>1, <5>2 DEF Whole, TypeOK
      <4> QED BY <1>0, <1>1, <1>2, <2>1, <2>4, <3>2, <4>1 DEF ReaderOK, Protected
    <3> QED BY <3>1, <3>2
  <2> QED BY <1>3, <2>6, <2>7 DEF IInv
<1>9. CASE Return(c)
  <2>1. TypeOK'
    BY <1>1, <1>2, <1>4, <1>9 DEF TypeOK, Return
  <2>2. ASSUME NEW d \in CPUs PROVE ReaderOK(d)'
    <3>1. d = c => ptr'[d] = NONE /\ act'[d] = NONE /\ reg'[d] = Blank
      BY <1>1, <1>9 DEF TypeOK, Return
    <3>2. d # c => /\ ptr'[d] = ptr[d] /\ act'[d] = act[d] /\ reg'[d] = reg[d]
                   /\ seen'[d] = seen[d] /\ churn'[d] = churn[d]
      BY <1>1, <1>9 DEF TypeOK, Return
    <3> QED BY <1>1, <1>2, <3>1, <3>2 DEF ReaderOK, Protected, Whole
  <2> QED BY <1>3, <2>1, <2>2 DEF IInv
<1> QED BY <1>6, <1>7, <1>8, <1>9

\* The invariant holds in every reachable state.
THEOREM Invariance == Spec => []IInv
<1>1. IInv /\ [Next]_vars => IInv'
  <2> SUFFICES ASSUME IInv, [Next]_vars PROVE IInv'
    OBVIOUS
  <2>1. CASE Next
    BY <2>1, ControlStep, KernelStep, PacketStep DEF Next
  <2>2. CASE UNCHANGED vars
    BY <2>2 DEF vars, IInv, TypeOK, WriterOK, ReaderOK, Protected, Whole, Tuple, Slot
  <2> QED BY <2>1, <2>2
<1> QED BY <1>1, InitIInv, PTL DEF Spec

\* Bundles in the map stay well formed: `active` is always 0 or 1, so the
\* masking in upf_tc_ingress never changes it.
THEOREM TypeCorrect == Spec => []TypeOK
<1>1. IInv => TypeOK BY DEF IInv
<1> QED BY <1>1, Invariance, PTL

\* Whatever the map recycles, a packet overlapped by fewer than two updates
\* or deletes, of its own or of any other entry, decides on the tuple its
\* lookup found.
THEOREM OneUpdateIsSafe == Spec => []TornNeedsTwoUpdates
<1>1. IInv => TornNeedsTwoUpdates
  <2> SUFFICES ASSUME IInv, NEW c \in CPUs, churn[c] < 2 PROVE Whole(c)
    BY DEF TornNeedsTwoUpdates
  <2>1. CASE ptr[c] = NONE
    BY <2>1 DEF IInv, ReaderOK, Whole, Blank
  <2>2. CASE ptr[c] # NONE
    BY <2>2 DEF IInv, ReaderOK, Protected
  <2> QED BY <2>1, <2>2
<1> QED BY <1>1, Invariance, PTL

-----------------------------------------------------------------------------
(* One writer, no recycling: the entry is an atomic register.              *)

OneWriter == \A v, w \in Writers : v = w

\* What enc_bundle packs shows the tuple of the slot that `active` names.
LEMMA EncTuple ==
    ASSUME NEW t0 \in Tuples, NEW t1 \in Tuples
    PROVE  /\ Tuple(Enc(0, t0, t1)) = t0 /\ Tuple(Enc(1, t0, t1)) = t1
           /\ CommitValue(Enc(0, t0, t1)) = Enc(1, t0, t1)
           /\ CommitValue(Enc(1, t0, t1)) = Enc(0, t0, t1)
<1>1. \A k \in {0, 1}, f \in AllFields : <<k, f>> \in Words /\ <<k, f>> # ActiveWord
  BY BundleAssumption DEF Words, ActiveWord, AllFields
<1>2. ActiveWord \in Words
  BY DEF Words
<1>3. \A a \in {0, 1} : Enc(a, t0, t1)[ActiveWord] = a
  BY <1>2 DEF Enc
<1>4. \A a \in {0, 1}, f \in AllFields :
        Enc(a, t0, t1)[<<0, f>>] = t0[f] /\ Enc(a, t0, t1)[<<1, f>>] = t1[f]
  <2> SUFFICES ASSUME NEW a \in {0, 1}, NEW f \in AllFields
               PROVE  Enc(a, t0, t1)[<<0, f>>] = t0[f] /\ Enc(a, t0, t1)[<<1, f>>] = t1[f]
    OBVIOUS
  <2>1. \A wd \in Words : wd # ActiveWord =>
          Enc(a, t0, t1)[wd] = IF wd[1] = 0 THEN t0[wd[2]] ELSE t1[wd[2]]
    BY DEF Enc
  <2>2. <<0, f>>[1] = 0 /\ <<0, f>>[2] = f /\ <<1, f>>[1] = 1 /\ <<1, f>>[2] = f
    OBVIOUS
  <2> QED BY <1>1, <2>1, <2>2
<1>5. t0 = [f \in AllFields |-> t0[f]] /\ t1 = [f \in AllFields |-> t1[f]]
  BY DEF Tuples
<1>6. Tuple(Enc(0, t0, t1)) = t0
  BY <1>3, <1>4, <1>5 DEF Tuple, Slot
<1>7. Tuple(Enc(1, t0, t1)) = t1
  BY <1>3, <1>4, <1>5 DEF Tuple, Slot
<1>8. ASSUME NEW a \in {0, 1} PROVE CommitValue(Enc(a, t0, t1)) = Enc(1 - a, t0, t1)
  <2> DEFINE b == Enc(a, t0, t1)
  <2>1. b = [wd \in Words |-> b[wd]] /\ b[ActiveWord] = a
    BY <1>3 DEF Enc
  <2>2. \A wd \in Words : wd # ActiveWord => b[wd] = Enc(1 - a, t0, t1)[wd]
    BY DEF Enc
  <2>3. Enc(1 - a, t0, t1)[ActiveWord] = 1 - a
    BY <1>3
  <2>4. Enc(1 - a, t0, t1) = [wd \in Words |-> Enc(1 - a, t0, t1)[wd]]
    BY DEF Enc
  <2> HIDE DEF b
  <2>5. CommitValue(b) = [wd \in Words |-> IF wd = ActiveWord THEN 1 - a ELSE b[wd]]
    BY <2>1 DEF CommitValue
  <2> QED BY <2>2, <2>3, <2>4, <2>5 DEF b
<1>9. 1 - 0 = 1 /\ 1 - 1 = 0
  OBVIOUS
<1> QED BY <1>6, <1>7, <1>8, <1>9

\* The first write of modify_tc_bundle shows the old tuple, the second the
\* new one.
LEMMA PrepTuple ==
    ASSUME NEW raw \in Bundle, NEW new \in Tuples
    PROVE  /\ Tuple(PrepValue(raw, new)) = Tuple(raw)
           /\ Tuple(CommitValue(PrepValue(raw, new))) = new
<1>1. Tuple(raw) \in Tuples /\ raw[ActiveWord] \in {0, 1}
  BY TupleType
<1>2. CASE raw[ActiveWord] = 0
  <2>1. PrepValue(raw, new) = Enc(0, Tuple(raw), new)
    BY <1>2 DEF PrepValue
  <2> QED BY <1>1, <2>1, EncTuple
<1>3. CASE raw[ActiveWord] = 1
  <2>1. PrepValue(raw, new) = Enc(1, new, Tuple(raw))
    BY <1>3 DEF PrepValue
  <2> QED BY <1>1, <2>1, EncTuple
<1> QED BY <1>1, <1>2, <1>3

\* The value a writer has yet to write, relative to the tuple in force, which
\* nobody else changes.
ValueOK(w) ==
    /\ wpc[w] = "install" => Tuple(wval[w])["generation"] = 0
    /\ wpc[w] = "prep" =>
         /\ live # NONE /\ Tuple(wval[w]) = Tuple(elem[live])
         /\ Tuple(CommitValue(wval[w]))["generation"] = Tuple(elem[live])["generation"] + 1
    /\ wpc[w] = "commit" =>
         /\ live # NONE
         /\ Tuple(wval[w])["generation"] = Tuple(elem[live])["generation"] + 1

\* The words copied so far are those of the value.
CopyOK == lock # NONE => \A wd \in Words \ left : elem[tgt][wd] = wval[lock][wd]

IdleOK == \A c \in CPUs : ptr[c] = NONE => seen[c] = NONE

RInv == (\A w \in Writers : ValueOK(w)) /\ CopyOK /\ IdleOK

\* The mapping's register.
InForce == IF live = NONE THEN NONE ELSE Tuple(elem[live])

LEMMA InitRInv == Init => RInv
  BY DEF Init, RInv, ValueOK, CopyOK, IdleOK

\* Steps of the control plane change a value and not the register.
LEMMA ControlRefines ==
    ASSUME IInv, RInv, NEW w \in Writers, OneWriter,
           InstallTcBundle(w) \/ InstallOther(w) \/ ModifyTcBundle(w) \/ Crash(w)
    PROVE  RInv' /\ UNCHANGED <<InForce, seen, reg>>
<1>1. /\ UNCHANGED <<elem, live, lock, tgt, left, ptr, act, reg, seen, churn>>
      /\ wpc[w] = "idle" \/ Crash(w)
  BY DEF InstallTcBundle, InstallOther, ModifyTcBundle, Crash, kvars, rvars
<1>2. UNCHANGED <<InForce, seen, reg>> /\ IdleOK'
  BY <1>1 DEF RInv, InForce, IdleOK
<1>3. lock = NONE
  <2>1. lock \in Writers \cup {NONE} /\ (lock # NONE => wpc[lock] # "idle")
    BY DEF IInv, TypeOK, WriterOK
  <2>2. lock \in Writers => lock = w
    BY DEF OneWriter
  <2> QED BY <1>1, <2>1, <2>2 DEF Crash
<1>4. CopyOK'
  BY <1>1, <1>3 DEF CopyOK
<1>5. SUFFICES ValueOK(w)'
  BY <1>2, <1>4 DEF RInv, OneWriter
<1>6. wpc \in [Writers -> {"idle", "prep", "commit", "install", "other"}]
      /\ wval \in [Writers -> Bundle \cup {NONE}]
  BY DEF IInv, TypeOK
<1>7. CASE InstallTcBundle(w)
  <2>1. PICK b \in Fresh : wval' = [wval EXCEPT ![w] = b]
    BY <1>7 DEF InstallTcBundle
  <2>2. PICK slot \in Tuples : slot["generation"] = 0 /\ b = Enc(0, slot, slot)
    BY FreshType
  <2>3. Tuple(Enc(0, slot, slot)) = slot
    BY <2>2, EncTuple
  <2>4. wval'[w] = Enc(0, slot, slot)
    BY <1>6, <2>1, <2>2
  <2>5. wpc'[w] = "install"
    BY <1>6, <1>7 DEF InstallTcBundle
  <2> QED BY <2>2, <2>3, <2>4, <2>5 DEF ValueOK
<1>8. CASE ModifyTcBundle(w)
  <2>1. PICK req \in [Fields -> Ids \cup {NONE}] :
          wval' = [wval EXCEPT ![w] =
            PrepValue(elem[live], NewTuple(Tuple(elem[live]), req))]
    BY <1>8 DEF ModifyTcBundle
  <2>2. live # NONE /\ elem[live] \in Bundle
    BY <1>8 DEF IInv, ModifyTcBundle, TypeOK
  <2> DEFINE cur == Tuple(elem[live])
             new == NewTuple(cur, req)
  <2>3. cur \in Tuples /\ new \in Tuples
    BY <2>2, TupleType, NewTupleType
  <2>4. new["generation"] = cur["generation"] + 1
    BY DEF NewTuple, AllFields
  <2>5. wval'[w] = PrepValue(elem[live], new) /\ wpc'[w] = "prep"
    BY <1>6, <1>8, <2>1 DEF ModifyTcBundle
  <2> HIDE DEF new
  <2>6. Tuple(wval'[w]) = cur /\ Tuple(CommitValue(wval'[w])) = new
    BY <2>2, <2>3, <2>5, PrepTuple
  <2> QED BY <1>1, <2>2, <2>4, <2>5, <2>6 DEF ValueOK
<1>9. CASE Crash(w) \/ InstallOther(w)
  <2>1. wpc'[w] \in {"idle", "other"}
    BY <1>6, <1>9 DEF Crash, InstallOther
  <2> QED BY <2>1 DEF ValueOK
<1> QED BY <1>7, <1>8, <1>9

\* In the kernel, only linking and deleting an element change the register.
LEMMA KernelRefines ==
    ASSUME IInv, IInv', RInv, OneWriter,
           \/ \E w \in Writers : UpdateBegin(w) \/ DeleteElem(w) \/ DeleteOther(w)
           \/ \E wd \in Words : UpdateCopy(wd)
           \/ UpdateLink
    PROVE  /\ RInv'
           /\ UNCHANGED <<seen, reg>>
           /\ \/ UNCHANGED InForce
              \/ InForce' = NONE
              \/ InForce' # NONE /\ InForce'["generation"] = 0
              \/ /\ InForce # NONE /\ InForce' # NONE
                 /\ InForce'["generation"] = InForce["generation"] + 1
<1>0. NONE \notin Elems /\ NONE \notin Writers /\ NONE \notin Tuples
  BY BundleAssumption DEF Tuples, AllFields
<1>1. TypeOK /\ WriterOK /\ CopyOK /\ IdleOK /\ \A w \in Writers : ValueOK(w)
  BY DEF IInv, RInv
<1>2. ASSUME NEW w \in Writers, UpdateBegin(w) PROVE RInv' /\ UNCHANGED <<InForce, seen, reg>>
  <2>1. UNCHANGED <<elem, live, wpc, wval, ptr, seen, reg>> /\ left' = Words
    BY <1>2 DEF UpdateBegin, wvars
  <2>2. CopyOK'
    BY <2>1 DEF CopyOK
  <2> QED BY <1>1, <2>1, <2>2 DEF RInv, ValueOK, IdleOK, InForce
<1>3. ASSUME NEW w \in Writers, DeleteElem(w)
      PROVE  RInv' /\ InForce' = NONE /\ UNCHANGED <<seen, reg>>
  <2>1. /\ wpc[w] = "idle" /\ live' = NONE /\ lock = NONE
        /\ UNCHANGED <<elem, lock, wpc, wval, ptr, seen, reg>>
    BY <1>3 DEF DeleteElem, wvars
  <2>2. \A v \in Writers : ValueOK(v)'
    BY <2>1 DEF ValueOK, OneWriter
  <2> QED BY <1>1, <2>1, <2>2 DEF RInv, CopyOK, IdleOK, InForce
<1>4. ASSUME NEW w \in Writers, DeleteOther(w) PROVE RInv' /\ UNCHANGED <<InForce, seen, reg>>
  <2>1. UNCHANGED <<elem, live, lock, tgt, left, wpc, wval, ptr, seen, reg>>
    BY <1>4 DEF DeleteOther, wvars
  <2> QED BY <1>1, <2>1 DEF RInv, ValueOK, CopyOK, IdleOK, InForce
<1>5. ASSUME NEW wd \in Words, UpdateCopy(wd) PROVE RInv' /\ UNCHANGED <<InForce, seen, reg>>
  <2>1. /\ elem' = [elem EXCEPT ![tgt] = [elem[tgt] EXCEPT ![wd] = wval[lock][wd]]]
        /\ left' = left \ {wd} /\ lock # NONE
        /\ UNCHANGED <<live, lock, tgt, wpc, wval, ptr, seen, reg>>
    BY <1>5 DEF UpdateCopy, wvars, rvars
  <2>2. tgt \in Elems /\ tgt # live
    BY <1>1, <2>1 DEF WriterOK
  <2>3. \A e \in Elems \ {tgt} : elem'[e] = elem[e]
    BY <1>1, <2>1 DEF TypeOK
  <2>4. live # NONE => elem'[live] = elem[live]
    BY <1>1, <2>2, <2>3 DEF TypeOK
  <2>5. \A v \in Writers : ValueOK(v)'
    BY <1>1, <2>1, <2>4 DEF ValueOK
  <2>6. elem'[tgt] = [elem[tgt] EXCEPT ![wd] = wval[lock][wd]] /\ elem[tgt] \in [Words -> Nat]
    BY <1>1, <2>1, <2>2 DEF TypeOK, Bundle
  <2>7. CopyOK'
    BY <1>1, <2>1, <2>6 DEF CopyOK
  <2>8. UNCHANGED InForce
    BY <2>1, <2>4 DEF InForce
  <2> QED BY <1>1, <2>1, <2>5, <2>7, <2>8 DEF RInv, IdleOK
<1>6. CASE UpdateLink
  <2>1. /\ tgt' = NONE /\ left = {} /\ lock # NONE /\ lock' = NONE
        /\ AfterUpdate(lock) /\ UNCHANGED <<elem, ptr, seen, reg>>
        /\ live' = IF wpc[lock] = "other" THEN live ELSE tgt
    BY <1>6 DEF UpdateLink, Linked
  <2>2. lock \in Writers /\ tgt \in Elems /\ wval[lock] \in Bundle /\ wpc[lock] # "idle"
    BY <1>0, <1>1, <2>1 DEF TypeOK, WriterOK
  <2>3. elem[tgt] = wval[lock]
    <3>1. elem[tgt] \in [Words -> Nat] /\ wval[lock] \in [Words -> Nat]
      BY <1>1, <2>2 DEF TypeOK, Bundle
    <3>2. \A wd \in Words : elem[tgt][wd] = wval[lock][wd]
      BY <1>1, <2>1 DEF CopyOK
    <3> QED BY <3>1, <3>2
  <2>4. wpc[lock] # "other" => InForce' = Tuple(wval[lock]) /\ InForce' # NONE
    BY <1>0, <2>1, <2>2, <2>3, TupleType DEF InForce
  <2>5. CopyOK' /\ IdleOK'
    BY <1>1, <2>1 DEF CopyOK, IdleOK
  <2>6. wpc[lock] \in {"prep", "commit", "install", "other"} /\ ValueOK(lock)
    BY <1>1, <2>2 DEF TypeOK
  <2>7. CASE wpc[lock] = "prep"
    <3>1. wpc'[lock] = "commit" /\ wval'[lock] = CommitValue(wval[lock])
      BY <1>1, <2>1, <2>2, <2>7 DEF AfterUpdate, TypeOK
    <3>2. UNCHANGED InForce /\ InForce = Tuple(elem[live])
      BY <2>4, <2>6, <2>7 DEF ValueOK, InForce
    <3>3. Tuple(elem'[live']) = Tuple(elem[live])
      BY <2>1, <2>3, <2>6, <2>7 DEF ValueOK
    <3>4. \A w \in Writers : ValueOK(w)'
      <4>1. live' # NONE
        BY <1>0, <2>1, <2>2, <2>7
      <4>2. Tuple(wval'[lock])["generation"] = Tuple(elem'[live'])["generation"] + 1
        BY <2>6, <2>7, <3>1, <3>3 DEF ValueOK
      <4>3. \A w \in Writers : w = lock => ValueOK(w)'
        BY <3>1, <4>1, <4>2 DEF ValueOK
      <4> QED BY <2>2, <4>3 DEF OneWriter
    <3> QED BY <2>1, <2>5, <3>2, <3>4 DEF RInv
  <2>8. CASE wpc[lock] \notin {"prep", "other"}
    <3>1. wpc'[lock] = "idle"
      BY <1>1, <2>1, <2>2, <2>8 DEF AfterUpdate, TypeOK
    <3>2. \A w \in Writers : ValueOK(w)'
      BY <2>2, <3>1 DEF ValueOK, OneWriter
    <3>3. \/ InForce'["generation"] = 0
          \/ InForce # NONE /\ InForce'["generation"] = InForce["generation"] + 1
      <4>1. live # NONE => InForce = Tuple(elem[live]) /\ InForce # NONE
        BY <1>0, <1>1, TupleType DEF InForce, TypeOK
      <4> QED BY <2>4, <2>6, <2>8, <4>1 DEF ValueOK
    <3> QED BY <2>1, <2>4, <2>5, <2>8, <3>2, <3>3 DEF RInv
  <2>9. CASE wpc[lock] = "other"
    <3>1. UNCHANGED InForce
      BY <2>1, <2>9 DEF InForce
    <3>2. wpc'[lock] = "idle"
      BY <1>1, <2>1, <2>2, <2>9 DEF AfterUpdate, TypeOK
    <3>3. \A w \in Writers : ValueOK(w)'
      BY <2>2, <3>2 DEF ValueOK, OneWriter
    <3> QED BY <2>1, <2>5, <3>1, <3>3 DEF RInv
  <2> QED BY <2>7, <2>8, <2>9
<1> QED BY <1>2, <1>3, <1>4, <1>5, <1>6

\* A packet's steps: taking the register, using what was taken, or neither.
LEMMA PacketRefines ==
    ASSUME IInv, RInv, ~Recycling, NEW c \in CPUs,
           \/ Lookup(c) \/ ReadActive(c) \/ Return(c)
           \/ \E l \in Loads : Load(c, l)
    PROVE  /\ RInv' /\ UNCHANGED InForce
           /\ \/ UNCHANGED <<seen, reg>>
              \/ /\ seen[c] = NONE /\ InForce # NONE
                 /\ seen' = [seen EXCEPT ![c] = InForce] /\ reg' = reg
              \/ /\ seen' = [seen EXCEPT ![c] = NONE] /\ reg' = [reg EXCEPT ![c] = Blank]
              \/ /\ seen[c] # NONE /\ seen' = seen
                 /\ \E l \in Loads : reg' = [reg EXCEPT ![c][l] = seen[c][FieldOf(l)]]
<1>0. NONE \notin Elems /\ NONE \notin Tuples
  BY BundleAssumption DEF Tuples, AllFields
<1>1. TypeOK /\ CopyOK /\ IdleOK /\ (\A w \in Writers : ValueOK(w)) /\ ReaderOK(c)
  BY DEF IInv, RInv
<1>2. UNCHANGED <<elem, live, others, lock, tgt, left, wpc, wval>>
  BY DEF Lookup, ReadActive, Return, Load, kvars, wvars
<1>3. CopyOK' /\ UNCHANGED InForce /\ \A w \in Writers : ValueOK(w)'
  BY <1>1, <1>2 DEF CopyOK, InForce, ValueOK
<1>4. CASE Lookup(c)
  <2>1. /\ ptr[c] = NONE /\ live # NONE /\ ptr' = [ptr EXCEPT ![c] = live] /\ reg' = reg
        /\ seen' = [seen EXCEPT ![c] = Tuple(elem[live])]
    BY <1>4 DEF Lookup
  <2>2. InForce = Tuple(elem[live]) /\ InForce # NONE
    BY <1>0, <1>1, <2>1, TupleType DEF InForce, TypeOK
  <2>3. seen[c] = NONE /\ IdleOK'
    BY <1>1, <2>1 DEF IdleOK, TypeOK
  <2> QED BY <1>3, <2>1, <2>2, <2>3 DEF RInv
<1>5. CASE ReadActive(c)
  <2>1. UNCHANGED <<ptr, seen, reg>>
    BY <1>5 DEF ReadActive
  <2> QED BY <1>1, <1>3, <2>1 DEF RInv, IdleOK
<1>6. CASE Return(c)
  <2>1. /\ ptr' = [ptr EXCEPT ![c] = NONE] /\ seen' = [seen EXCEPT ![c] = NONE]
        /\ reg' = [reg EXCEPT ![c] = Blank]
    BY <1>6 DEF Return
  <2>2. IdleOK'
    BY <1>1, <2>1 DEF IdleOK, TypeOK
  <2> QED BY <1>3, <2>1, <2>2 DEF RInv
<1>7. ASSUME NEW l \in Loads, Load(c, l)
      PROVE  /\ IdleOK' /\ seen' = seen /\ seen[c] # NONE
             /\ reg' = [reg EXCEPT ![c][l] = seen[c][FieldOf(l)]]
  <2>1. /\ act[c] # NONE /\ UNCHANGED <<ptr, act, seen>>
        /\ reg' = [reg EXCEPT ![c][l] = elem[ptr[c]][<<act[c], FieldOf(l)>>]]
    BY <1>7 DEF Load
  <2>2. /\ ptr[c] # NONE /\ seen[c] = Tuple(elem[ptr[c]])
        /\ act[c] = elem[ptr[c]][ActiveWord]
    BY <1>1, <2>1 DEF ReaderOK, Protected
  <2>3. FieldOf(l) \in AllFields
    BY BundleAssumption DEF FieldOf, Loads, AllFields
  <2>4. seen[c][FieldOf(l)] = elem[ptr[c]][<<act[c], FieldOf(l)>>]
    BY <2>2, <2>3 DEF Tuple, Slot
  <2>5. seen[c] # NONE
    BY <1>0, <1>1, <2>2, TupleType DEF TypeOK
  <2> QED BY <1>1, <2>1, <2>4, <2>5 DEF IdleOK
<1> QED BY <1>3, <1>4, <1>5, <1>6, <1>7 DEF RInv

\* If elements are not recycled under a packet, the entry one agent process
\* installs, modifies and removes is the atomic register that AtomicRule
\* describes: neither the two writes of modify_tc_bundle, nor a death between
\* them, nor the word-by-word copies show to a packet on any CPU.
THEOREM ImplementsAtomicRule ==
    ASSUME ~Recycling, OneWriter
    PROVE  Spec => IsAtomicRule
<1> USE DEF Rule!AllFields, Rule!Loads, Rule!FieldOf, Rule!Blank
<1>1. Init => RInv /\ Rule!Init
  BY InitRInv DEF Init, Rule!Init, Blank, Loads, AllFields
<1>2. IInv /\ IInv' /\ RInv /\ [Next]_vars => RInv' /\ [Rule!Next]_(Rule!vars)
  <2> SUFFICES ASSUME IInv, IInv', RInv, [Next]_vars
               PROVE  RInv' /\ [Rule!Next]_(Rule!vars)
    OBVIOUS
  <2>0. (InForce = IF live = NONE THEN NONE ELSE Tuple(elem[live]))
        /\ (InForce' = IF live' = NONE THEN NONE ELSE Tuple(elem'[live']))
    BY DEF InForce, Tuple, Slot
  <2>1. CASE \E w \in Writers :
               InstallTcBundle(w) \/ InstallOther(w) \/ ModifyTcBundle(w) \/ Crash(w)
    BY <2>0, <2>1, ControlRefines DEF Rule!vars
  <2>2. CASE \/ \E w \in Writers : UpdateBegin(w) \/ DeleteElem(w) \/ DeleteOther(w)
             \/ \E wd \in Words : UpdateCopy(wd)
             \/ UpdateLink
    <3>1. RInv' /\ UNCHANGED <<seen, reg>>
      BY <2>2, KernelRefines
    <3>2. \/ UNCHANGED InForce
          \/ InForce' = NONE
          \/ InForce' # NONE /\ InForce'["generation"] = 0
          \/ /\ InForce # NONE /\ InForce' # NONE
             /\ InForce'["generation"] = InForce["generation"] + 1
      BY <2>2, KernelRefines
    <3>3. [Rule!Next]_(Rule!vars)
      BY <2>0, <3>1, <3>2 DEF Rule!Next, Rule!Install, Rule!Modify, Rule!Delete, Rule!vars
    <3> QED BY <3>1, <3>3
  <2>3. ASSUME NEW c \in CPUs,
               Lookup(c) \/ ReadActive(c) \/ Return(c) \/ \E l \in Loads : Load(c, l)
        PROVE  RInv' /\ [Rule!Next]_(Rule!vars)
    <3>1. RInv' /\ UNCHANGED InForce
      BY <2>3, PacketRefines
    <3>2. \/ UNCHANGED <<seen, reg>>
          \/ /\ seen[c] = NONE /\ InForce # NONE
             /\ seen' = [seen EXCEPT ![c] = InForce] /\ reg' = reg
          \/ /\ seen' = [seen EXCEPT ![c] = NONE] /\ reg' = [reg EXCEPT ![c] = Blank]
          \/ /\ seen[c] # NONE /\ seen' = seen
             /\ \E l \in Loads : reg' = [reg EXCEPT ![c][l] = seen[c][FieldOf(l)]]
      BY <2>3, PacketRefines
    <3>3. [Rule!Next]_(Rule!vars)
      BY <2>0, <3>1, <3>2 DEF Rule!Next, Rule!Take, Rule!Use, Rule!Done, Rule!vars,
           Blank, Loads, AllFields, FieldOf
    <3> QED BY <3>1, <3>3
  <2>4. CASE UNCHANGED vars
    <3>1. RInv'
      BY <2>4 DEF vars, RInv, ValueOK, CopyOK, IdleOK
    <3> QED BY <2>4, <3>1 DEF vars, Rule!vars
  <2> QED BY <2>1, <2>2, <2>3, <2>4 DEF Next
<1> QED BY <1>1, <1>2, Invariance, PTL DEF Spec, IsAtomicRule, Rule!Spec
=============================================================================
