--------------------------- MODULE MeteringProofs ---------------------------
(***************************************************************************)
(* Proofs about how upf_tc_ingress meters packets: the usage it counts     *)
(* (UrrAccounting), for any CPUs, URRs, packets and map size, and the      *)
(* tokens it charges (QerBucket), for any number of CPUs and any rates,    *)
(* bursts, packet lengths and word size.                                   *)
(***************************************************************************)
EXTENDS UrrAccounting, QerBucket, SumTheorems

-----------------------------------------------------------------------------
(* Usage accounting.                                                       *)


\* A URR the map does not hold has been counted nowhere; as long as there is
\* room for it, no packet of it has been accounted either.
AbsentOK(u) ==
    u \notin present =>
        /\ bytes[u] = Zero[u] /\ pkts[u] = Zero[u]
        /\ Room => ran[u] = Zero[u]

\* A CPU that missed u has not lost a packet of u yet, if another CPU has
\* created the entry meanwhile.
MissedOK(c) ==
    \A u \in Urrs, l \in Lens :
        pend[c] = <<u, l>> /\ u \in present => ran[u][c] = pkts[u][c]

\* read_urr visits CPUs only for a URR.
ReadOK == rleft # {} => rurr \in Urrs

IInv ==
    /\ TypeOK /\ IsFiniteSet(present) /\ ReadOK
    /\ PresentLosesOne
    /\ \A u \in Urrs : AbsentOK(u)
    /\ \A c \in CPUs : MissedOK(c)

\* A CPU with a packet pending is not one without.
LEMMA NotNone ==
    ASSUME NEW u \in Urrs, NEW l \in Lens
    PROVE  <<u, l>> # NONE
<1>1. <<u, l>> \in Urrs \X Lens
  OBVIOUS
<1> QED BY <1>1, UrrAssumption

\* Nothing has been counted when the map is created.
LEMMA InitIInv == Init => IInv
<1> SUFFICES ASSUME Init PROVE IInv
  OBVIOUS
<1>1. Cardinality({}) = 0 /\ IsFiniteSet({})
  BY FS_EmptySet
<1>2. TypeOK /\ IsFiniteSet(present)
  BY <1>1, UrrAssumption DEF Init, TypeOK, Zero
<1>3. PresentLosesOne /\ ReadOK
  BY DEF Init, PresentLosesOne, ReadOK
<1>4. \A u \in Urrs : AbsentOK(u)
  BY DEF Init, AbsentOK
<1>5. \A c \in CPUs : MissedOK(c)
  BY UrrAssumption DEF Init, MissedOK
<1> QED BY <1>2, <1>3, <1>4, <1>5 DEF IInv

\* Room does not come back: entries are never removed.
LEMMA RoomBefore ==
    ASSUME TypeOK, IsFiniteSet(present), NEW u, present' = present \cup {u}, Room'
    PROVE  Room
<1>1. Cardinality(present) \in Nat
  BY FS_CardinalityType
<1>2. Cardinality(present \cup {u}) = IF u \in present THEN Cardinality(present)
                                      ELSE Cardinality(present) + 1
  BY FS_AddElement
<1> QED BY <1>1, <1>2, UrrAssumption DEF Room

\* An increment on one CPU touches that CPU's counters alone.
LEMMA AccountStep ==
    ASSUME IInv, NEW c \in CPUs, NEW u \in Urrs, NEW l \in Lens, Account(c, u, l)
    PROVE  IInv'
<1>1. /\ TypeOK /\ IsFiniteSet(present) /\ ReadOK /\ PresentLosesOne
      /\ (\A v \in Urrs : AbsentOK(v)) /\ (\A d \in CPUs : MissedOK(d))
  BY DEF IInv
<1>2. /\ pend[c] = NONE /\ u \in present /\ UNCHANGED <<present, pend, rvars>>
      /\ bytes' = [bytes EXCEPT ![u][c] = @ + l]
      /\ pkts' = [pkts EXCEPT ![u][c] = @ + 1]
      /\ ran' = [ran EXCEPT ![u][c] = @ + 1]
      /\ ranBytes' = [ranBytes EXCEPT ![u][c] = @ + l]
  BY DEF Account, Ran
<1>3. l \in Nat
  BY UrrAssumption
<1>4. TypeOK'
  BY <1>1, <1>2, <1>3 DEF TypeOK, rvars
<1>5. ASSUME NEW v \in Urrs, v # u
      PROVE  bytes'[v] = bytes[v] /\ pkts'[v] = pkts[v] /\ ran'[v] = ran[v]
             /\ ranBytes'[v] = ranBytes[v]
  BY <1>1, <1>2, <1>5 DEF TypeOK
<1>6. ASSUME NEW d \in CPUs
      PROVE  /\ pkts'[u][d] = IF d = c THEN pkts[u][d] + 1 ELSE pkts[u][d]
             /\ ran'[u][d] = IF d = c THEN ran[u][d] + 1 ELSE ran[u][d]
             /\ bytes'[u][d] = IF d = c THEN bytes[u][d] + l ELSE bytes[u][d]
             /\ ranBytes'[u][d] = IF d = c THEN ranBytes[u][d] + l ELSE ranBytes[u][d]
             /\ pkts[u][d] \in Nat /\ ran[u][d] \in Nat
             /\ bytes[u][d] \in Nat /\ ranBytes[u][d] \in Nat
  BY <1>1, <1>2 DEF TypeOK
<1>7. ASSUME NEW v \in present PROVE LosesAtMostOne(v)'
  <2>1. LosesAtMostOne(v) /\ v \in Urrs
    BY <1>1 DEF PresentLosesOne, TypeOK
  <2>2. CASE v = u
    BY <1>3, <1>6, <2>1, <2>2 DEF LosesAtMostOne
  <2>3. CASE v # u
    BY <1>5, <2>1, <2>3 DEF LosesAtMostOne
  <2> QED BY <2>2, <2>3
<1>8. PresentLosesOne'
  BY <1>1, <1>2, <1>5, <1>7 DEF PresentLosesOne
<1>9. ASSUME NEW v \in Urrs PROVE AbsentOK(v)'
  BY <1>1, <1>2, <1>5 DEF AbsentOK, Room
<1>10. ASSUME NEW d \in CPUs PROVE MissedOK(d)'
  <2> SUFFICES ASSUME NEW v \in Urrs, NEW k \in Lens, pend[d] = <<v, k>>, v \in present
               PROVE  ran'[v][d] = pkts'[v][d]
    BY <1>2 DEF MissedOK
  <2>1. ran[v][d] = pkts[v][d]
    BY <1>1 DEF MissedOK
  <2>2. d # c
    BY <1>2, NotNone
  <2>3. CASE v = u
    BY <1>6, <2>1, <2>2, <2>3
  <2>4. CASE v # u
    BY <1>5, <2>1, <2>4
  <2> QED BY <2>3, <2>4
<1> QED BY <1>1, <1>2, <1>4, <1>8, <1>9, <1>10 DEF IInv, ReadOK, rvars

\* A lookup that misses changes no counter.
LEMMA MissStep ==
    ASSUME IInv, NEW c \in CPUs, NEW u \in Urrs, NEW l \in Lens, Miss(c, u, l)
    PROVE  IInv'
<1>1. /\ TypeOK /\ IsFiniteSet(present) /\ ReadOK /\ PresentLosesOne
      /\ (\A v \in Urrs : AbsentOK(v)) /\ (\A d \in CPUs : MissedOK(d))
  BY DEF IInv
<1>2. /\ u \notin present /\ pend' = [pend EXCEPT ![c] = <<u, l>>]
      /\ UNCHANGED <<present, bytes, pkts, ran, ranBytes, rurr, rleft, rsum, rfloor>>
  BY DEF Miss, counters, hvars, rvars
<1>3. TypeOK'
  BY <1>1, <1>2 DEF TypeOK
<1>4. PresentLosesOne' /\ IsFiniteSet(present)'
  BY <1>1, <1>2 DEF PresentLosesOne, LosesAtMostOne
<1>5. \A v \in Urrs : AbsentOK(v)'
  BY <1>1, <1>2 DEF AbsentOK, Room
<1>6. ASSUME NEW d \in CPUs PROVE MissedOK(d)'
  <2> SUFFICES ASSUME NEW v \in Urrs, NEW k \in Lens, pend'[d] = <<v, k>>, v \in present
               PROVE  ran[v][d] = pkts[v][d]
    BY <1>2 DEF MissedOK
  <2>1. CASE d = c
    BY <1>1, <1>2, <2>1 DEF TypeOK
  <2>2. CASE d # c
    <3>1. pend'[d] = pend[d]
      BY <1>1, <1>2, <2>2 DEF TypeOK
    <3> QED BY <1>1, <3>1 DEF MissedOK
  <2> QED BY <2>1, <2>2
<1> QED BY <1>1, <1>2, <1>3, <1>4, <1>5, <1>6 DEF IInv, ReadOK

\* The insertion succeeds, and this CPU's counter holds the packet; it fails
\* because the entry exists, and this packet is the one lost; or it fails
\* because the map is full, and stays so.
LEMMA CreateStep ==
    ASSUME IInv, NEW c \in CPUs, Create(c)
    PROVE  IInv'
<1>1. /\ TypeOK /\ IsFiniteSet(present) /\ ReadOK /\ PresentLosesOne
      /\ (\A v \in Urrs : AbsentOK(v)) /\ (\A d \in CPUs : MissedOK(d))
  BY DEF IInv
<1>2. PICK u \in Urrs, l \in Lens : pend[c] = <<u, l>>
  BY <1>1 DEF Create, TypeOK
<1>3. /\ ran' = [ran EXCEPT ![u][c] = @ + 1]
      /\ ranBytes' = [ranBytes EXCEPT ![u][c] = @ + l]
      /\ pend' = [pend EXCEPT ![c] = NONE]
      /\ UNCHANGED <<rurr, rleft, rsum, rfloor>>
  BY <1>2 DEF Create, Ran, rvars
<1>4. l \in Nat
  BY UrrAssumption
<1>5. ASSUME NEW v \in Urrs, v # u
      PROVE  ran'[v] = ran[v] /\ ranBytes'[v] = ranBytes[v]
  BY <1>1, <1>3, <1>5 DEF TypeOK
<1>6. ASSUME NEW d \in CPUs
      PROVE  /\ ran'[u][d] = IF d = c THEN ran[u][d] + 1 ELSE ran[u][d]
             /\ ranBytes'[u][d] = IF d = c THEN ranBytes[u][d] + l ELSE ranBytes[u][d]
             /\ pkts[u][d] \in Nat /\ ran[u][d] \in Nat
             /\ bytes[u][d] \in Nat /\ ranBytes[u][d] \in Nat
  BY <1>1, <1>3 DEF TypeOK
<1>7. /\ pend' \in [CPUs -> (Urrs \X Lens) \cup {NONE}]
      /\ ran' \in [Urrs -> [CPUs -> Nat]] /\ ranBytes' \in [Urrs -> [CPUs -> Nat]]
  BY <1>1, <1>3, <1>4 DEF TypeOK
<1>8. \A d \in CPUs, v \in Urrs, k \in Lens : pend'[d] = <<v, k>> => d # c /\ pend[d] = <<v, k>>
  BY <1>1, <1>3, NotNone DEF TypeOK
<1>9. CASE u \notin present /\ Room
  <2>1. /\ present' = present \cup {u}
        /\ bytes' = [bytes EXCEPT ![u] = Fresh(c, l)]
        /\ pkts' = [pkts EXCEPT ![u] = Fresh(c, 1)]
    BY <1>2, <1>9 DEF Create
  <2>2. ran[u] = Zero[u]
    BY <1>1, <1>9 DEF AbsentOK
  <2>3. Fresh(c, l) \in [CPUs -> Nat] /\ Fresh(c, 1) \in [CPUs -> Nat]
    BY <1>4 DEF Fresh
  <2>4. /\ Cardinality(present) \in Nat /\ IsFiniteSet(present')
        /\ Cardinality(present') = Cardinality(present) + 1
    BY <1>1, <1>9, <2>1, FS_AddElement, FS_CardinalityType
  <2>5. TypeOK'
    BY <1>1, <1>3, <1>7, <1>9, <2>1, <2>3, <2>4, UrrAssumption DEF TypeOK, Room
  <2>6. ASSUME NEW v \in Urrs, v # u PROVE bytes'[v] = bytes[v] /\ pkts'[v] = pkts[v]
    BY <1>1, <2>1, <2>6 DEF TypeOK
  <2>7. ASSUME NEW d \in CPUs
        PROVE  /\ bytes'[u][d] = IF d = c THEN l ELSE 0
               /\ pkts'[u][d] = IF d = c THEN 1 ELSE 0
               /\ ran[u][d] = 0
    BY <1>1, <2>1, <2>2 DEF TypeOK, Fresh, Zero
  <2>8. LosesAtMostOne(u)'
    BY <1>4, <1>6, <2>7 DEF LosesAtMostOne
  <2>9. ASSUME NEW v \in present PROVE LosesAtMostOne(v)'
    <3>1. v \in Urrs /\ v # u /\ LosesAtMostOne(v)
      BY <1>1, <1>9 DEF TypeOK, PresentLosesOne
    <3> QED BY <1>5, <2>6, <3>1 DEF LosesAtMostOne
  <2>10. PresentLosesOne'
    BY <1>1, <2>1, <2>6, <2>8, <2>9 DEF PresentLosesOne, Zero
  <2>11. ASSUME NEW v \in Urrs PROVE AbsentOK(v)'
    BY <1>1, <1>5, <2>1, <2>6, RoomBefore DEF AbsentOK, Zero
  <2>12. ASSUME NEW d \in CPUs PROVE MissedOK(d)'
    <3> SUFFICES ASSUME NEW v \in Urrs, NEW k \in Lens, pend'[d] = <<v, k>>, v \in present'
                 PROVE  ran'[v][d] = pkts'[v][d]
      BY DEF MissedOK
    <3>1. d # c /\ pend[d] = <<v, k>>
      BY <1>8
    <3>2. CASE v = u
      BY <1>6, <2>7, <3>1, <3>2
    <3>3. CASE v # u
      <4>1. v \in present
        BY <2>1, <3>3
      <4>2. ran[v][d] = pkts[v][d]
        BY <1>1, <3>1, <4>1 DEF MissedOK
      <4> QED BY <1>5, <2>6, <3>3, <4>2
    <3> QED BY <3>2, <3>3
  <2> QED BY <1>1, <1>3, <2>4, <2>5, <2>10, <2>11, <2>12 DEF IInv, ReadOK
<1>10. CASE ~(u \notin present /\ Room)
  <2>1. UNCHANGED <<present, bytes, pkts>>
    BY <1>2, <1>10 DEF Create, counters
  <2>2. TypeOK' /\ IsFiniteSet(present)'
    BY <1>1, <1>3, <1>7, <2>1 DEF TypeOK
  <2>3. ASSUME NEW v \in present PROVE LosesAtMostOne(v)'
    <3>1. v \in Urrs /\ LosesAtMostOne(v)
      BY <1>1 DEF TypeOK, PresentLosesOne
    <3>2. CASE v = u
      <4>1. ran[u][c] = pkts[u][c]
        BY <1>1, <1>2, <3>2 DEF MissedOK
      <4> QED BY <1>4, <1>6, <2>1, <3>1, <3>2, <4>1 DEF LosesAtMostOne
    <3>3. CASE v # u
      BY <1>5, <2>1, <3>1, <3>3 DEF LosesAtMostOne
    <3> QED BY <3>2, <3>3
  <2>4. PresentLosesOne'
    BY <1>1, <2>1, <2>3 DEF PresentLosesOne
  <2>5. ASSUME NEW v \in Urrs PROVE AbsentOK(v)'
    BY <1>1, <1>5, <1>10, <2>1 DEF AbsentOK, Room
  <2>6. ASSUME NEW d \in CPUs PROVE MissedOK(d)'
    <3> SUFFICES ASSUME NEW v \in Urrs, NEW k \in Lens, pend'[d] = <<v, k>>, v \in present
                 PROVE  ran'[v][d] = pkts[v][d]
      BY <2>1 DEF MissedOK
    <3>1. d # c /\ pend[d] = <<v, k>>
      BY <1>8
    <3>2. ran[v][d] = pkts[v][d]
      BY <1>1, <3>1 DEF MissedOK
    <3>3. CASE v = u
      BY <1>6, <3>1, <3>2, <3>3
    <3>4. CASE v # u
      BY <1>5, <3>2, <3>4
    <3> QED BY <3>3, <3>4
  <2> QED BY <1>1, <1>3, <2>2, <2>4, <2>5, <2>6 DEF IInv, ReadOK
<1> QED BY <1>9, <1>10

\* read_urr only reads.
LEMMA ReadStep ==
    ASSUME IInv, (\E c \in CPUs : ReadCpu(c)) \/ (\E u \in Urrs : ReadBegin(u)) \/ ReadEnd
    PROVE  IInv'
<1>1. /\ TypeOK /\ IsFiniteSet(present) /\ ReadOK /\ PresentLosesOne
      /\ (\A v \in Urrs : AbsentOK(v)) /\ (\A d \in CPUs : MissedOK(d))
  BY DEF IInv
<1>2. UNCHANGED <<present, bytes, pkts, pend, ran, ranBytes>>
  BY DEF ReadCpu, ReadBegin, ReadEnd, counters, hvars
<1>3. /\ rurr' \in Urrs \cup {NONE} /\ rleft' \subseteq CPUs /\ rfloor' \in [CPUs -> Nat]
      /\ ReadOK'
  BY <1>1 DEF TypeOK, ReadOK, ReadCpu, ReadBegin, ReadEnd
<1>4. rsum' \in Nat
  <2>1. ASSUME NEW c \in CPUs, ReadCpu(c) PROVE rsum' \in Nat
    <3>1. bytes[rurr][c] \in Nat
      BY <1>1, <2>1 DEF TypeOK, ReadOK, ReadCpu
    <3> QED BY <1>1, <2>1, <3>1 DEF TypeOK, ReadCpu
  <2> QED BY <2>1 DEF ReadBegin, ReadEnd
<1>5. TypeOK'
  BY <1>1, <1>2, <1>3, <1>4 DEF TypeOK
<1>6. PresentLosesOne' /\ (\A v \in Urrs : AbsentOK(v)') /\ (\A d \in CPUs : MissedOK(d)')
  BY <1>1, <1>2 DEF PresentLosesOne, LosesAtMostOne, AbsentOK, Room, MissedOK
<1> QED BY <1>1, <1>2, <1>3, <1>5, <1>6 DEF IInv

-----------------------------------------------------------------------------
\* The invariant holds in every reachable state.
THEOREM Invariance ==
    Spec => []IInv
<1>1. IInv /\ [Next]_vars => IInv'
  <2> SUFFICES ASSUME IInv, [Next]_vars PROVE IInv'
    OBVIOUS
  <2>1. CASE Next
    BY <2>1, AccountStep, MissStep, CreateStep, ReadStep DEF Next
  <2>2. CASE UNCHANGED vars
    BY <2>2 DEF vars, IInv, TypeOK, ReadOK, PresentLosesOne, LosesAtMostOne, AbsentOK, Room,
       MissedOK
  <2> QED BY <2>1, <2>2
<1> QED BY <1>1, InitIInv, PTL DEF Spec

\* urr_counters stays within its size and every counter a natural number.
THEOREM TypeCorrect ==
    Spec => []TypeOK
<1>1. IInv => TypeOK BY DEF IInv
<1> QED BY <1>1, Invariance, PTL

\* However many CPUs race to create the entry of a URR, each loses at most
\* one packet of it, and no count is erased.
THEOREM RaceLosesOne ==
    Spec => []PresentLosesOne
<1>1. IInv => PresentLosesOne BY DEF IInv
<1> QED BY <1>1, Invariance, PTL

-----------------------------------------------------------------------------
(* Reports.                                                                *)

\* What read_urr has added up so far, together with what it has still to
\* read, covers the counters it began with; and what it has added up was used
\* on the CPUs it has read.
ReportOK ==
    rurr # NONE =>
        /\ rurr \in present
        /\ SumFunctionOnSet(rfloor, CPUs) =< rsum + SumFunctionOnSet(bytes[rurr], rleft)
        /\ rsum =< SumFunctionOnSet(ranBytes[rurr], CPUs \ rleft)

\* The sums above are numbers.
LEMMA SumsAreNat ==
    ASSUME TypeOK, NEW u \in Urrs, NEW S \in SUBSET CPUs
    PROVE  /\ SumFunctionOnSet(rfloor, S) \in Nat /\ SumFunctionOnSet(bytes[u], S) \in Nat
           /\ SumFunctionOnSet(ranBytes[u], S) \in Nat
<1>1. rfloor \in [CPUs -> Nat] /\ bytes[u] \in [CPUs -> Nat] /\ ranBytes[u] \in [CPUs -> Nat]
  BY DEF TypeOK
<1>2. IsFiniteSet(CPUs)
  BY UrrAssumption
<1> QED BY <1>1, <1>2, SumType

\* Counters that only grow keep a report in its bounds.
LEMMA ReportGrows ==
    ASSUME TypeOK, TypeOK', ReportOK, UNCHANGED rvars, present \subseteq present',
           \A u \in present, d \in CPUs :
               bytes[u][d] =< bytes'[u][d] /\ ranBytes[u][d] =< ranBytes'[u][d]
    PROVE  ReportOK'
<1> SUFFICES ASSUME rurr # NONE
             PROVE  /\ rurr \in present'
                    /\ SumFunctionOnSet(rfloor, CPUs) =< rsum + SumFunctionOnSet(bytes'[rurr], rleft)
                    /\ rsum =< SumFunctionOnSet(ranBytes'[rurr], CPUs \ rleft)
  BY DEF ReportOK, rvars
<1>1. /\ rurr \in present /\ rurr \in Urrs /\ rleft \in SUBSET CPUs
      /\ CPUs \ rleft \in SUBSET CPUs /\ CPUs \in SUBSET CPUs
      /\ SumFunctionOnSet(rfloor, CPUs) =< rsum + SumFunctionOnSet(bytes[rurr], rleft)
      /\ rsum =< SumFunctionOnSet(ranBytes[rurr], CPUs \ rleft) /\ rsum \in Nat
  BY DEF ReportOK, TypeOK
<1>2. /\ bytes[rurr] \in [CPUs -> Nat] /\ bytes'[rurr] \in [CPUs -> Nat]
      /\ ranBytes[rurr] \in [CPUs -> Nat] /\ ranBytes'[rurr] \in [CPUs -> Nat]
      /\ rfloor \in [CPUs -> Nat] /\ IsFiniteSet(CPUs)
  BY <1>1, UrrAssumption DEF TypeOK
<1>3. SumFunctionOnSet(bytes[rurr], rleft) =< SumFunctionOnSet(bytes'[rurr], rleft)
  <2>1. \A d \in rleft : bytes[rurr][d] =< bytes'[rurr][d]
    BY <1>1
  <2> QED BY <1>1, <1>2, <2>1, SumMonotone
<1>4. SumFunctionOnSet(ranBytes[rurr], CPUs \ rleft) =< SumFunctionOnSet(ranBytes'[rurr], CPUs \ rleft)
  <2>1. \A d \in CPUs \ rleft : ranBytes[rurr][d] =< ranBytes'[rurr][d]
    BY <1>1
  <2> QED BY <1>1, <1>2, <2>1, SumMonotone
<1>5. /\ SumFunctionOnSet(rfloor, CPUs) \in Nat
      /\ SumFunctionOnSet(bytes[rurr], rleft) \in Nat
      /\ SumFunctionOnSet(bytes'[rurr], rleft) \in Nat
      /\ SumFunctionOnSet(ranBytes[rurr], CPUs \ rleft) \in Nat
      /\ SumFunctionOnSet(ranBytes'[rurr], CPUs \ rleft) \in Nat
  BY <1>1, <1>2, SumType
<1> QED BY <1>1, <1>3, <1>4, <1>5

\* Counting goes on while a report is read.
LEMMA CountingKeepsReport ==
    ASSUME IInv, IInv', ReportOK, NEW c \in CPUs,
           (\E u \in Urrs, l \in Lens : Account(c, u, l) \/ Miss(c, u, l)) \/ Create(c)
    PROVE  ReportOK'
<1>1. TypeOK /\ TypeOK'
  BY DEF IInv
<1>2. ASSUME NEW u \in present, NEW d \in CPUs
      PROVE  u \in Urrs /\ bytes[u][d] \in Nat /\ ranBytes[u][d] \in Nat
  BY <1>1 DEF TypeOK
<1>3. CASE \E u \in Urrs, l \in Lens : Account(c, u, l)
  <2>1. PICK u \in Urrs, l \in Lens : Account(c, u, l)
    BY <1>3
  <2>2. /\ UNCHANGED <<present, rvars>> /\ l \in Nat
        /\ bytes' = [bytes EXCEPT ![u][c] = @ + l]
        /\ ranBytes' = [ranBytes EXCEPT ![u][c] = @ + l]
    BY <2>1, UrrAssumption DEF Account, Ran
  <2>3. ASSUME NEW v \in present, NEW d \in CPUs
        PROVE  bytes[v][d] =< bytes'[v][d] /\ ranBytes[v][d] =< ranBytes'[v][d]
    BY <1>1, <1>2, <2>2 DEF TypeOK
  <2> QED BY <1>1, <2>2, <2>3, ReportGrows
<1>4. CASE \E u \in Urrs, l \in Lens : Miss(c, u, l)
  <2>1. UNCHANGED <<present, bytes, ranBytes, rvars>>
    BY <1>4 DEF Miss, counters, hvars
  <2>2. ASSUME NEW v \in present, NEW d \in CPUs
        PROVE  bytes[v][d] =< bytes'[v][d] /\ ranBytes[v][d] =< ranBytes'[v][d]
    BY <1>2, <2>1
  <2> QED BY <1>1, <2>1, <2>2, ReportGrows
<1>5. CASE Create(c)
  <2>1. PICK u \in Urrs, l \in Lens : pend[c] = <<u, l>>
    BY <1>1, <1>5 DEF Create, TypeOK
  <2>2. ranBytes' = [ranBytes EXCEPT ![u][c] = @ + l] /\ UNCHANGED rvars /\ l \in Nat
    BY <1>5, <2>1, UrrAssumption DEF Create, Ran
  <2>3. /\ present \subseteq present'
        /\ bytes' = bytes \/ (u \notin present /\ bytes' = [bytes EXCEPT ![u] = Fresh(c, l)])
    BY <1>5, <2>1 DEF Create, counters
  <2>4. ASSUME NEW v \in present, NEW d \in CPUs
        PROVE  bytes[v][d] =< bytes'[v][d] /\ ranBytes[v][d] =< ranBytes'[v][d]
    <3>1. bytes'[v] = bytes[v]
      BY <1>1, <1>2, <2>3 DEF TypeOK
    <3>2. ranBytes[v][d] =< ranBytes'[v][d]
      BY <1>1, <1>2, <2>2 DEF TypeOK
    <3> QED BY <1>2, <3>1, <3>2
  <2> QED BY <1>1, <2>2, <2>3, <2>4, ReportGrows
<1> QED BY <1>3, <1>4, <1>5

\* One more CPU's counter is added: it covers what this CPU had at the
\* beginning, and holds no more than it has used.
LEMMA ReadCpuKeepsReport ==
    ASSUME IInv, ReportOK, NEW c \in CPUs, ReadCpu(c)
    PROVE  ReportOK'
<1>1. TypeOK /\ ReadOK /\ PresentLosesOne
  BY DEF IInv
<1>2. /\ c \in rleft /\ rsum' = rsum + bytes[rurr][c] /\ rleft' = rleft \ {c}
      /\ UNCHANGED <<present, bytes, ranBytes, rurr, rfloor>>
  BY DEF ReadCpu, counters, hvars
<1>3. rurr \in Urrs /\ rurr # NONE
  BY <1>1, <1>2, UrrAssumption DEF ReadOK
<1>4. /\ rurr \in present
      /\ SumFunctionOnSet(rfloor, CPUs) =< rsum + SumFunctionOnSet(bytes[rurr], rleft)
      /\ rsum =< SumFunctionOnSet(ranBytes[rurr], CPUs \ rleft)
  BY <1>3 DEF ReportOK
<1>5. /\ rleft \in SUBSET CPUs /\ rleft \ {c} \in SUBSET CPUs /\ rsum \in Nat
      /\ CPUs \ rleft \in SUBSET CPUs /\ CPUs \ (rleft \ {c}) \in SUBSET CPUs
      /\ CPUs \in SUBSET CPUs
  BY <1>1 DEF TypeOK
<1>6. /\ bytes[rurr] \in [CPUs -> Nat] /\ ranBytes[rurr] \in [CPUs -> Nat]
      /\ rfloor \in [CPUs -> Nat] /\ IsFiniteSet(CPUs)
  BY <1>1, <1>3, UrrAssumption DEF TypeOK
<1>7. bytes[rurr][c] =< ranBytes[rurr][c]
  BY <1>1, <1>4 DEF PresentLosesOne, LosesAtMostOne
<1>8. SumFunctionOnSet(bytes[rurr], rleft)
        = bytes[rurr][c] + SumFunctionOnSet(bytes[rurr], rleft \ {c})
  BY <1>2, <1>5, <1>6, SumRemove
<1>9. SumFunctionOnSet(ranBytes[rurr], CPUs \ (rleft \ {c}))
        = ranBytes[rurr][c] + SumFunctionOnSet(ranBytes[rurr], CPUs \ rleft)
  <2>1. c \in CPUs \ (rleft \ {c}) /\ (CPUs \ (rleft \ {c})) \ {c} = CPUs \ rleft
    BY <1>2
  <2>2. SumFunctionOnSet(ranBytes[rurr], CPUs \ (rleft \ {c}))
          = ranBytes[rurr][c] + SumFunctionOnSet(ranBytes[rurr], (CPUs \ (rleft \ {c})) \ {c})
    BY <1>5, <1>6, <2>1, SumRemove
  <2> QED BY <2>1, <2>2
<1>10. /\ SumFunctionOnSet(rfloor, CPUs) \in Nat
       /\ SumFunctionOnSet(bytes[rurr], rleft \ {c}) \in Nat
       /\ SumFunctionOnSet(ranBytes[rurr], CPUs \ rleft) \in Nat
       /\ bytes[rurr][c] \in Nat /\ ranBytes[rurr][c] \in Nat
  BY <1>5, <1>6, SumType
<1>11. /\ SumFunctionOnSet(rfloor, CPUs) =< rsum' + SumFunctionOnSet(bytes[rurr], rleft \ {c})
       /\ rsum' =< SumFunctionOnSet(ranBytes[rurr], CPUs \ (rleft \ {c}))
  BY <1>2, <1>4, <1>5, <1>7, <1>8, <1>9, <1>10
<1> QED BY <1>2, <1>4, <1>11 DEF ReportOK

\* A report begins with all CPUs still to read.
LEMMA ReadBeginKeepsReport ==
    ASSUME IInv, NEW u \in Urrs, ReadBegin(u)
    PROVE  ReportOK'
<1>1. TypeOK
  BY DEF IInv
<1>2. /\ u \in present /\ rurr' = u /\ rleft' = CPUs /\ rsum' = 0 /\ rfloor' = bytes[u]
      /\ UNCHANGED <<present, bytes, ranBytes>>
  BY DEF ReadBegin, counters, hvars
<1>3. SumFunctionOnSet(bytes[u], CPUs) \in Nat /\ SumFunctionOnSet(ranBytes[u], {}) = 0
  BY <1>1, SumsAreNat, SumEmpty
<1>4. CPUs \ CPUs = {}
  OBVIOUS
<1>5. SumFunctionOnSet(bytes[u], CPUs) =< 0 + SumFunctionOnSet(bytes[u], CPUs)
  BY <1>3
<1>6. 0 =< SumFunctionOnSet(ranBytes[u], CPUs \ CPUs)
  BY <1>3, <1>4
<1> QED BY <1>2, <1>5, <1>6 DEF ReportOK

\* The bounds of a report hold at every point of reading it.
THEOREM ReportInvariance ==
    Spec => []ReportOK
<1>1. Init => ReportOK
  BY DEF Init, ReportOK
<1>2. IInv /\ IInv' /\ ReportOK /\ [Next]_vars => ReportOK'
  <2> SUFFICES ASSUME IInv, IInv', ReportOK, [Next]_vars PROVE ReportOK'
    OBVIOUS
  <2>1. CASE \E c \in CPUs : (\E u \in Urrs, l \in Lens : Account(c, u, l) \/ Miss(c, u, l))
                             \/ Create(c)
    BY <2>1, CountingKeepsReport
  <2>2. CASE \E c \in CPUs : ReadCpu(c)
    BY <2>2, ReadCpuKeepsReport
  <2>3. CASE \E u \in Urrs : ReadBegin(u)
    BY <2>3, ReadBeginKeepsReport
  <2>4. CASE ReadEnd
    BY <2>4 DEF ReadEnd, ReportOK
  <2>5. CASE UNCHANGED vars
    BY <2>5 DEF vars, ReportOK
  <2> QED BY <2>1, <2>2, <2>3, <2>4, <2>5 DEF Next
<1> QED BY <1>1, <1>2, Invariance, PTL DEF Spec

\* For any number of CPUs, read in any order while all of them go on
\* counting, read_urr reports at least what the counters held when it began
\* and at most what has been used.
THEOREM ReportsAreBounded ==
    Spec => []ReportBounded
<1>1. IInv /\ ReportOK => ReportBounded
  <2> SUFFICES ASSUME IInv, ReportOK, rurr # NONE, rleft = {}
               PROVE  SumFunction(rfloor) =< rsum /\ rsum =< SumFunction(ranBytes[rurr])
    BY DEF ReportBounded
  <2>1. TypeOK /\ rurr \in Urrs
    BY DEF IInv, TypeOK
  <2>2. rfloor \in [CPUs -> Nat] /\ ranBytes[rurr] \in [CPUs -> Nat] /\ rsum \in Nat
    BY <2>1 DEF TypeOK
  <2>3. /\ SumFunction(rfloor) = SumFunctionOnSet(rfloor, CPUs)
        /\ SumFunction(ranBytes[rurr]) = SumFunctionOnSet(ranBytes[rurr], CPUs)
    BY <2>2, SumOfAll
  <2>4. SumFunctionOnSet(bytes[rurr], {}) = 0 /\ CPUs \ {} = CPUs
    BY SumEmpty
  <2>5. /\ SumFunctionOnSet(rfloor, CPUs) =< rsum + 0
        /\ rsum =< SumFunctionOnSet(ranBytes[rurr], CPUs)
    BY <2>4 DEF ReportOK
  <2>6. SumFunctionOnSet(rfloor, CPUs) \in Nat
    BY <2>1, SumsAreNat
  <2> QED BY <2>2, <2>3, <2>5, <2>6
<1> QED BY <1>1, Invariance, ReportInvariance, PTL

-----------------------------------------------------------------------------
(* Token buckets.                                                          *)


\* Truncating division never credits more than the exact quotient.
LEMMA DivBound ==
    ASSUME NEW x \in Nat, NEW d \in Nat \ {0}
    PROVE  x \div d \in Nat /\ d * (x \div d) =< x
  BY Z3

\* A remainder never exceeds what it is the remainder of.
LEMMA ModBound ==
    ASSUME NEW x \in Nat, NEW w \in Nat \ {0}
    PROVE  x % w \in Nat /\ x % w =< x
  BY Z3

\* Multiplying by a rate keeps the order of times.
LEMMA MulMono ==
    ASSUME NEW a \in Nat, NEW b \in Nat, NEW m \in Nat, a =< b
    PROVE  a * m \in Nat /\ a * m =< b * m /\ m * a =< m * b
  BY Z3

\* Credit for two times together is the credit for each.
LEMMA Distr ==
    ASSUME NEW m \in Int, NEW a \in Int, NEW b \in Int
    PROVE  m * (a + b) = m * a + m * b
  BY Z3

\* Capped, wrapped and truncated, the credit for e is at most the MBR over e.
LEMMA RefillBound ==
    ASSUME NEW e \in Nat, mbr \in Nat
    PROVE  Refill(e) \in Nat /\ Div * Refill(e) =< mbr * e
<1> DEFINE k == IF e > Cap THEN Cap ELSE e
<1>1. k \in Nat /\ k =< e
  BY QerAssumption
<1>2. k * mbr \in Nat /\ k * mbr =< e * mbr
  BY <1>1, MulMono
<1>3. (k * mbr) % Word \in Nat /\ (k * mbr) % Word =< k * mbr
  BY <1>2, ModBound, QerAssumption
<1>4. /\ ((k * mbr) % Word) \div Div \in Nat
      /\ Div * (((k * mbr) % Word) \div Div) =< (k * mbr) % Word
  BY <1>3, DivBound, QerAssumption
<1>5. e * mbr = mbr * e
  OBVIOUS
<1>6. Refill(e) = ((k * mbr) % Word) \div Div
  BY DEF Refill
<1> HIDE DEF k
<1>7. Div * Refill(e) \in Int /\ mbr * e \in Int
  BY <1>4, <1>6, QerAssumption
<1> QED BY <1>2, <1>3, <1>4, <1>5, <1>6, <1>7

-----------------------------------------------------------------------------
(* The inductive invariant.                                                *)

\* Timestamps come from the clock, which starts above the 0 that marks an
\* unused bucket; history starts with the first charge.
TimesOK ==
    /\ \A c \in CPUs : now[c] # NONE => now[c] \in 1..clock
    /\ \A b \in Buckets :
         /\ last[b] =< clock
         /\ since[b] # 0 => since[b] =< last[b]
         /\ since[b] = 0 => admitted[b] = 0 /\ rewound[b] = 0

\* A bucket only one CPU uses is charged in timestamp order.
InOrder ==
    ~SharedLock =>
        \A c \in CPUs : /\ rewound[c] = 0
                        /\ now[c] # NONE => now[c] >= last[c]

QerInv == QerTypeOK /\ TimesOK /\ InOrder /\ WithinCredit

\* Every CPU meters against a bucket that exists.
LEMMA BucketType == \A c \in CPUs : BucketOf(c) \in Buckets
  BY DEF BucketOf, Buckets

\* Types of the quantities a charge computes.
LEMMA ChargeTypes ==
    ASSUME QerInv, NEW c \in CPUs, now[c] # NONE
    PROVE  LET b == BucketOf(c) n == now[c] IN
           /\ n \in Nat /\ n # 0
           /\ Elapsed(b, n) \in Nat
           /\ Refill(Elapsed(b, n)) \in Nat
           /\ Filled(b, n) \in Nat
           /\ Filled(b, n) =< burst
           /\ Spent(b, n, len[c]) \in Nat
           /\ Spent(b, n, len[c]) =< Filled(b, n)
<1> DEFINE b == BucketOf(c)
           n == now[c]
<1>1. b \in Buckets BY BucketType
<1>2. n \in Nat /\ n # 0 /\ last[b] \in Nat /\ tokens[b] \in Nat /\ len[c] \in Nat
  BY <1>1 DEF QerInv, QerTypeOK, TimesOK
<1>3. mbr \in Nat /\ burst \in Nat
  BY QerAssumption DEF QerInv, QerTypeOK
<1>4. ~SharedLock => n >= last[b]
  BY DEF QerInv, InOrder, BucketOf
<1>5. Elapsed(b, n) \in Nat
  <2>1. CASE SharedLock
    BY <1>2, <2>1 DEF Elapsed
  <2>2. CASE ~SharedLock
    <3>1. n - last[b] \in Nat BY <1>2, <1>4, <2>2
    <3> QED BY <2>2, <3>1, ModBound, QerAssumption DEF Elapsed
  <2> QED BY <2>1, <2>2
<1>6. Refill(Elapsed(b, n)) \in Nat
  BY <1>3, <1>5, RefillBound
<1>7. Filled(b, n) \in Nat /\ Filled(b, n) =< burst
  BY <1>2, <1>3, <1>6 DEF Filled
<1>8. Spent(b, n, len[c]) \in Nat /\ Spent(b, n, len[c]) =< Filled(b, n)
  BY <1>2, <1>7 DEF Spent
<1> QED BY <1>2, <1>5, <1>6, <1>7, <1>8

\* The buckets are unused when the maps are created.
LEMMA InitQerInv == QerInit => QerInv
  BY QerAssumption DEF QerInit, QerInv, QerTypeOK, TimesOK, InOrder, WithinCredit, Buckets

\* A charge of c to its bucket keeps the bytes admitted and left within the
\* credit: the time it is credited is at most the time last_ns moved on.
LEMMA ChargeCredit ==
    ASSUME QerInv, NEW c \in CPUs, Charge(c)
    PROVE  WithinCredit'
<1> DEFINE b == BucketOf(c)
           n == now[c]
           s == Spent(b, n, len[c])
           e == Elapsed(b, n)
           span == (last[b] - since[b]) + rewound[b]
           span2 == (last'[b] - since'[b]) + rewound'[b]
<1>0. n # NONE
  BY DEF Charge
<1>1. b \in Buckets
  BY BucketType
<1>2. /\ n \in Nat /\ n # 0 /\ e \in Nat /\ Refill(e) \in Nat
      /\ Filled(b, n) \in Nat /\ Filled(b, n) =< burst
      /\ s \in Nat /\ s =< Filled(b, n)
  BY <1>0, ChargeTypes
<1>3. /\ last[b] \in Nat /\ tokens[b] \in Nat /\ since[b] \in Nat
      /\ admitted[b] \in Nat /\ rewound[b] \in Nat
      /\ mbr \in Nat /\ burst \in Nat /\ Div \in Nat
  BY <1>1, QerAssumption DEF QerInv, QerTypeOK
<1>4. /\ tokens'[b] = Filled(b, n) - s /\ admitted'[b] = admitted[b] + s
      /\ last'[b] = n
      /\ since'[b] = IF since[b] = 0 \/ n < since[b] THEN n ELSE since[b]
      /\ rewound'[b] = IF since[b] = 0 \/ n >= last[b] THEN rewound[b]
           ELSE rewound[b] + (last[b] - (IF n < since[b] THEN since[b] ELSE n))
      /\ mbr' = mbr /\ burst' = burst
  BY <1>1 DEF Charge, LastNs, QerInv, QerTypeOK
<1>5. /\ since[b] # 0 => since[b] =< last[b]
      /\ since[b] = 0 => admitted[b] = 0 /\ rewound[b] = 0
  BY <1>1 DEF QerInv, TimesOK
<1>6. ~SharedLock => n >= last[b]
  BY <1>0 DEF QerInv, InOrder, BucketOf
<1>7. tokens'[b] + admitted'[b] = Filled(b, n) + admitted[b]
  BY <1>2, <1>3, <1>4
<1>8. since'[b] # 0 =>
        Div * (tokens'[b] + admitted'[b]) =< Div * burst + mbr * span2
  <2>1. CASE since[b] = 0
    <3>1. span2 = 0
      BY <1>2, <1>3, <1>4, <1>5, <2>1
    <3>2. tokens'[b] + admitted'[b] = Filled(b, n)
      BY <1>2, <1>3, <1>5, <1>7, <2>1
    <3>3. Div * Filled(b, n) =< Div * burst
      BY <1>2, <1>3, MulMono
    <3>4. mbr * span2 = 0
      BY <1>3, <3>1
    <3>5. Div * burst \in Int
      BY <1>3
    <3> HIDE DEF span2
    <3> QED BY <3>2, <3>3, <3>4, <3>5
  <2>2. CASE since[b] # 0
    <3>1. e =< IF n >= last[b] THEN n - last[b] ELSE 0
      <4>1. CASE SharedLock
        BY <1>2, <1>3, <4>1 DEF Elapsed
      <4>2. CASE ~SharedLock
        <5>1. n - last[b] \in Nat BY <1>2, <1>3, <1>6, <4>2
        <5> QED BY <1>6, <4>2, <5>1, ModBound, QerAssumption DEF Elapsed
      <4> QED BY <4>1, <4>2
    <3>2. span \in Nat /\ span2 \in Nat /\ span + e =< span2
      BY <1>2, <1>3, <1>4, <1>5, <2>2, <3>1
    <3>3. Filled(b, n) =< tokens[b] + Refill(e)
      BY <1>2, <1>3, <1>5, <2>2 DEF Filled
    <3>4. Div * Refill(e) =< mbr * e
      BY <1>2, <1>3, RefillBound
    <3>5. Div * (tokens[b] + admitted[b]) =< Div * burst + mbr * span
      BY <1>1, <2>2 DEF QerInv, WithinCredit
    <3> HIDE DEF span, span2, e, s, n, b
    <3>6. Div * (Filled(b, n) + admitted[b]) =< Div * ((tokens[b] + admitted[b]) + Refill(e))
      <4>1. Filled(b, n) + admitted[b] \in Nat /\ (tokens[b] + admitted[b]) + Refill(e) \in Nat
        BY <1>2, <1>3
      <4>2. Filled(b, n) + admitted[b] =< (tokens[b] + admitted[b]) + Refill(e)
        BY <1>2, <1>3, <3>3
      <4> QED BY <1>3, <4>1, <4>2, MulMono
    <3>7. Div * ((tokens[b] + admitted[b]) + Refill(e))
            = Div * (tokens[b] + admitted[b]) + Div * Refill(e)
      BY <1>2, <1>3, Distr
    <3>8. mbr * (span + e) = mbr * span + mbr * e
      BY <1>2, <1>3, <3>2, Distr
    <3>9. mbr * (span + e) =< mbr * span2
      BY <1>2, <1>3, <3>2, MulMono
    <3>10. /\ Div * (Filled(b, n) + admitted[b]) \in Int
           /\ Div * (tokens[b] + admitted[b]) \in Int
           /\ Div * Refill(e) \in Int /\ Div * burst \in Int
           /\ mbr * span \in Int /\ mbr * e \in Int /\ mbr * span2 \in Int
      BY <1>2, <1>3, <3>2
    <3>11. Div * (Filled(b, n) + admitted[b]) =< Div * burst + mbr * span2
      BY <3>4, <3>5, <3>6, <3>7, <3>8, <3>9, <3>10
    <3> QED BY <1>7, <3>11
  <2> QED BY <2>1, <2>2
<1>9. \A d \in Buckets : d # b =>
        /\ tokens'[d] = tokens[d] /\ admitted'[d] = admitted[d] /\ last'[d] = last[d]
        /\ since'[d] = since[d] /\ rewound'[d] = rewound[d]
  BY <1>1 DEF Charge, QerInv, QerTypeOK
<1>10. WithinCredit
  BY DEF QerInv
<1> HIDE DEF n, s, e, b
<1> QED BY <1>4, <1>8, <1>9, <1>10 DEF WithinCredit

\* So does every other step, and timestamps stay in order.
LEMMA StepQerInv == QerInv /\ [QerNext]_qvars => QerInv'
<1> SUFFICES ASSUME QerInv, [QerNext]_qvars PROVE QerInv'
  OBVIOUS
<1>0. /\ mbr \in Nat /\ burst \in Nat /\ clock \in Nat /\ NONE \notin Nat
      /\ Mbrs \subseteq Nat /\ Bursts \subseteq Nat /\ Lens \subseteq Nat /\ MaxTime \in Nat
  BY QerAssumption DEF QerInv, QerTypeOK
<1>1. CASE Tick
  BY <1>0, <1>1 DEF Tick, QerInv, QerTypeOK, TimesOK, InOrder, WithinCredit, qhvars
<1>2. CASE InstallQer
  <2>1. QerTypeOK'
    BY <1>2 DEF InstallQer, QerInv, QerTypeOK
  <2>2. TimesOK' /\ WithinCredit'
    BY <1>2 DEF InstallQer, QerInv, QerTypeOK, TimesOK, WithinCredit
  <2>3. InOrder'
    BY <1>2 DEF InstallQer, QerInv, InOrder, Buckets
  <2> QED BY <2>1, <2>2, <2>3 DEF QerInv
<1>3. ASSUME NEW c \in CPUs, NEW l \in Lens, Sample(c, l) PROVE QerInv'
  <2>1. QerTypeOK'
    BY <1>0, <1>3 DEF Sample, QerInv, QerTypeOK, qhvars
  <2>2. TimesOK'
    BY <1>0, <1>3 DEF Sample, QerInv, QerTypeOK, TimesOK, qhvars
  <2>3. WithinCredit'
    BY <1>3 DEF Sample, QerInv, WithinCredit, qhvars
  <2>4. InOrder'
    BY <1>0, <1>3 DEF Sample, QerInv, QerTypeOK, TimesOK, InOrder, Buckets, qhvars
  <2> QED BY <2>1, <2>2, <2>3, <2>4 DEF QerInv
<1>4. ASSUME NEW c \in CPUs, Charge(c) PROVE QerInv'
  <2> DEFINE b == BucketOf(c)
             n == now[c]
             s == Spent(b, n, len[c])
  <2>1. n # NONE /\ b \in Buckets
    BY <1>4, BucketType DEF Charge
  <2>2. n \in Nat /\ n # 0 /\ Filled(b, n) \in Nat /\ s \in Nat /\ s =< Filled(b, n)
    BY <2>1, ChargeTypes
  <2>3. n =< clock
    BY <2>1 DEF QerInv, TimesOK
  <2>4. /\ tokens' = [tokens EXCEPT ![b] = Filled(b, n) - s]
        /\ last' = [last EXCEPT ![b] = n]
        /\ now' = [now EXCEPT ![c] = NONE]
        /\ since' = [since EXCEPT ![b] =
             IF since[b] = 0 \/ n < since[b] THEN n ELSE since[b]]
        /\ admitted' = [admitted EXCEPT ![b] = admitted[b] + s]
        /\ rewound' = [rewound EXCEPT ![b] =
             IF since[b] = 0 \/ n >= last[b] THEN rewound[b]
             ELSE rewound[b] + (last[b] - (IF n < since[b] THEN since[b] ELSE n))]
        /\ UNCHANGED <<clock, mbr, burst, len>>
    BY <1>4, <2>1 DEF Charge, LastNs, QerInv, QerTypeOK
  <2>5. /\ last[b] \in Nat /\ since[b] \in Nat /\ admitted[b] \in Nat /\ rewound[b] \in Nat
        /\ since[b] # 0 => since[b] =< last[b]
    BY <2>1 DEF QerInv, QerTypeOK, TimesOK
  <2>6. ~SharedLock => n >= last[b] /\ b = c
    BY <2>1 DEF QerInv, InOrder, BucketOf
  <2> HIDE DEF b, n, s
  <2>7. QerTypeOK'
    BY <2>1, <2>2, <2>4, <2>5 DEF QerInv, QerTypeOK
  <2>8. TimesOK'
    BY <1>0, <2>1, <2>2, <2>3, <2>4, <2>5 DEF QerInv, QerTypeOK, TimesOK
  <2>9. InOrder'
    BY <1>0, <2>1, <2>2, <2>4, <2>5, <2>6 DEF QerInv, QerTypeOK, InOrder, Buckets
  <2>10. WithinCredit'
    BY <1>4, ChargeCredit
  <2> QED BY <2>7, <2>8, <2>9, <2>10 DEF QerInv
<1>5. CASE UNCHANGED qvars
  BY <1>5 DEF qvars, QerInv, QerTypeOK, TimesOK, InOrder, WithinCredit
<1> QED BY <1>1, <1>2, <1>3, <1>4, <1>5 DEF QerNext

\* The invariant holds in every reachable state.
THEOREM QerInvariance == QerSpec => []QerInv
  BY InitQerInv, StepQerInv, PTL DEF QerSpec

\* Tokens are never negative: an admitted packet was covered by them.
THEOREM QerTypeCorrect == QerSpec => []QerTypeOK
<1>1. QerInv => QerTypeOK BY DEF QerInv
<1> QED BY <1>1, QerInvariance, PTL

\* In both builds a bucket hands out at most one burst plus the MBR over the
\* time its last_ns moved forwards, whatever the order of the CPUs, the
\* lengths of the packets and the timing of install_qer.
THEOREM CreditConserved == QerSpec => []WithinCredit
<1>1. QerInv => WithinCredit BY DEF QerInv
<1> QED BY <1>1, QerInvariance, PTL

\* Per-CPU buckets enforce the MBR each on its own: last_ns never goes back.
THEOREM PerCpuMbr ==
    ASSUME ~SharedLock
    PROVE  QerSpec => []MbrEnforced
<1>1. QerInv => MbrEnforced
  <2> SUFFICES ASSUME QerInv, NEW b \in Buckets, since[b] # 0
               PROVE  Div * admitted[b] =< Div * burst + mbr * (clock - since[b])
    BY DEF MbrEnforced
  <2>1. /\ tokens[b] \in Nat /\ admitted[b] \in Nat /\ since[b] \in Nat
        /\ last[b] \in Nat /\ clock \in Nat /\ burst \in Nat /\ mbr \in Nat /\ Div \in Nat
    BY QerAssumption DEF QerInv, QerTypeOK
  <2>2. rewound[b] = 0 /\ since[b] =< last[b] /\ last[b] =< clock
    BY DEF QerInv, InOrder, TimesOK, Buckets
  <2>3. Div * (tokens[b] + admitted[b]) =< Div * burst + mbr * ((last[b] - since[b]) + rewound[b])
    BY DEF QerInv, WithinCredit
  <2>4. (last[b] - since[b]) + rewound[b] = last[b] - since[b]
    BY <2>1, <2>2
  <2>5. mbr * (last[b] - since[b]) =< mbr * (clock - since[b])
    <3>1. last[b] - since[b] \in Nat /\ clock - since[b] \in Nat
          /\ last[b] - since[b] =< clock - since[b]
      BY <2>1, <2>2
    <3> QED BY <2>1, <3>1, MulMono
  <2>6. Div * admitted[b] =< Div * (tokens[b] + admitted[b])
    BY <2>1, MulMono
  <2>7. /\ Div * admitted[b] \in Int /\ Div * (tokens[b] + admitted[b]) \in Int
        /\ Div * burst \in Int /\ mbr * (last[b] - since[b]) \in Int
        /\ mbr * (clock - since[b]) \in Int
    BY <2>1
  <2> QED BY <2>3, <2>4, <2>5, <2>6, <2>7
<1> QED BY <1>1, QerInvariance, PTL
=============================================================================
