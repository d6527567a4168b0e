---------------------------- MODULE UplinkProofs ----------------------------
(***************************************************************************)
(* Proofs about Uplink, for any sessions, CPUs and map sizes, and for any  *)
(* number of processes, of the agent and of the benchmark.                 *)
(***************************************************************************)
EXTENDS Uplink, FiniteSetTheorems, TLAPS

\* Where a process stands in an installation or a removal tells which
\* entries of its session exist.
ProcOK(p) ==
    /\ pc[p] # "idle" => key[p] \in Sessions /\ Owner[key[p]] = p
    /\ pc[p] \in {"put_bundle", "put_teid"} => key[p] \in pdr_table
    /\ pc[p] = "put_teid" => p \in Harness \/ key[p] \in tc_bundle_map
    /\ pc[p] \in {"del_pdr", "del_bundle"} => key[p] \notin teid_session

\* A packet that saw no change still has its session, and has not missed.
PacketOK(c) ==
    /\ stage[c] # "idle" => pkt[c] \in Sessions
    /\ stage[c] # "idle" /\ ~changed[c] =>
         /\ stage[c] # "miss_pdr"
         /\ stage[c] = "miss_far" => Owner[pkt[c]] \in Harness
         /\ pkt[c] \in teid_session

Finite ==
    IsFiniteSet(pdr_table) /\ IsFiniteSet(tc_bundle_map) /\ IsFiniteSet(teid_session)

IInv ==
    /\ TypeOK /\ Finite /\ SessionComplete
    /\ \A p \in Procs : ProcOK(p)
    /\ \A c \in CPUs : PacketOK(c)

\* Nothing is installed when the maps are created.
LEMMA InitIInv == Init => IInv
<1> SUFFICES ASSUME Init PROVE IInv
  OBVIOUS
<1>1. Cardinality({}) = 0 /\ IsFiniteSet({})
  BY FS_EmptySet
<1>2. FarOK(far)
  <2>1. PICK f \in Fars : far = FarVal(f)
    BY DEF Init
  <2>2. f[1] \in Actions /\ f[2] \in Nat
    BY UplinkAssumption
  <2> QED BY <2>1, <2>2 DEF FarVal, FarOK, FarWords
<1>3. TypeOK /\ Finite
  BY <1>1, <1>2, UplinkAssumption DEF Init, TypeOK, Finite, Stages
<1>4. SessionComplete /\ (\A p \in Procs : ProcOK(p)) /\ (\A c \in CPUs : PacketOK(c))
  BY DEF Init, SessionComplete, ProcOK, PacketOK
<1> QED BY <1>3, <1>4 DEF IInv

\* Adding and removing a key keep a map finite and within its bound.
LEMMA PutHash ==
    ASSUME NEW map, NEW s, IsFiniteSet(map), Cardinality(map) =< MaxPdrs, Fits(map, s)
    PROVE  IsFiniteSet(map \cup {s}) /\ Cardinality(map \cup {s}) =< MaxPdrs
<1>1. Cardinality(map) \in Nat BY FS_CardinalityType
<1>2. /\ IsFiniteSet(map \cup {s})
      /\ Cardinality(map \cup {s}) = IF s \in map THEN Cardinality(map) ELSE Cardinality(map) + 1
  BY FS_AddElement
<1> QED BY <1>1, <1>2, UplinkAssumption DEF Fits

\* The same for a deletion, whatever the bound.
LEMMA DelHash ==
    ASSUME NEW map, NEW s, NEW N \in Nat, IsFiniteSet(map), Cardinality(map) =< N
    PROVE  IsFiniteSet(map \ {s}) /\ Cardinality(map \ {s}) =< N
<1>1. Cardinality(map) \in Nat BY FS_CardinalityType
<1>2. /\ IsFiniteSet(map \ {s})
      /\ Cardinality(map \ {s}) = IF s \in map THEN Cardinality(map) - 1 ELSE Cardinality(map)
  BY FS_RemoveElement
<1> QED BY <1>1, <1>2

\* So does an insertion into the LRU map, which keeps at least the new key
\* and adds nothing else.
LEMMA PutLru ==
    ASSUME NEW map, NEW s, IsFiniteSet(map), Cardinality(map) =< MaxTeids,
           NEW map2 \in LruInsert(map, s)
    PROVE  /\ IsFiniteSet(map2) /\ Cardinality(map2) =< MaxTeids
           /\ s \in map2 /\ map2 \subseteq map \cup {s}
<1>1. Cardinality(map) \in Nat BY FS_CardinalityType
<1>2. MaxTeids \in Nat BY UplinkAssumption
<1>3. CASE s \in map \/ Cardinality(map) < MaxTeids
  <2>1. map2 = map \cup {s}
    BY <1>3 DEF LruInsert
  <2>2. /\ IsFiniteSet(map \cup {s})
        /\ Cardinality(map \cup {s}) = IF s \in map THEN Cardinality(map) ELSE Cardinality(map) + 1
    BY FS_AddElement
  <2> QED BY <1>1, <1>2, <1>3, <2>1, <2>2
<1>4. CASE ~(s \in map \/ Cardinality(map) < MaxTeids)
  <2>1. PICK kept \in (SUBSET map) \ {map} : map2 = kept \cup {s}
    BY <1>4 DEF LruInsert
  <2>2. /\ IsFiniteSet(kept) /\ Cardinality(kept) =< Cardinality(map)
        /\ Cardinality(kept) # Cardinality(map)
    BY FS_Subset
  <2>3. Cardinality(kept) \in Nat
    BY <2>2, FS_CardinalityType
  <2>4. s \notin kept
    BY <1>4
  <2>5. /\ IsFiniteSet(kept \cup {s})
        /\ Cardinality(kept \cup {s}) = Cardinality(kept) + 1
    BY <2>2, <2>4, FS_AddElement
  <2> QED BY <1>1, <1>2, <2>1, <2>2, <2>3, <2>5
<1> QED BY <1>3, <1>4

-----------------------------------------------------------------------------
(* Steps of the control plane.                                             *)

\* Two processes at work are at work on different sessions.
LEMMA Apart ==
    ASSUME IInv, NEW p \in Procs, NEW q \in Procs, p # q, pc[p] # "idle", pc[q] # "idle"
    PROVE  key[p] # key[q]
  BY DEF IInv, ProcOK

\* A step that only adds to what packets know, and takes away no session of
\* a packet without marking it, keeps PacketOK.
LEMMA PacketFrame ==
    ASSUME IInv, NEW S, changed' = Mark(S), UNCHANGED <<stage, pkt>>,
           teid_session \ teid_session' \subseteq S
    PROVE  /\ \A c \in CPUs : PacketOK(c)'
           /\ changed' \in [CPUs -> BOOLEAN]
<1>1. changed' \in [CPUs -> BOOLEAN]
  BY DEF Mark, IInv, TypeOK
<1>2. ASSUME NEW c \in CPUs PROVE PacketOK(c)'
  <2>1. changed'[c] = (changed[c] \/ pkt[c] \in S)
    BY DEF Mark
  <2>2. PacketOK(c) BY DEF IInv
  <2> QED BY <2>1, <2>2 DEF PacketOK
<1> QED BY <1>1, <1>2

\* Starting an installation or a removal, dying, failing: no map changes.
LEMMA ProcessStep ==
    ASSUME IInv, NEW p \in Procs,
           \/ \E s \in Sessions : InstallSession(p, s) \/ RemoveSession(p, s)
           \/ Crash(p)
    PROVE  IInv'
<1>1. TypeOK /\ Finite /\ SessionComplete /\ (\A q \in Procs : ProcOK(q)) /\ (\A c \in CPUs : PacketOK(c))
  BY DEF IInv
<1>2. UNCHANGED <<maps, fvars, pvars>>
  BY DEF InstallSession, RemoveSession, Crash
<1>3. Finite' /\ SessionComplete' /\ \A c \in CPUs : PacketOK(c)'
  BY <1>1, <1>2 DEF Finite, SessionComplete, PacketOK, maps, pvars
<1>4. TypeOK'
  BY <1>1, <1>2 DEF TypeOK, InstallSession, RemoveSession, Crash, Goto, maps, fvars, pvars,
     Puts, Dels, FarOK
<1>5. ASSUME NEW q \in Procs PROVE ProcOK(q)'
  BY <1>1, <1>2 DEF TypeOK, ProcOK, InstallSession, RemoveSession, Crash, Goto, maps
<1> QED BY <1>3, <1>4, <1>5 DEF IInv

\* The order put_pdr, put_bundle, put_teid makes a session findable last.
LEMMA PutStep ==
    ASSUME IInv, NEW p \in Procs, PutPdr(p) \/ PutBundle(p) \/ PutTeid(p)
    PROVE  IInv'
<1>1. /\ TypeOK /\ Finite /\ SessionComplete
      /\ (\A q \in Procs : ProcOK(q)) /\ (\A c \in CPUs : PacketOK(c))
  BY DEF IInv
<1>2. key[p] \in Sessions /\ key' = key /\ UNCHANGED <<fvars, stage, pkt, oif>>
  BY <1>1 DEF ProcOK, PutPdr, PutBundle, PutTeid, Done, Goto
<1>3. \A q \in Procs : q # p => pc'[q] = pc[q]
  BY <1>1 DEF TypeOK, PutPdr, PutBundle, PutTeid, Done, Goto
<1>4. CASE PutPdr(p)
  <2>1. UNCHANGED <<tc_bundle_map, teid_session>> /\ pc[p] = "put_pdr"
    BY <1>4 DEF PutPdr
  <2>2. CASE Fits(pdr_table, key[p])
    <3>1. /\ pdr_table' = pdr_table \cup {key[p]} /\ changed' = Mark({key[p]} \ pdr_table)
          /\ pc' = [pc EXCEPT ![p] = IF p \in Harness THEN "put_teid" ELSE "put_bundle"]
      BY <1>4, <2>1, <2>2 DEF PutPdr, Done, Goto, After
    <3>2. IsFiniteSet(pdr_table') /\ Cardinality(pdr_table') =< MaxPdrs
      BY <1>1, <2>2, <3>1, PutHash DEF TypeOK, Finite
    <3>3. (\A c \in CPUs : PacketOK(c)') /\ changed' \in [CPUs -> BOOLEAN]
      BY <1>2, <2>1, <3>1, PacketFrame
    <3>4. TypeOK' /\ Finite' /\ SessionComplete'
      BY <1>1, <1>2, <2>1, <3>1, <3>2, <3>3
      DEF TypeOK, Finite, SessionComplete, fvars, Puts, FarOK
    <3>5. ASSUME NEW q \in Procs PROVE ProcOK(q)'
      BY <1>1, <1>2, <1>3, <2>1, <3>1 DEF TypeOK, ProcOK
    <3> QED BY <3>3, <3>4, <3>5 DEF IInv
  <2>3. CASE ~Fits(pdr_table, key[p])
    <3>1. UNCHANGED <<pdr_table, changed>> /\ pc' = [pc EXCEPT ![p] = "idle"]
      BY <1>4, <2>3 DEF PutPdr, Goto
    <3>2. TypeOK' /\ Finite' /\ SessionComplete' /\ \A c \in CPUs : PacketOK(c)'
      BY <1>1, <1>2, <2>1, <3>1 DEF TypeOK, Finite, SessionComplete, PacketOK, fvars, FarOK
    <3>3. ASSUME NEW q \in Procs PROVE ProcOK(q)'
      BY <1>1, <1>2, <2>1, <3>1 DEF TypeOK, ProcOK
    <3> QED BY <3>2, <3>3 DEF IInv
  <2> QED BY <2>2, <2>3
<1>5. CASE PutBundle(p)
  <2>1. UNCHANGED <<pdr_table, teid_session>> /\ pc[p] = "put_bundle"
    BY <1>5 DEF PutBundle
  <2>2. CASE Fits(tc_bundle_map, key[p])
    <3>1. /\ tc_bundle_map' = tc_bundle_map \cup {key[p]}
          /\ changed' = Mark({key[p]} \ tc_bundle_map)
          /\ pc' = [pc EXCEPT ![p] = "put_teid"]
      BY <1>5, <2>1, <2>2 DEF PutBundle, Done, Goto, After
    <3>2. IsFiniteSet(tc_bundle_map') /\ Cardinality(tc_bundle_map') =< MaxPdrs
      BY <1>1, <2>2, <3>1, PutHash DEF TypeOK, Finite
    <3>3. (\A c \in CPUs : PacketOK(c)') /\ changed' \in [CPUs -> BOOLEAN]
      BY <1>2, <2>1, <3>1, PacketFrame
    <3>4. TypeOK' /\ Finite' /\ SessionComplete'
      BY <1>1, <1>2, <2>1, <3>1, <3>2, <3>3
      DEF TypeOK, Finite, SessionComplete, fvars, Puts, FarOK
    <3>5. ASSUME NEW q \in Procs PROVE ProcOK(q)'
      BY <1>1, <1>2, <1>3, <2>1, <3>1 DEF TypeOK, ProcOK
    <3> QED BY <3>3, <3>4, <3>5 DEF IInv
  <2>3. CASE ~Fits(tc_bundle_map, key[p])
    <3>1. UNCHANGED <<tc_bundle_map, changed>> /\ pc' = [pc EXCEPT ![p] = "idle"]
      BY <1>5, <2>3 DEF PutBundle, Goto
    <3>2. TypeOK' /\ Finite' /\ SessionComplete' /\ \A c \in CPUs : PacketOK(c)'
      BY <1>1, <1>2, <2>1, <3>1 DEF TypeOK, Finite, SessionComplete, PacketOK, fvars, FarOK
    <3>3. ASSUME NEW q \in Procs PROVE ProcOK(q)'
      BY <1>1, <1>2, <2>1, <3>1 DEF TypeOK, ProcOK
    <3> QED BY <3>2, <3>3 DEF IInv
  <2> QED BY <2>2, <2>3
<1>6. CASE PutTeid(p)
  <2>1. /\ UNCHANGED <<pdr_table, tc_bundle_map>> /\ pc[p] = "put_teid"
        /\ teid_session' \in LruInsert(teid_session, key[p])
        /\ changed' = Mark((teid_session' \ teid_session) \cup (teid_session \ teid_session'))
        /\ pc' = [pc EXCEPT ![p] = "idle"]
    BY <1>6 DEF PutTeid, Done, Goto, After
  <2>2. /\ IsFiniteSet(teid_session') /\ Cardinality(teid_session') =< MaxTeids
        /\ teid_session' \subseteq teid_session \cup {key[p]}
    BY <1>1, <2>1, PutLru DEF TypeOK, Finite
  <2>3. (\A c \in CPUs : PacketOK(c)') /\ changed' \in [CPUs -> BOOLEAN]
    BY <1>2, <2>1, PacketFrame
  <2>4. TypeOK' /\ Finite'
    BY <1>1, <1>2, <2>1, <2>2, <2>3 DEF TypeOK, Finite, fvars, FarOK
  <2>5. SessionComplete'
    BY <1>1, <2>1, <2>2 DEF SessionComplete, ProcOK
  <2>6. ASSUME NEW q \in Procs PROVE ProcOK(q)'
    <3>1. CASE q = p
      BY <1>1, <2>1, <3>1 DEF TypeOK, ProcOK
    <3>2. CASE q # p
      <4>1. pc[q] # "idle" => key[q] # key[p]
        BY <2>1, <3>2, Apart
      <4> QED BY <1>1, <1>2, <1>3, <2>1, <2>2, <3>2, <4>1 DEF ProcOK
    <3> QED BY <3>1, <3>2
  <2> QED BY <2>3, <2>4, <2>5, <2>6 DEF IInv
<1> QED BY <1>4, <1>5, <1>6

\* The order del_teid, del_pdr, del_bundle hides it first.
LEMMA DelStep ==
    ASSUME IInv, NEW p \in Procs, DelTeid(p) \/ DelPdr(p) \/ DelBundle(p)
    PROVE  IInv'
<1>1. /\ TypeOK /\ Finite /\ SessionComplete
      /\ (\A q \in Procs : ProcOK(q)) /\ (\A c \in CPUs : PacketOK(c))
  BY DEF IInv
<1>2. /\ key[p] \in Sessions /\ key' = key /\ UNCHANGED <<fvars, stage, pkt, oif>>
      /\ pc[p] # "idle"
  BY <1>1 DEF ProcOK, DelTeid, DelPdr, DelBundle, Done, Goto
<1>3. \A q \in Procs : q # p => pc'[q] = pc[q]
  BY <1>1 DEF TypeOK, DelTeid, DelPdr, DelBundle, Done, Goto
<1>4. \A q \in Procs : q # p /\ pc[q] # "idle" => key[q] # key[p]
  BY <1>2, Apart
<1>5. CASE DelTeid(p)
  <2>1. /\ UNCHANGED <<pdr_table, tc_bundle_map>> /\ pc[p] = "del_teid"
        /\ teid_session' = teid_session \ {key[p]}
        /\ changed' = Mark({key[p]} \cap teid_session)
        /\ pc' = [pc EXCEPT ![p] = "del_pdr"]
    BY <1>5 DEF DelTeid, Done, Goto, After
  <2>2. IsFiniteSet(teid_session') /\ Cardinality(teid_session') =< MaxTeids
    BY <1>1, <2>1, DelHash, UplinkAssumption DEF TypeOK, Finite
  <2>3. (\A c \in CPUs : PacketOK(c)') /\ changed' \in [CPUs -> BOOLEAN]
    BY <1>2, <2>1, PacketFrame
  <2>4. TypeOK' /\ Finite' /\ SessionComplete'
    BY <1>1, <1>2, <2>1, <2>2, <2>3 DEF TypeOK, Finite, SessionComplete, fvars, Dels, FarOK
  <2>5. ASSUME NEW q \in Procs PROVE ProcOK(q)'
    BY <1>1, <1>2, <1>3, <2>1 DEF TypeOK, ProcOK
  <2> QED BY <2>3, <2>4, <2>5 DEF IInv
<1>6. CASE DelPdr(p)
  <2>1. /\ UNCHANGED <<teid_session, tc_bundle_map>> /\ pc[p] = "del_pdr"
        /\ pdr_table' = pdr_table \ {key[p]}
        /\ changed' = Mark({key[p]} \cap pdr_table)
        /\ pc' = [pc EXCEPT ![p] = IF p \in Harness THEN "idle" ELSE "del_bundle"]
    BY <1>6 DEF DelPdr, Done, Goto, After
  <2>2. IsFiniteSet(pdr_table') /\ Cardinality(pdr_table') =< MaxPdrs
    BY <1>1, <2>1, DelHash, UplinkAssumption DEF TypeOK, Finite
  <2>3. (\A c \in CPUs : PacketOK(c)') /\ changed' \in [CPUs -> BOOLEAN]
    BY <1>2, <2>1, PacketFrame
  <2>4. TypeOK' /\ Finite'
    BY <1>1, <1>2, <2>1, <2>2, <2>3 DEF TypeOK, Finite, fvars, Dels, FarOK
  <2>5. SessionComplete'
    BY <1>1, <2>1 DEF SessionComplete, ProcOK
  <2>6. ASSUME NEW q \in Procs PROVE ProcOK(q)'
    BY <1>1, <1>2, <1>3, <1>4, <2>1 DEF TypeOK, ProcOK
  <2> QED BY <2>3, <2>4, <2>5, <2>6 DEF IInv
<1>7. CASE DelBundle(p)
  <2>1. /\ UNCHANGED <<teid_session, pdr_table>> /\ pc[p] = "del_bundle"
        /\ tc_bundle_map' = tc_bundle_map \ {key[p]}
        /\ changed' = Mark({key[p]} \cap tc_bundle_map)
        /\ pc' = [pc EXCEPT ![p] = "idle"]
    BY <1>7 DEF DelBundle, Done, Goto, After
  <2>2. IsFiniteSet(tc_bundle_map') /\ Cardinality(tc_bundle_map') =< MaxPdrs
    BY <1>1, <2>1, DelHash, UplinkAssumption DEF TypeOK, Finite
  <2>3. (\A c \in CPUs : PacketOK(c)') /\ changed' \in [CPUs -> BOOLEAN]
    BY <1>2, <2>1, PacketFrame
  <2>4. TypeOK' /\ Finite'
    BY <1>1, <1>2, <2>1, <2>2, <2>3 DEF TypeOK, Finite, fvars, FarOK
  <2>5. SessionComplete'
    BY <1>1, <2>1 DEF SessionComplete, ProcOK
  <2>6. ASSUME NEW q \in Procs PROVE ProcOK(q)'
    BY <1>1, <1>2, <1>3, <1>4, <2>1 DEF TypeOK, ProcOK
  <2> QED BY <2>3, <2>4, <2>5, <2>6 DEF IInv
<1> QED BY <1>5, <1>6, <1>7

-----------------------------------------------------------------------------
(* Steps of install_far and of the packets.                                *)

\* Rewriting the FAR does not touch the sessions.
LEMMA FarStep ==
    ASSUME IInv, FarNext
    PROVE  IInv'
<1>1. /\ TypeOK /\ Finite /\ SessionComplete
      /\ (\A q \in Procs : ProcOK(q)) /\ (\A c \in CPUs : PacketOK(c))
  BY DEF IInv
<1>2. UNCHANGED <<maps, cvars, pvars>>
  BY DEF FarNext, InstallFar, CopyFar
<1>3. /\ Finite' /\ SessionComplete'
      /\ (\A q \in Procs : ProcOK(q)') /\ (\A c \in CPUs : PacketOK(c)')
  BY <1>1, <1>2 DEF Finite, SessionComplete, ProcOK, PacketOK, maps, cvars, pvars
<1>4. CASE InstallFar
  <2>1. PICK f \in Fars : fnew' = FarVal(f)
    BY <1>4 DEF InstallFar
  <2>2. f[1] \in Actions /\ f[2] \in Nat
    BY UplinkAssumption
  <2>3. FarOK(fnew)' /\ FarOK(far)'
    BY <1>1, <1>4, <2>1, <2>2 DEF FarVal, FarOK, FarWords, InstallFar, TypeOK
  <2>4. fleft' = FarWords
    BY <1>4 DEF InstallFar
  <2>5. TypeOK'
    BY <1>1, <1>2, <2>3, <2>4 DEF TypeOK, maps, cvars, pvars
  <2> QED BY <1>3, <2>5 DEF IInv
<1>5. ASSUME NEW wd \in FarWords, CopyFar(wd) PROVE IInv'
  <2>1. FarOK(far) /\ FarOK(fnew) /\ far' = [far EXCEPT ![wd] = fnew[wd]] /\ fnew' = fnew
        /\ fleft' = fleft \ {wd}
    BY <1>1, <1>5 DEF TypeOK, CopyFar
  <2>2. FarOK(far)' /\ FarOK(fnew)'
    BY <2>1 DEF FarOK, FarWords
  <2>3. TypeOK'
    BY <1>1, <1>2, <2>1, <2>2 DEF TypeOK, maps, cvars, pvars
  <2> QED BY <1>3, <2>3 DEF IInv
<1> QED BY <1>4, <1>5 DEF FarNext

\* A lookup of a packet that saw no change hits: its session is complete.
LEMMA PacketStep ==
    ASSUME IInv, PacketNext
    PROVE  IInv'
<1>1. /\ TypeOK /\ Finite /\ SessionComplete
      /\ (\A q \in Procs : ProcOK(q)) /\ (\A c \in CPUs : PacketOK(c))
  BY DEF IInv
<1>2. UNCHANGED <<maps, cvars, fvars>>
  BY DEF PacketNext, XdpSession, XdpPdr, TcSession, TcBundle, FarAction, Shot, Redirect, Return
<1>3. Finite' /\ SessionComplete' /\ \A q \in Procs : ProcOK(q)'
  BY <1>1, <1>2 DEF Finite, SessionComplete, ProcOK, maps, cvars
<1>4. ASSUME NEW c \in CPUs, NEW s \in Sessions, XdpSession(c, s) PROVE IInv'
  <2>1. TypeOK'
    BY <1>1, <1>2, <1>4 DEF TypeOK, XdpSession, Enter, maps, cvars, fvars, Stages, FarOK
  <2>2. \A d \in CPUs : PacketOK(d)'
    BY <1>1, <1>2, <1>4 DEF TypeOK, PacketOK, XdpSession, Enter, maps
  <2> QED BY <1>3, <2>1, <2>2 DEF IInv
<1>5. ASSUME NEW c \in CPUs, XdpPdr(c) \/ TcSession(c) \/ TcBundle(c) PROVE IInv'
  <2>1. TypeOK'
    BY <1>1, <1>2, <1>5 DEF TypeOK, XdpPdr, TcSession, TcBundle, Enter, maps, cvars, fvars,
       Stages, Ends, FarOK
  <2>2. \A d \in CPUs : PacketOK(d)'
    BY <1>1, <1>2, <1>5 DEF TypeOK, PacketOK, XdpPdr, TcSession, TcBundle, Enter, maps, SessionComplete
  <2> QED BY <1>3, <2>1, <2>2 DEF IInv
<1>6. ASSUME NEW c \in CPUs, FarAction(c) \/ Shot(c) \/ Redirect(c) PROVE IInv'
  <2>1. far["action"] \in Actions /\ far["out_ifindex"] \in Nat
    BY <1>1 DEF TypeOK, FarOK
  <2>2. TypeOK'
    BY <1>1, <1>2, <1>6, <2>1 DEF TypeOK, FarAction, Shot, Redirect, Enter, maps, cvars, fvars,
       Stages, Ends, FarOK, Actions
  <2>3. \A d \in CPUs : PacketOK(d)'
    BY <1>1, <1>2, <1>6, <2>1 DEF TypeOK, PacketOK, FarAction, Shot, Redirect, Enter, maps, Actions
  <2> QED BY <1>3, <2>2, <2>3 DEF IInv
<1>7. ASSUME NEW c \in CPUs, Return(c) PROVE IInv'
  <2>1. TypeOK'
    BY <1>1, <1>2, <1>7 DEF TypeOK, Return, Enter, maps, cvars, fvars, Stages, FarOK
  <2>2. \A d \in CPUs : PacketOK(d)'
    BY <1>1, <1>2, <1>7 DEF TypeOK, PacketOK, Return, Enter, maps
  <2> QED BY <1>3, <2>1, <2>2 DEF IInv
<1> QED BY <1>4, <1>5, <1>6, <1>7 DEF PacketNext

-----------------------------------------------------------------------------
\* The invariant holds in every reachable state.
THEOREM Invariance ==
    Spec => []IInv
<1>1. IInv /\ [Next]_vars => IInv'
  <2> SUFFICES ASSUME IInv, [Next]_vars PROVE IInv'
    OBVIOUS
  <2>1. CASE ControlNext
    BY <2>1, ProcessStep, PutStep, DelStep DEF ControlNext
  <2>2. CASE FarNext
    BY <2>2, FarStep
  <2>3. CASE PacketNext
    BY <2>3, PacketStep
  <2>4. CASE UNCHANGED vars
    BY <2>4 DEF vars, IInv, TypeOK, Finite, SessionComplete, ProcOK, PacketOK, FarOK
  <2> QED BY <2>1, <2>2, <2>3, <2>4 DEF Next
<1> QED BY <1>1, InitIInv, PTL DEF Spec

\* The maps stay within their sizes and every variable within its type.
THEOREM TypeCorrect ==
    Spec => []TypeOK
<1>1. IInv => TypeOK BY DEF IInv
<1> QED BY <1>1, Invariance, PTL

\* Every session a packet can find is complete, through crashes, full maps
\* and evictions, for any number of sessions, processes and CPUs.
THEOREM SessionsComplete ==
    Spec => []SessionComplete
<1>1. IInv => SessionComplete BY DEF IInv
<1> QED BY <1>1, Invariance, PTL

\* The claim of upf_tc.c about misses holds for sessions the agent installs,
\* and in XDP for every session: a packet whose session has not changed still
\* has it in teid_session, so in pdr_table too.
THEOREM MissesAreRaces ==
    Spec => []MissOnlyIfChanged
<1>1. IInv => MissOnlyIfChanged BY DEF IInv, PacketOK, MissOnlyIfChanged
<1> QED BY <1>1, Invariance, PTL

\* teid_session, the larger map, never evicts: each of its sessions holds an
\* entry of pdr_table, which refuses the session that would be too many.
THEOREM NothingEvicted ==
    ASSUME MaxPdrs =< MaxTeids
    PROVE  Spec => NoEviction
<1> DEFINE Stays == \A s \in teid_session :
         s \notin teid_session' => pc[Owner[s]] = "del_teid" /\ key[Owner[s]] = s
<1>1. IInv /\ [Next]_vars => [Stays]_vars
  <2> SUFFICES ASSUME IInv, Next, NEW s \in teid_session, s \notin teid_session'
               PROVE  pc[Owner[s]] = "del_teid" /\ key[Owner[s]] = s
    OBVIOUS
  <2>1. ASSUME NEW p \in Procs, PutTeid(p) PROVE FALSE
    <3>1. /\ IsFiniteSet(teid_session) /\ IsFiniteSet(pdr_table)
          /\ teid_session \subseteq pdr_table /\ key[p] \in pdr_table
          /\ Cardinality(pdr_table) =< MaxPdrs
      BY <2>1 DEF IInv, Finite, SessionComplete, ProcOK, PutTeid, TypeOK
    <3>2. teid_session \cup {key[p]} \subseteq pdr_table
      BY <3>1
    <3>3. Cardinality(teid_session \cup {key[p]}) =< Cardinality(pdr_table)
      BY <3>1, <3>2, FS_Subset
    <3>4. Cardinality(teid_session) \in Nat /\ Cardinality(pdr_table) \in Nat
      BY <3>1, FS_CardinalityType
    <3>5. key[p] \notin teid_session =>
            Cardinality(teid_session \cup {key[p]}) = Cardinality(teid_session) + 1
      BY <3>1, FS_AddElement
    <3>6. MaxPdrs \in Nat /\ MaxTeids \in Nat
      BY UplinkAssumption
    <3>7. key[p] \in teid_session \/ Cardinality(teid_session) < MaxTeids
      BY <3>1, <3>3, <3>4, <3>5, <3>6
    <3>8. teid_session' = teid_session \cup {key[p]}
      BY <2>1, <3>7 DEF PutTeid, LruInsert
    <3> QED BY <3>8
  <2>2. ASSUME NEW p \in Procs, DelTeid(p)
        PROVE  pc[Owner[s]] = "del_teid" /\ key[Owner[s]] = s
    BY <2>2 DEF DelTeid, IInv, ProcOK
  <2>3. \E p \in Procs : PutTeid(p) \/ DelTeid(p)
    BY DEF Next, ControlNext, FarNext, PacketNext, InstallSession, RemoveSession, PutPdr, PutBundle,
       DelPdr, DelBundle, Crash, InstallFar, CopyFar, XdpSession, XdpPdr, TcSession, TcBundle,
       FarAction, Shot, Redirect, Return, maps
  <2> QED BY <2>1, <2>2, <2>3
<1>2. Spec => []IInv /\ [][Next]_vars
  BY Invariance, PTL DEF Spec
<1> QED BY <1>1, <1>2, PTL DEF NoEviction
=============================================================================
