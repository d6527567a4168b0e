----------------------------- MODULE GenlProofs -----------------------------
(***************************************************************************)
(* Proofs about GenlClient, for any error numbers and any options: what    *)
(* nla() encodes, the kernel's walk and the loop of resolve_family decode, *)
(* attribute by attribute; from that, what the two clients report.         *)
(***************************************************************************)
EXTENDS GenlClient, SumTheorems, SequenceTheorems

-----------------------------------------------------------------------------
(* A loop over the offsets of a buffer.                                    *)

\* The recursion goes on at offsets in more, which are all below l, and only
\* to larger ones.
Forward(l, more, nxt) == \A o \in more : o < l /\ nxt[o] > o

\* g is the function it defines.
Follows(g, base, more, nxt, F) ==
    \A o \in Nat : g[o] = IF o \in more THEN F[<<o, g[nxt[o]]>>] ELSE base

\* Such a function exists.
LEMMA Recursion ==
    ASSUME NEW l \in Nat, NEW V, NEW base \in V, NEW more \in SUBSET Nat,
           NEW nxt \in [more -> Nat], NEW F \in [more \X V -> V],
           Forward(l, more, nxt)
    PROVE  \E g \in [Nat -> V] : Follows(g, base, more, nxt, F)
<1>0. \A o \in more : o < l /\ nxt[o] > o
  BY DEF Forward
<1> DEFINE Right(g, o) == g[o] = IF o \in more THEN F[<<o, g[nxt[o]]>>] ELSE base
           T == {n \in Nat : \E g \in [Nat -> V] : \A o \in Nat : o + n >= l => Right(g, o)}
<1>1. 0 \in T
  <2> DEFINE g == [o \in Nat |-> base]
  <2>1. g \in [Nat -> V]
    OBVIOUS
  <2>2. ASSUME NEW o \in Nat, o + 0 >= l PROVE Right(g, o)
    <3>1. o \notin more
      BY <1>0, <2>2
    <3> QED BY <3>1
  <2> QED BY <2>1, <2>2
<1>2. ASSUME NEW n \in T PROVE n + 1 \in T
  <2>1. n \in Nat
    OBVIOUS
  <2>2. PICK g \in [Nat -> V] : \A o \in Nat : o + n >= l => Right(g, o)
    OBVIOUS
  <2> DEFINE h == [o \in Nat |-> IF o + n >= l \/ o \notin more THEN g[o]
                                 ELSE F[<<o, g[nxt[o]]>>]]
             k == [o \in Nat |-> IF o \in more THEN h[o] ELSE base]
  <2>3. ASSUME NEW o \in Nat, NEW v \in V, o \in more PROVE F[<<o, v>>] \in V
    BY <2>3
  <2>4. ASSUME NEW o \in Nat PROVE k[o] \in V
    <3>1. CASE o \in more
      <4>1. nxt[o] \in Nat
        BY <3>1
      <4>2. g[nxt[o]] \in V /\ g[o] \in V
        BY <4>1
      <4> QED BY <2>3, <3>1, <4>2
    <3>2. CASE o \notin more
      BY <3>2
    <3> QED BY <3>1, <3>2
  <2>5. k \in [Nat -> V]
    BY <2>4
  <2>6. ASSUME NEW o \in Nat, o + n >= l PROVE k[o] = g[o]
    <3>1. CASE o \in more
      BY <2>6, <3>1
    <3>2. CASE o \notin more
      BY <2>2, <2>6, <3>2
    <3> QED BY <3>1, <3>2
  <2>7. ASSUME NEW o \in Nat, o + (n + 1) >= l PROVE Right(k, o)
    <3>1. CASE o \notin more
      BY <3>1
    <3>2. CASE o \in more
      <4>1. nxt[o] \in Nat /\ nxt[o] > o
        BY <1>0, <3>2
      <4>2. nxt[o] + n >= l
        BY <2>1, <2>7, <4>1
      <4>3. k[nxt[o]] = g[nxt[o]]
        BY <2>6, <4>1, <4>2
      <4>4. k[o] = F[<<o, g[nxt[o]]>>]
        <5>1. CASE o + n >= l
          <6>1. k[o] = g[o] /\ Right(g, o)
            BY <2>2, <2>6, <5>1
          <6> QED BY <3>2, <6>1
        <5>2. CASE ~(o + n >= l)
          BY <3>2, <5>2
        <5> QED BY <5>1, <5>2
      <4> HIDE DEF k, h
      <4> QED BY <3>2, <4>3, <4>4
    <3> QED BY <3>1, <3>2
  <2>8. n + 1 \in Nat
    BY <2>1
  <2> HIDE DEF k, h, Right
  <2> QED BY <2>5, <2>7, <2>8
<1>3. T = Nat
  <2>1. T \in SUBSET Nat
    OBVIOUS
  <2> HIDE DEF T
  <2> QED BY <1>1, <1>2, <2>1, SetInduction
<1>4. l \in T
  <2> HIDE DEF T
  <2> QED BY <1>3
<1>5. PICK g \in [Nat -> V] : \A o \in Nat : o + l >= l => Right(g, o)
  BY <1>4
<1>6. \A o \in Nat : o + l >= l
  OBVIOUS
<1> QED BY <1>5, <1>6 DEF Follows

-----------------------------------------------------------------------------
(* What nla() writes.                                                      *)

\* A length is split into two bytes that give it back; padding is 0 to 3 bytes.
LEMMA LengthBytes ==
    ASSUME NEW n \in Nat
    PROVE  /\ n % 256 \in Nat /\ n \div 256 \in Nat /\ (n % 256) + 256 * (n \div 256) = n
           /\ Pad(n) \in Nat /\ Pad(n) = (4 - (n % 4)) % 4
BY Z3 DEF Pad

\* Payload bytes.
LEMMA BytesType ==
    ASSUME NEW n \in Nat PROVE Bytes(n) \in Seq(Nat) /\ Len(Bytes(n)) = n
BY DEF Bytes

Regroups(a, b, c) == a \o b \o c = a \o (b \o c)

\* Concatenation is associative.
LEMMA Assoc ==
    ASSUME NEW a \in Seq(Nat), NEW b \in Seq(Nat), NEW c \in Seq(Nat)
    PROVE  Regroups(a, b, c)
BY DEF Regroups

\* Nothing before or after a buffer.
LEMMA Nothing ==
    ASSUME NEW a \in Seq(Nat)
    PROVE  /\ <<>> \in Seq(Nat) /\ Len(<<>>) = 0 /\ <<>> \o a = a /\ a \o <<>> = a
OBVIOUS

\* Header, payload and padding, one after the other.
LEMMA ThreeParts ==
    ASSUME NEW h \in Seq(Nat), NEW p \in Seq(Nat), NEW q \in Seq(Nat)
    PROVE  /\ h \o p \o q \in Seq(Nat) /\ Len(h \o p \o q) = Len(h) + Len(p) + Len(q)
           /\ \A i \in 1..Len(h) : (h \o p \o q)[i] = h[i]
           /\ \A i \in 1..Len(p) : (h \o p \o q)[Len(h) + i] = p[i]
<1> DEFINE hp == h \o p
<1>0. hp \in Seq(Nat)
  OBVIOUS
<1>1. Len(hp) = Len(h) + Len(p)
  OBVIOUS
<1>2. \A i \in 1..Len(h) : hp[i] = h[i]
  OBVIOUS
<1>3. \A i \in 1..Len(p) : hp[Len(h) + i] = p[i]
  OBVIOUS
<1> HIDE DEF hp
<1>4. hp \o q \in Seq(Nat) /\ Len(hp \o q) = Len(h) + Len(p) + Len(q)
  <2>1. hp \o q \in Seq(Nat) /\ Len(hp \o q) = Len(hp) + Len(q)
    BY <1>0
  <2> QED BY <1>1, <2>1, Zenon
<1>5. ASSUME NEW i \in 1..(Len(h) + Len(p)) PROVE (hp \o q)[i] = hp[i]
  BY <1>0, <1>1
<1>6. ASSUME NEW i \in 1..Len(h) PROVE (hp \o q)[i] = h[i]
  <2>1. i \in 1..(Len(h) + Len(p))
    OBVIOUS
  <2> QED BY <1>2, <1>5, <2>1
<1>7. ASSUME NEW i \in 1..Len(p) PROVE (hp \o q)[Len(h) + i] = p[i]
  <2>1. Len(h) + i \in 1..(Len(h) + Len(p))
    OBVIOUS
  <2> QED BY <1>3, <1>5, <2>1
<1> QED BY <1>4, <1>6, <1>7 DEF hp

\* An attribute: its header, its payload, and the length the readers skip.
IsNla(a, t, p) ==
    /\ a \in Seq(Nat) /\ Len(a) = 4 + Len(p) + Pad(4 + Len(p))
    /\ a[1] + 256 * a[2] = 4 + Len(p) /\ a[3] = t
    /\ \A i \in 1..Len(p) : a[4 + i] = p[i]

\* Such is what nla() writes.
LEMMA NlaShape ==
    ASSUME NEW t \in Nat, NEW p \in Seq(Nat)
    PROVE  IsNla(Nla(t, p), t, p)
<1>1. PICK n \in Nat : n = 4 + Len(p)
  OBVIOUS
<1>2. /\ n % 256 \in Nat /\ n \div 256 \in Nat /\ (n % 256) + 256 * (n \div 256) = n
      /\ Pad(n) \in Nat
  BY LengthBytes
<1>3. PICK x \in Nat : x = n % 256
  BY <1>2
<1>4. PICK y \in Nat : y = n \div 256
  BY <1>2
<1>5. PICK h \in Seq(Nat) : h = <<x, y, t, 0>>
  <2>1. <<x, y, t, 0>> \in Seq(Nat)
    OBVIOUS
  <2> QED BY <2>1, Zenon
<1>6. Len(h) = 4 /\ h[1] = x /\ h[2] = y /\ h[3] = t
  BY <1>5
<1>7. PICK q \in Seq(Nat) : q = [b \in 1..Pad(n) |-> 0] /\ Len(q) = Pad(n)
  <2>1. PICK z \in Nat : z = Pad(n)
    BY <1>2, Zenon
  <2>2. [b \in 1..z |-> 0] \in Seq(Nat) /\ Len([b \in 1..z |-> 0]) = z
    OBVIOUS
  <2> QED BY <2>1, <2>2, Zenon
<1>8. Nla(t, p) = h \o p \o q
  BY <1>1, <1>3, <1>4, <1>5, <1>7, Zenon DEF Nla
<1>9. /\ Nla(t, p) \in Seq(Nat) /\ Len(Nla(t, p)) = 4 + Len(p) + Pad(n)
      /\ Nla(t, p)[1] = x /\ Nla(t, p)[2] = y /\ Nla(t, p)[3] = t
      /\ \A i \in 1..Len(p) : Nla(t, p)[4 + i] = p[i]
  <2>1. /\ h \o p \o q \in Seq(Nat) /\ Len(h \o p \o q) = 4 + Len(p) + Len(q)
        /\ \A i \in 1..4 : (h \o p \o q)[i] = h[i]
        /\ \A i \in 1..Len(p) : (h \o p \o q)[4 + i] = p[i]
    <3>1. PICK m : m = Len(h)
      OBVIOUS
    <3>0. /\ h \o p \o q \in Seq(Nat) /\ Len(h \o p \o q) = Len(h) + Len(p) + Len(q)
          /\ \A i \in 1..Len(h) : (h \o p \o q)[i] = h[i]
          /\ \A i \in 1..Len(p) : (h \o p \o q)[Len(h) + i] = p[i]
      BY ThreeParts
    <3>2. /\ h \o p \o q \in Seq(Nat) /\ Len(h \o p \o q) = m + Len(p) + Len(q)
          /\ \A i \in 1..m : (h \o p \o q)[i] = h[i]
          /\ \A i \in 1..Len(p) : (h \o p \o q)[m + i] = p[i]
      BY <3>0, <3>1, Zenon
    <3>3. m = 4
      BY <1>6, <3>1, Zenon
    <3> QED BY <3>2, <3>3, Zenon
  <2>2. 1 \in 1..4 /\ 2 \in 1..4 /\ 3 \in 1..4
    OBVIOUS
  <2> QED BY <1>6, <1>7, <1>8, <2>1, <2>2, Zenon
<1>10. x + 256 * y = n
  BY <1>2, <1>3, <1>4, Zenon
<1> QED BY <1>1, <1>9, <1>10, Zenon DEF IsNla

\* A part of a buffer, read from a buffer that starts later.
LEMMA SubSeqShift ==
    ASSUME NEW a \in Seq(Nat), NEW b \in Seq(Nat), NEW i \in Nat, NEW j \in Nat,
           1 =< i, j =< Len(b)
    PROVE  SubSeq(a \o b, Len(a) + i, Len(a) + j) = SubSeq(b, i, j)
<1> DEFINE c == a \o b
<1>1. \A k \in 1..Len(b) : c[Len(a) + k] = b[k]
  OBVIOUS
<1>2. Len(c) = Len(a) + Len(b) /\ c \in Seq(Nat) /\ Len(a) \in Nat /\ Len(b) \in Nat
  OBVIOUS
<1> HIDE DEF c
<1>3. SubSeq(b, i, j) = [k \in 1..(1 + j - i) |-> b[k + i - 1]]
  OBVIOUS
<1>4. SubSeq(c, Len(a) + i, Len(a) + j)
        = [k \in 1..(1 + (Len(a) + j) - (Len(a) + i)) |-> c[k + (Len(a) + i) - 1]]
  OBVIOUS
<1>5. 1 + (Len(a) + j) - (Len(a) + i) = 1 + j - i
  BY <1>2
<1>6. ASSUME NEW k \in 1..(1 + j - i) PROVE c[k + (Len(a) + i) - 1] = b[k + i - 1]
  <2>1. k + i - 1 \in 1..Len(b) /\ k + (Len(a) + i) - 1 = Len(a) + (k + i - 1)
    BY <1>2
  <2> QED BY <1>1, <2>1
<1>7. SubSeq(c, Len(a) + i, Len(a) + j) = SubSeq(b, i, j)
  BY <1>3, <1>4, <1>5, <1>6
<1> QED BY <1>7 DEF c

\* The payload is where the readers look for it.
LEMMA PayloadRead ==
    ASSUME NEW t \in Nat, NEW p \in Seq(Nat), NEW b \in Seq(Nat)
    PROVE  SubSeq(Nla(t, p) \o b, 5, 4 + Len(p)) = p
<1>0. PICK n : n = Nla(t, p) /\ IsNla(n, t, p)
  BY NlaShape, Zenon
<1> DEFINE c == n \o b
<1>1. n \in Seq(Nat) /\ Len(n) >= 4 + Len(p) /\ \A i \in 1..Len(p) : n[4 + i] = p[i]
  <2>1. /\ n \in Seq(Nat) /\ Len(n) = 4 + Len(p) + Pad(4 + Len(p))
        /\ \A i \in 1..Len(p) : n[4 + i] = p[i]
    BY <1>0, Zenon DEF IsNla
  <2>2. 4 + Len(p) \in Nat
    OBVIOUS
  <2>3. Pad(4 + Len(p)) \in Nat
    BY <2>2, LengthBytes, Zenon
  <2> QED BY <2>1, <2>2, <2>3
<1>2. \A i \in 1..Len(n) : c[i] = n[i]
  BY <1>1
<1>3. c \in Seq(Nat) /\ Len(p) \in Nat /\ Len(n) \in Nat
  BY <1>1
<1> HIDE DEF c
<1>4. SubSeq(c, 5, 4 + Len(p)) = [k \in 1..(1 + (4 + Len(p)) - 5) |-> c[k + 5 - 1]]
  OBVIOUS
<1>5. 1 + (4 + Len(p)) - 5 = Len(p)
  BY <1>3
<1>6. ASSUME NEW k \in 1..Len(p) PROVE c[k + 5 - 1] = p[k]
  <2>1. k + 5 - 1 = 4 + k /\ 4 + k \in 1..Len(n)
    BY <1>1, <1>3
  <2> QED BY <1>1, <1>2, <2>1
<1>7. p = [k \in 1..Len(p) |-> p[k]]
  OBVIOUS
<1>8. SubSeq(c, 5, 4 + Len(p)) = p
  BY <1>4, <1>5, <1>6, <1>7
<1> QED BY <1>0, <1>8, Zenon DEF c

-----------------------------------------------------------------------------
(* The kernel's walk.                                                      *)

LenAt(b, o) == b[o + 1] + 256 * b[o + 2]
NextOff(b, o) == o + LenAt(b, o) + ((4 - (LenAt(b, o) % 4)) % 4)

\* Where the walk finds an attribute, which one, and where it goes on.
Whole(b) == {o \in Nat : o + 4 =< Len(b) /\ LenAt(b, o) >= 4 /\ o + LenAt(b, o) =< Len(b)}
AttrAt(b, o) == <<b[o + 3], SubSeq(b, o + 5, o + LenAt(b, o))>>

\* The function the walk defines.
WalkFn(b, g) ==
    g = [off \in Nat |->
          IF off + 4 > Len(b) THEN {}
          ELSE IF LenAt(b, off) < 4 \/ off + LenAt(b, off) > Len(b) THEN {}
          ELSE {AttrAt(b, off)} \cup g[NextOff(b, off)]]

\* What the walk computes, by definition.
LEMMA WalkUnfolded == ASSUME NEW b PROVE KernelAttrs(b) = (CHOOSE g : WalkFn(b, g))[0]
BY Zenon DEF KernelAttrs, WalkFn, LenAt, NextOff, AttrAt

\* Lengths and next offsets are numbers, and the next offset is a larger one.
LEMMA OffsetTypes ==
    ASSUME NEW b \in Seq(Nat), NEW o \in Nat, o + 4 =< Len(b)
    PROVE  /\ LenAt(b, o) \in Nat /\ NextOff(b, o) \in Nat
           /\ NextOff(b, o) = o + LenAt(b, o) + Pad(LenAt(b, o))
           /\ LenAt(b, o) >= 4 => NextOff(b, o) > o
<1>1. b[o + 1] \in Nat /\ b[o + 2] \in Nat
  OBVIOUS
<1>2. LenAt(b, o) \in Nat
  BY <1>1 DEF LenAt
<1>3. PICK n \in Nat : n = LenAt(b, o)
  BY <1>2, Zenon
<1>4. Pad(n) \in Nat /\ Pad(n) = (4 - (n % 4)) % 4
  BY LengthBytes, Zenon
<1>5. PICK z \in Nat : z = Pad(n)
  BY <1>4, Zenon
<1>6. NextOff(b, o) = o + n + z
  BY <1>3, <1>4, <1>5, Zenon DEF NextOff
<1>7. NextOff(b, o) \in Nat /\ (n >= 4 => NextOff(b, o) > o)
  BY <1>6
<1> QED BY <1>2, <1>3, <1>5, <1>6, <1>7, Zenon

\* One step of it.
LEMMA WalkStep ==
    ASSUME NEW b \in Seq(Nat), NEW g, WalkFn(b, g), NEW o \in Nat
    PROVE  g[o] = IF o \in Whole(b) THEN {AttrAt(b, o)} \cup g[NextOff(b, o)] ELSE {}
<1>1. g[o] = IF o + 4 > Len(b) THEN {}
             ELSE IF LenAt(b, o) < 4 \/ o + LenAt(b, o) > Len(b) THEN {}
             ELSE {AttrAt(b, o)} \cup g[NextOff(b, o)]
  BY Zenon DEF WalkFn
<1>2. Len(b) \in Nat
  OBVIOUS
<1>3. CASE o + 4 > Len(b)
  <2>1. o \notin Whole(b)
    BY <1>2, <1>3 DEF Whole
  <2> QED BY <1>1, <1>3, <2>1
<1>4. CASE ~(o + 4 > Len(b))
  <2>1. o + 4 =< Len(b)
    BY <1>2, <1>4
  <2>2. LenAt(b, o) \in Nat
    BY <2>1, OffsetTypes
  <2>3. CASE LenAt(b, o) < 4 \/ o + LenAt(b, o) > Len(b)
    <3>1. o \notin Whole(b)
      BY <1>2, <2>2, <2>3 DEF Whole
    <3> QED BY <1>1, <1>4, <2>3, <3>1, Zenon
  <2>4. CASE ~(LenAt(b, o) < 4 \/ o + LenAt(b, o) > Len(b))
    <3>1. o \in Whole(b)
      BY <1>2, <2>1, <2>2, <2>4 DEF Whole
    <3> QED BY <1>1, <1>4, <2>4, <3>1, Zenon
  <2> QED BY <2>3, <2>4
<1> QED BY <1>3, <1>4

\* The walk ends on every buffer, so that there is such a function.
LEMMA WalkExists ==
    ASSUME NEW b \in Seq(Nat) PROVE WalkFn(b, CHOOSE g : WalkFn(b, g))
<1> DEFINE V == SUBSET {AttrAt(b, o) : o \in Nat}
           more == Whole(b)
           nxt == [o \in more |-> NextOff(b, o)]
           F == [x \in more \X V |-> {AttrAt(b, x[1])} \cup x[2]]
<1>1. Len(b) \in Nat /\ more \in SUBSET Nat /\ {} \in V
  BY DEF Whole
<1>2. ASSUME NEW o \in more
      PROVE  o \in Nat /\ o + 4 =< Len(b) /\ LenAt(b, o) >= 4 /\ o + LenAt(b, o) =< Len(b)
  BY DEF Whole
<1> HIDE DEF more
<1>3. ASSUME NEW o \in more PROVE o < Len(b) /\ NextOff(b, o) \in Nat /\ NextOff(b, o) > o
  <2>1. NextOff(b, o) \in Nat /\ NextOff(b, o) > o
    BY <1>2, OffsetTypes
  <2> QED BY <1>1, <1>2, <2>1
<1>4. nxt \in [more -> Nat] /\ Forward(Len(b), more, nxt)
  BY <1>3 DEF Forward
<1>5. F \in [more \X V -> V]
  <2>1. ASSUME NEW x \in more \X V PROVE {AttrAt(b, x[1])} \cup x[2] \in V
    BY <1>1
  <2> QED BY <2>1
<1>6. PICK g \in [Nat -> V] : Follows(g, {}, more, nxt, F)
  <2> HIDE DEF V, nxt, F
  <2> QED BY <1>1, <1>4, <1>5, Recursion
<1>7. ASSUME NEW o \in Nat
      PROVE  g[o] = IF o \in more THEN {AttrAt(b, o)} \cup g[NextOff(b, o)] ELSE {}
  <2>1. CASE o \in more
    <3>1. nxt[o] = NextOff(b, o) /\ NextOff(b, o) \in Nat
      BY <1>3, <2>1
    <3>2. g[nxt[o]] \in V
      BY <3>1
    <3>3. F[<<o, g[nxt[o]]>>] = {AttrAt(b, o)} \cup g[nxt[o]]
      BY <2>1, <3>2
    <3> HIDE DEF F, nxt, V
    <3> QED BY <1>6, <2>1, <3>1, <3>3, Zenon DEF Follows
  <2>2. CASE o \notin more
    <3> HIDE DEF F, nxt, V
    <3> QED BY <1>6, <2>2 DEF Follows
  <2> QED BY <2>1, <2>2
<1> HIDE DEF V, nxt, F
<1>8. ASSUME NEW o \in Nat
      PROVE  g[o] = IF o + 4 > Len(b) THEN {}
                    ELSE IF LenAt(b, o) < 4 \/ o + LenAt(b, o) > Len(b) THEN {}
                    ELSE {AttrAt(b, o)} \cup g[NextOff(b, o)]
  <2>1. CASE o \in more
    <3>1. o + 4 =< Len(b) /\ LenAt(b, o) \in Nat /\ LenAt(b, o) >= 4 /\ o + LenAt(b, o) =< Len(b)
      BY <1>2, <2>1, OffsetTypes
    <3>2. ~(o + 4 > Len(b)) /\ ~(LenAt(b, o) < 4 \/ o + LenAt(b, o) > Len(b))
      BY <1>1, <3>1
    <3> QED BY <1>7, <2>1, <3>2, Zenon
  <2>2. CASE o \notin more
    <3>1. SUFFICES ASSUME ~(o + 4 > Len(b)) PROVE LenAt(b, o) < 4 \/ o + LenAt(b, o) > Len(b)
      BY <1>7, <2>2
    <3>2. o + 4 =< Len(b)
      BY <1>1, <3>1
    <3>3. LenAt(b, o) \in Nat
      BY <3>2, OffsetTypes
    <3> QED BY <1>1, <2>2, <3>2, <3>3 DEF more, Whole
  <2> QED BY <2>1, <2>2
<1>9. WalkFn(b, g)
  BY <1>8, Zenon DEF WalkFn
<1> QED BY <1>9, Zenon

\* A buffer behind another one holds the same attributes.
LEMMA ShiftAt ==
    ASSUME NEW a \in Seq(Nat), NEW b \in Seq(Nat), NEW o \in Nat, o + 4 =< Len(b)
    PROVE  /\ LenAt(a \o b, Len(a) + o) = LenAt(b, o)
           /\ NextOff(a \o b, Len(a) + o) = Len(a) + NextOff(b, o)
           /\ (a \o b)[Len(a) + o + 3] = b[o + 3]
<1> DEFINE c == a \o b
<1>1. \A k \in 1..Len(b) : c[Len(a) + k] = b[k]
  OBVIOUS
<1>2. c \in Seq(Nat) /\ Len(a) \in Nat /\ Len(b) \in Nat /\ Len(c) = Len(a) + Len(b)
  OBVIOUS
<1> HIDE DEF c
<1>3. PICK q \in Nat : q = Len(a) + o
  BY <1>2
<1>4. /\ o + 1 \in 1..Len(b) /\ o + 2 \in 1..Len(b) /\ o + 3 \in 1..Len(b)
      /\ q + 1 = Len(a) + (o + 1) /\ q + 2 = Len(a) + (o + 2) /\ q + 3 = Len(a) + (o + 3)
      /\ q + 4 =< Len(c)
  BY <1>2, <1>3
<1>5. c[q + 1] = b[o + 1] /\ c[q + 2] = b[o + 2] /\ c[q + 3] = b[o + 3]
  <2>1. c[Len(a) + (o + 1)] = b[o + 1]
    BY <1>1, <1>4, Zenon
  <2>2. c[Len(a) + (o + 2)] = b[o + 2]
    BY <1>1, <1>4, Zenon
  <2>3. c[Len(a) + (o + 3)] = b[o + 3]
    BY <1>1, <1>4, Zenon
  <2> QED BY <1>4, <2>1, <2>2, <2>3, Zenon
<1>6. LenAt(c, q) = LenAt(b, o)
  BY <1>5, Zenon DEF LenAt
<1>7. PICK n \in Nat : n = LenAt(b, o)
  BY OffsetTypes
<1>8. NextOff(b, o) = o + n + Pad(n) /\ NextOff(c, q) = q + n + Pad(n)
  <2>1. NextOff(b, o) = o + LenAt(b, o) + Pad(LenAt(b, o))
    BY OffsetTypes, Zenon
  <2>2. NextOff(c, q) = q + LenAt(c, q) + Pad(LenAt(c, q))
    BY <1>2, <1>4, OffsetTypes, Zenon
  <2> QED BY <1>6, <1>7, <2>1, <2>2, Zenon
<1>9. Pad(n) \in Nat
  BY LengthBytes
<1>10. q + n + Pad(n) = Len(a) + (o + n + Pad(n))
  BY <1>2, <1>3, <1>9
<1>11. NextOff(c, q) = Len(a) + NextOff(b, o)
  BY <1>8, <1>10, Zenon
<1> QED BY <1>3, <1>5, <1>6, <1>11, Zenon DEF c

\* The walk from an offset is the walk over the rest of the buffer.
LEMMA WalkShift ==
    ASSUME NEW a \in Seq(Nat), NEW b \in Seq(Nat), NEW g, NEW h,
           WalkFn(a \o b, g), WalkFn(b, h), NEW x \in Nat
    PROVE  g[Len(a) + x] = h[x]
<1> DEFINE T == {n \in Nat : \A o \in Nat : o + n >= Len(b) => g[Len(a) + o] = h[o]}
<1>1. /\ a \o b \in Seq(Nat) /\ Len(a) \in Nat /\ Len(b) \in Nat
      /\ Len(a \o b) = Len(a) + Len(b)
  OBVIOUS
<1>2. ASSUME NEW o \in Nat, o \in Whole(b)
      PROVE  /\ o + 4 =< Len(b) /\ NextOff(b, o) \in Nat /\ NextOff(b, o) > o
             /\ h[o] = {AttrAt(b, o)} \cup h[NextOff(b, o)]
             /\ g[Len(a) + o] = {AttrAt(b, o)} \cup g[Len(a) + NextOff(b, o)]
  <2>1. o + 4 =< Len(b) /\ LenAt(b, o) >= 4 /\ o + LenAt(b, o) =< Len(b)
    BY <1>2 DEF Whole
  <2>2. PICK n \in Nat : n = LenAt(b, o) /\ NextOff(b, o) \in Nat /\ NextOff(b, o) > o
    BY <2>1, OffsetTypes
  <2>3. PICK q \in Nat : q = Len(a) + o
    BY <1>1
  <2>4. /\ LenAt(a \o b, q) = n /\ NextOff(a \o b, q) = Len(a) + NextOff(b, o)
        /\ (a \o b)[q + 3] = b[o + 3]
    BY <2>1, <2>2, <2>3, ShiftAt, Zenon
  <2>5. q + 4 =< Len(a \o b) /\ n >= 4 /\ q + n =< Len(a \o b)
    BY <1>1, <2>1, <2>2, <2>3
  <2>6. q \in Whole(a \o b)
    BY <2>4, <2>5, Zenon DEF Whole
  <2>7. SubSeq(a \o b, q + 5, q + n) = SubSeq(b, o + 5, o + n)
    <3>1. o + 5 \in Nat /\ o + n \in Nat /\ 1 =< o + 5 /\ o + n =< Len(b)
      BY <1>1, <2>1, <2>2
    <3>2. q + 5 = Len(a) + (o + 5) /\ q + n = Len(a) + (o + n)
      BY <1>1, <2>2, <2>3
    <3>3. SubSeq(a \o b, Len(a) + (o + 5), Len(a) + (o + n)) = SubSeq(b, o + 5, o + n)
      BY <3>1, SubSeqShift
    <3> QED BY <3>2, <3>3, Zenon
  <2>8. AttrAt(a \o b, q) = AttrAt(b, o)
    BY <2>2, <2>4, <2>7, Zenon DEF AttrAt
  <2>9. g[q] = {AttrAt(a \o b, q)} \cup g[NextOff(a \o b, q)]
    BY <1>1, <2>6, WalkStep, Zenon
  <2>10. h[o] = {AttrAt(b, o)} \cup h[NextOff(b, o)]
    BY <1>2, WalkStep, Zenon
  <2> QED BY <2>1, <2>2, <2>3, <2>4, <2>8, <2>9, <2>10, Zenon
<1>3. ASSUME NEW o \in Nat, o \notin Whole(b) PROVE h[o] = {} /\ g[Len(a) + o] = {}
  <2>1. PICK q \in Nat : q = Len(a) + o
    BY <1>1
  <2>2. q \notin Whole(a \o b)
    <3> SUFFICES ASSUME q + 4 =< Len(a \o b), LenAt(a \o b, q) >= 4,
                        q + LenAt(a \o b, q) =< Len(a \o b)
                 PROVE  FALSE
      BY Zenon DEF Whole
    <3>1. o + 4 =< Len(b)
      BY <1>1, <2>1
    <3>2. PICK n \in Nat : n = LenAt(b, o)
      BY <3>1, OffsetTypes
    <3>3. LenAt(a \o b, q) = n
      BY <2>1, <3>1, <3>2, ShiftAt, Zenon
    <3>4. n >= 4 /\ o + n =< Len(b)
      BY <1>1, <2>1, <3>3
    <3>5. o \in Whole(b)
      BY <3>1, <3>2, <3>4, Zenon DEF Whole
    <3> QED BY <1>3, <3>5
  <2>3. g[q] = {}
    BY <1>1, <2>2, WalkStep, Zenon
  <2>4. h[o] = {}
    BY <1>3, WalkStep, Zenon
  <2> QED BY <2>1, <2>3, <2>4, Zenon
<1>4. 0 \in T
  <2>1. ASSUME NEW o \in Nat, o + 0 >= Len(b) PROVE g[Len(a) + o] = h[o]
    <3>1. o \notin Whole(b)
      BY <1>1, <1>2, <2>1
    <3> QED BY <1>3, <3>1, Zenon
  <2> QED BY <2>1
<1>5. ASSUME NEW n \in T PROVE n + 1 \in T
  <2>1. n \in Nat /\ \A o \in Nat : o + n >= Len(b) => g[Len(a) + o] = h[o]
    OBVIOUS
  <2>2. ASSUME NEW o \in Nat, o + (n + 1) >= Len(b) PROVE g[Len(a) + o] = h[o]
    <3>1. CASE o \in Whole(b)
      <4>1. NextOff(b, o) \in Nat /\ NextOff(b, o) > o
        BY <1>2, <3>1
      <4>2. NextOff(b, o) + n >= Len(b)
        BY <1>1, <2>1, <2>2, <4>1
      <4>3. g[Len(a) + NextOff(b, o)] = h[NextOff(b, o)]
        BY <2>1, <4>1, <4>2, Zenon
      <4>4. /\ h[o] = {AttrAt(b, o)} \cup h[NextOff(b, o)]
            /\ g[Len(a) + o] = {AttrAt(b, o)} \cup g[Len(a) + NextOff(b, o)]
        BY <1>2, <3>1, Zenon
      <4> QED BY <4>3, <4>4, Zenon
    <3>2. CASE o \notin Whole(b)
      BY <1>3, <3>2, Zenon
    <3> QED BY <3>1, <3>2
  <2>3. n + 1 \in Nat
    BY <2>1
  <2> QED BY <2>2, <2>3
<1>6. T = Nat
  <2>1. T \in SUBSET Nat
    OBVIOUS
  <2> HIDE DEF T
  <2> QED BY <1>4, <1>5, <2>1, SetInduction
<1>7. Len(b) \in T
  <2> HIDE DEF T
  <2> QED BY <1>1, <1>6
<1>8. x + Len(b) >= Len(b)
  BY <1>1
<1> QED BY <1>7, <1>8

\* There is nothing in an empty buffer.
LEMMA NoAttrs == KernelAttrs(<<>>) = {}
<1>1. PICK b \in Seq(Nat) : b = <<>> /\ Len(b) = 0
  <2>1. <<>> \in Seq(Nat) /\ Len(<<>>) = 0
    OBVIOUS
  <2> QED BY <2>1, Zenon
<1>2. PICK g : WalkFn(b, g) /\ KernelAttrs(b) = g[0]
  BY WalkExists, WalkUnfolded, Zenon
<1>3. 0 \notin Whole(b)
  BY <1>1 DEF Whole
<1>4. 0 \in Nat
  OBVIOUS
<1>5. g[0] = {}
  BY <1>2, <1>3, <1>4, WalkStep, Zenon
<1> QED BY <1>1, <1>2, <1>5, Zenon

\* The kernel finds an attribute that nla() has written, with its type and
\* payload, and then what follows it, whatever the lengths.
THEOREM WalkFindsNla ==
    ASSUME NEW t \in Nat, NEW p \in Seq(Nat), NEW b \in Seq(Nat)
    PROVE  KernelAttrs(Nla(t, p) \o b) = {<<t, p>>} \cup KernelAttrs(b)
<1>1. PICK a \in Seq(Nat) : a = Nla(t, p) /\ IsNla(a, t, p)
  <2>1. IsNla(Nla(t, p), t, p)
    BY NlaShape, Zenon
  <2>2. Nla(t, p) \in Seq(Nat)
    BY <2>1, Zenon DEF IsNla
  <2> QED BY <2>1, <2>2, Zenon
<1>2. PICK l \in Nat : l = 4 + Len(p)
  OBVIOUS
<1>3. /\ Len(a) = l + Pad(l) /\ a[1] + 256 * a[2] = l /\ a[3] = t
      /\ SubSeq(a \o b, 5, l) = p
  <2>1. /\ Len(a) = 4 + Len(p) + Pad(4 + Len(p)) /\ a[1] + 256 * a[2] = 4 + Len(p)
        /\ a[3] = t
    BY <1>1, Zenon DEF IsNla
  <2>2. SubSeq(a \o b, 5, 4 + Len(p)) = p
    BY <1>1, PayloadRead, Zenon
  <2> QED BY <1>2, <2>1, <2>2, Zenon
<1>4. Pad(l) \in Nat /\ Pad(l) = (4 - (l % 4)) % 4
  BY LengthBytes
<1> DEFINE c == a \o b
<1>5. /\ c \in Seq(Nat) /\ Len(c) = Len(a) + Len(b) /\ Len(a) \in Nat /\ Len(b) \in Nat
  OBVIOUS
<1>6. \A i \in 1..Len(a) : c[i] = a[i]
  OBVIOUS
<1> HIDE DEF c
<1>7. l >= 4 /\ l =< Len(c) /\ 4 =< Len(c) /\ 4 =< Len(a)
  <2>1. Len(p) \in Nat
    OBVIOUS
  <2>2. PICK z \in Nat : z = Pad(l)
    BY <1>4, Zenon
  <2>3. Len(a) = l + z
    BY <1>3, <2>2, Zenon
  <2> QED BY <1>2, <1>5, <2>1, <2>3
<1>8. c[1] = a[1] /\ c[2] = a[2] /\ c[3] = a[3]
  <2>1. 1 \in 1..Len(a) /\ 2 \in 1..Len(a) /\ 3 \in 1..Len(a)
    BY <1>5, <1>7
  <2> QED BY <1>6, <2>1, Zenon
<1>9. 0 \in Nat /\ 0 + 1 = 1 /\ 0 + 2 = 2 /\ 0 + 3 = 3 /\ 0 + 4 = 4 /\ 0 + 5 = 5 /\ 0 + l = l
  OBVIOUS
<1>10. LenAt(c, 0) = l
  <2>1. 0 + 1 = 1 /\ 0 + 2 = 2
    OBVIOUS
  <2>2. LenAt(c, 0) = c[1] + 256 * c[2]
    BY <2>1, Zenon DEF LenAt
  <2>3. c[1] = a[1] /\ c[2] = a[2]
    BY <1>8, Zenon
  <2>4. a[1] + 256 * a[2] = l
    BY <1>3, Zenon
  <2> QED BY <2>2, <2>3, <2>4, Zenon
<1>11. 0 \in Whole(c)
  <2>1. 0 + 4 =< Len(c) /\ LenAt(c, 0) >= 4 /\ 0 + LenAt(c, 0) =< Len(c)
    BY <1>7, <1>9, <1>10, Zenon
  <2> QED BY <1>9, <2>1, Zenon DEF Whole
<1>12. AttrAt(c, 0) = <<t, p>>
  <2>1. 0 + 3 = 3 /\ 0 + 5 = 5 /\ 0 + l = l
    OBVIOUS
  <2>2. AttrAt(c, 0) = <<c[3], SubSeq(c, 5, l)>>
    BY <1>10, <2>1, Zenon DEF AttrAt
  <2>3. c[3] = t
    BY <1>3, <1>8, Zenon
  <2>4. SubSeq(c, 5, l) = p
    BY <1>3, Zenon DEF c
  <2> QED BY <2>2, <2>3, <2>4, Zenon
<1>13. NextOff(c, 0) = Len(a) + 0
  <2>1. NextOff(c, 0) = 0 + l + Pad(l)
    BY <1>4, <1>10, Zenon DEF NextOff
  <2> QED BY <1>3, <1>4, <1>5, <2>1
<1>14. PICK g : WalkFn(c, g) /\ KernelAttrs(c) = g[0]
  BY <1>5, WalkExists, WalkUnfolded, Zenon
<1>15. PICK h : WalkFn(b, h) /\ KernelAttrs(b) = h[0]
  BY WalkExists, WalkUnfolded, Zenon
<1>16. g[0] = {<<t, p>>} \cup g[Len(a) + 0]
  BY <1>5, <1>9, <1>11, <1>12, <1>13, <1>14, WalkStep, Zenon
<1>17. g[Len(a) + 0] = h[0]
  <2>1. WalkFn(a \o b, g)
    BY <1>14, Zenon DEF c
  <2>2. \A x \in Nat : g[Len(a) + x] = h[x]
    BY <1>15, <2>1, WalkShift
  <2> QED BY <1>9, <2>2, Zenon
<1> QED BY <1>1, <1>14, <1>15, <1>16, <1>17, Zenon DEF c

-----------------------------------------------------------------------------
(* What a request carries.                                                 *)

\* The types in a set of attributes.
Types(K) == {a[1] : a \in K}

\* The types of attributes taken together.
LEMMA TypesOf ==
    /\ \A t, p : Types({<<t, p>>}) = {t}
    /\ \A K, L : Types(K \cup L) = Types(K) \cup Types(L)
    /\ \A K : \A c \in BOOLEAN : Types(IF c THEN K ELSE {}) = IF c THEN Types(K) ELSE {}
<1>1. ASSUME NEW t, NEW p PROVE Types({<<t, p>>}) = {t}
  <2>1. <<t, p>>[1] = t
    OBVIOUS
  <2> QED BY <2>1, Zenon DEF Types
<1>2. ASSUME NEW K, NEW L PROVE Types(K \cup L) = Types(K) \cup Types(L)
  BY Zenon DEF Types
<1>3. ASSUME NEW K, NEW c \in BOOLEAN
      PROVE  Types(IF c THEN K ELSE {}) = IF c THEN Types(K) ELSE {}
  BY Zenon DEF Types
<1> QED BY <1>1, <1>2, <1>3, Zenon

\* A piece of a message that holds the attributes of K, whatever follows it;
\* their types are T.
Holds(b, K, T) ==
    /\ b \in Seq(Nat) /\ Types(K) = T
    /\ \A r \in Seq(Nat) : KernelAttrs(b \o r) = K \cup KernelAttrs(r)

\* An attribute is such a piece.
LEMMA NlaHolds ==
    ASSUME NEW t \in Nat, NEW p \in Seq(Nat) PROVE Holds(Nla(t, p), {<<t, p>>}, {t})
BY NlaShape, WalkFindsNla, TypesOf, Zenon DEF Holds, IsNla

\* So is one that is left out,
LEMMA WhenHolds ==
    ASSUME NEW c \in BOOLEAN, NEW b, NEW K, NEW T, c => Holds(b, K, T)
    PROVE  Holds(When(c, b), IF c THEN K ELSE {}, IF c THEN T ELSE {})
<1>1. CASE c
  BY <1>1, Zenon DEF When
<1>2. CASE ~c
  <2>1. <<>> \in Seq(Nat) /\ \A r \in Seq(Nat) : <<>> \o r = r
    OBVIOUS
  <2>2. ASSUME NEW r \in Seq(Nat) PROVE KernelAttrs(<<>> \o r) = {} \cup KernelAttrs(r)
    <3>1. <<>> \o r = r
      BY <2>1, Zenon
    <3> QED BY <3>1
  <2>3. Holds(<<>>, {}, {})
    <3>1. Types({}) = {}
      BY DEF Types
    <3> QED BY <2>1, <2>2, <3>1, Zenon DEF Holds
  <2> QED BY <1>2, <2>3, Zenon DEF When
<1> QED BY <1>1, <1>2

\* and one piece after the other.
LEMMA CatHolds ==
    ASSUME NEW a, NEW b, NEW K, NEW L, NEW T, NEW U, Holds(a, K, T), Holds(b, L, U)
    PROVE  Holds(a \o b, K \cup L, T \cup U)
<1>1. PICK x \in Seq(Nat) : x = a
  BY Zenon DEF Holds
<1>2. PICK y \in Seq(Nat) : y = b
  BY Zenon DEF Holds
<1>3. x \o y \in Seq(Nat)
  OBVIOUS
<1>4. ASSUME NEW r \in Seq(Nat) PROVE KernelAttrs(x \o y \o r) = (K \cup L) \cup KernelAttrs(r)
  <2>1. x \o y \o r = x \o (y \o r)
    BY Assoc, Zenon DEF Regroups
  <2>2. y \o r \in Seq(Nat)
    OBVIOUS
  <2>3. KernelAttrs(x \o (y \o r)) = K \cup KernelAttrs(y \o r)
    BY <1>1, <2>2, Zenon DEF Holds
  <2>4. KernelAttrs(y \o r) = L \cup KernelAttrs(r)
    BY <1>2, Zenon DEF Holds
  <2>5. KernelAttrs(x \o y \o r) = K \cup (L \cup KernelAttrs(r))
    BY <2>1, <2>3, <2>4, Zenon
  <2>6. K \cup (L \cup KernelAttrs(r)) = (K \cup L) \cup KernelAttrs(r)
    OBVIOUS
  <2> QED BY <2>5, <2>6, Zenon
<1>5. Types(K \cup L) = T \cup U
  BY TypesOf, Zenon DEF Holds
<1> QED BY <1>1, <1>2, <1>3, <1>4, <1>5, Zenon DEF Holds

\* A message made of such pieces is understood.
LEMMA HeldFound ==
    ASSUME NEW b, NEW K, NEW T, Holds(b, K, T)
    PROVE  b \in Seq(Nat) /\ KernelAttrs(b) = K /\ Types(K) = T
<1>1. PICK x \in Seq(Nat) : x = b
  BY Zenon DEF Holds
<1>2. x \o <<>> = x /\ <<>> \in Seq(Nat)
  OBVIOUS
<1>3. KernelAttrs(x \o <<>>) = K \cup KernelAttrs(<<>>)
  BY <1>1, <1>2, Zenon DEF Holds
<1>4. KernelAttrs(x) = K \cup {}
  BY <1>2, <1>3, NoAttrs, Zenon
<1>5. K \cup {} = K
  OBVIOUS
<1> QED BY <1>1, <1>4, <1>5, Zenon DEF Holds

\* Attributes under their paths, and one level further down.
Level1(K) == {<<<<a[1]>>, a[2]>> : a \in K}
Down(level, nest) ==
    UNION {{<<Append(x[1], a[1]), a[2]>> : a \in KernelAttrs(x[2])} :
           x \in {y \in level : y[1] \in nest}}

\* Found takes three levels.
LEMMA FoundLevels ==
    ASSUME NEW b, NEW nest, NEW K, KernelAttrs(b) = K
    PROVE  Found(b, nest) = {x[1] : x \in Level1(K) \cup Down(Level1(K), nest)
                                          \cup Down(Down(Level1(K), nest), nest)}
BY Zenon DEF Found, Level1, Down

\* The container a request has is its only attribute of that type.
Only(K, n, p) == \A a \in K : a[1] = n => a[2] = p

\* A type at the end of a path of one
LEMMA AppendOne == ASSUME NEW n, NEW m PROVE Append(<<n>>, m) = <<n, m>>
<1>1. PICK S : n \in S /\ m \in S
  <2>1. n \in {n, m} /\ m \in {n, m}
    OBVIOUS
  <2> QED BY <2>1, Zenon
<1>2. PICK s \in Seq(S) : s = <<n>> /\ Len(s) = 1 /\ s[1] = n
  <2>1. <<n>> \in Seq(S) /\ Len(<<n>>) = 1 /\ <<n>>[1] = n
    BY <1>1
  <2> QED BY <2>1, Zenon
<1>3. Append(s, m) \in Seq(S)
  BY <1>1
<1>4. Len(Append(s, m)) = 2 /\ Append(s, m)[1] = n /\ Append(s, m)[2] = m
  BY <1>1, <1>2
<1>5. PICK t \in Seq(S) : t = Append(s, m) /\ Len(t) = 2 /\ t[1] = n /\ t[2] = m
  BY <1>3, <1>4, Zenon
<1>6. PICK u \in Seq(S) : u = <<n, m>> /\ Len(u) = 2 /\ u[1] = n /\ u[2] = m
  <2>1. <<n, m>> \in Seq(S) /\ Len(<<n, m>>) = 2 /\ <<n, m>>[1] = n /\ <<n, m>>[2] = m
    BY <1>1
  <2> QED BY <2>1, Zenon
<1>7. \A i \in 1..2 : t[i] = u[i]
  BY <1>5, <1>6
<1>8. t = u
  <2>1. \A i \in 1..Len(t) : t[i] = u[i]
    BY <1>5, <1>7, Zenon
  <2> QED BY <1>5, <1>6, <2>1, SeqEqual, Zenon
<1> QED BY <1>2, <1>5, <1>6, <1>8, Zenon

\* and of two.
LEMMA AppendTwo == ASSUME NEW n, NEW k, NEW m PROVE Append(<<n, k>>, m) = <<n, k, m>>
<1>1. PICK S : n \in S /\ k \in S /\ m \in S
  <2>1. n \in {n, k, m} /\ k \in {n, k, m} /\ m \in {n, k, m}
    OBVIOUS
  <2> QED BY <2>1, Zenon
<1>2. PICK s \in Seq(S) : s = <<n, k>> /\ Len(s) = 2 /\ s[1] = n /\ s[2] = k
  <2>1. <<n, k>> \in Seq(S) /\ Len(<<n, k>>) = 2 /\ <<n, k>>[1] = n /\ <<n, k>>[2] = k
    BY <1>1
  <2> QED BY <2>1, Zenon
<1>3. Append(s, m) \in Seq(S)
  BY <1>1
<1>4. Len(Append(s, m)) = 3 /\ Append(s, m)[1] = n /\ Append(s, m)[2] = k /\ Append(s, m)[3] = m
  BY <1>1, <1>2
<1>5. PICK t \in Seq(S) : t = Append(s, m) /\ Len(t) = 3 /\ t[1] = n /\ t[2] = k /\ t[3] = m
  BY <1>3, <1>4, Zenon
<1>6. PICK u \in Seq(S) : u = <<n, k, m>> /\ Len(u) = 3 /\ u[1] = n /\ u[2] = k /\ u[3] = m
  <2>1. <<n, k, m>> \in Seq(S) /\ Len(<<n, k, m>>) = 3 /\ <<n, k, m>>[1] = n /\ <<n, k, m>>[2] = k /\ <<n, k, m>>[3] = m
    BY <1>1
  <2> QED BY <2>1, Zenon
<1>7. \A i \in 1..3 : t[i] = u[i]
  BY <1>5, <1>6
<1>8. t = u
  <2>1. \A i \in 1..Len(t) : t[i] = u[i]
    BY <1>5, <1>7, Zenon
  <2> QED BY <1>5, <1>6, <2>1, SeqEqual, Zenon
<1> QED BY <1>2, <1>5, <1>6, <1>8, Zenon

\* x is one level below an attribute of the level,
Below(level, nest, x) ==
    \E y \in level : /\ y[1] \in nest
                     /\ \E a \in KernelAttrs(y[2]) : x = <<Append(y[1], a[1]), a[2]>>

\* the attributes of K under a path,
Under(path, K) == {<<Append(path, a[1]), a[2]>> : a \in K}

\* the level has a container, and its containers have this path and payload.
HasContainer(level, nest) == \E y \in level : y[1] \in nest
OneContainer(level, nest, path, p) == \A y \in level : y[1] \in nest => y[1] = path /\ y[2] = p

\* What is one level further down,
LEMMA DownMember ==
    ASSUME NEW level, NEW nest, NEW x
    PROVE  x \in Down(level, nest) <=> Below(level, nest, x)
BY DEF Down, Below

\* if the level has at most one container.
LEMMA DownOne ==
    ASSUME NEW level, NEW nest, NEW path, NEW p, NEW K, KernelAttrs(p) = K,
           OneContainer(level, nest, path, p)
    PROVE  Down(level, nest) = IF HasContainer(level, nest) THEN Under(path, K) ELSE {}
<1>1. ASSUME NEW x \in Down(level, nest)
      PROVE  HasContainer(level, nest) /\ x \in Under(path, K)
  <2>1. Below(level, nest, x)
    BY DownMember
  <2>2. PICK y \in level : /\ y[1] \in nest
                           /\ \E a \in KernelAttrs(y[2]) : x = <<Append(y[1], a[1]), a[2]>>
    BY <2>1, Zenon DEF Below
  <2>3. y[1] = path /\ y[2] = p
    BY <2>2, Zenon DEF OneContainer
  <2> QED BY <2>2, <2>3, Zenon DEF HasContainer, Under
<1>2. ASSUME HasContainer(level, nest), NEW x \in Under(path, K) PROVE x \in Down(level, nest)
  <2>1. PICK y \in level : y[1] \in nest
    BY <1>2, Zenon DEF HasContainer
  <2>2. PICK a \in K : x = <<Append(path, a[1]), a[2]>>
    BY Zenon DEF Under
  <2>3. y[1] = path /\ y[2] = p
    BY <2>1, Zenon DEF OneContainer
  <2>4. a \in KernelAttrs(y[2]) /\ x = <<Append(y[1], a[1]), a[2]>>
    BY <2>2, <2>3, Zenon
  <2>5. Below(level, nest, x)
    BY <2>1, <2>4, Zenon DEF Below
  <2> QED BY <2>5, DownMember
<1> QED BY <1>1, <1>2, Zenon

\* Paths of different lengths differ.
LEMMA Paths ==
    ASSUME NEW n, NEW m, NEW t
    PROVE  /\ <<t>> \in {<<n>>, <<n, m>>} <=> t = n
           /\ <<n, t>> \in {<<n>>, <<n, m>>} <=> t = m
OBVIOUS

\* The second level of a request with a container of type n,
LEMMA SecondLevel ==
    ASSUME NEW K, NEW n, NEW m, NEW p, NEW K2, Only(K, n, p), KernelAttrs(p) = K2
    PROVE  Down(Level1(K), {<<n>>, <<n, m>>}) =
             IF n \in Types(K) THEN {<<<<n, a[1]>>, a[2]>> : a \in K2} ELSE {}
<1>1. PICK nest : nest = {<<n>>, <<n, m>>}
  OBVIOUS
<1>2. ASSUME NEW a \in K PROVE <<a[1]>> \in nest <=> a[1] = n
  BY <1>1, Paths, Zenon
<1>3. ASSUME NEW y \in Level1(K), y[1] \in nest PROVE y[1] = <<n>> /\ y[2] = p /\ n \in Types(K)
  <2>1. PICK a \in K : y = <<<<a[1]>>, a[2]>>
    BY Zenon DEF Level1
  <2>2. y[1] = <<a[1]>> /\ y[2] = a[2]
    BY <2>1
  <2>3. a[1] = n
    BY <1>2, <1>3, <2>2, Zenon
  <2> QED BY <2>2, <2>3, Zenon DEF Only, Types
<1>4. ASSUME n \in Types(K) PROVE \E y \in Level1(K) : y[1] \in nest
  <2>1. PICK a \in K : a[1] = n
    BY <1>4, Zenon DEF Types
  <2>2. PICK y \in Level1(K) : y = <<<<a[1]>>, a[2]>>
    BY Zenon DEF Level1
  <2>3. y[1] = <<a[1]>>
    BY <2>2
  <2> QED BY <1>2, <2>1, <2>3, Zenon
<1>5. Down(Level1(K), nest) = IF HasContainer(Level1(K), nest) THEN Under(<<n>>, K2) ELSE {}
  <2>1. OneContainer(Level1(K), nest, <<n>>, p)
    BY <1>3, Zenon DEF OneContainer
  <2> QED BY <2>1, DownOne, Zenon
<1>6. Under(<<n>>, K2) = {<<<<n, a[1]>>, a[2]>> : a \in K2}
  BY AppendOne, Zenon DEF Under
<1> QED BY <1>1, <1>3, <1>4, <1>5, <1>6, Zenon DEF HasContainer

\* and the third, if that one holds a container of type m.
LEMMA ThirdLevel ==
    ASSUME NEW K, NEW n, NEW m, NEW p, NEW K2, Only(K, m, p), KernelAttrs(p) = K2
    PROVE  Down({<<<<n, a[1]>>, a[2]>> : a \in K}, {<<n>>, <<n, m>>}) =
             IF m \in Types(K) THEN {<<<<n, m, a[1]>>, a[2]>> : a \in K2} ELSE {}
<1>1. PICK nest : nest = {<<n>>, <<n, m>>}
  OBVIOUS
<1>2. ASSUME NEW a \in K PROVE <<n, a[1]>> \in nest <=> a[1] = m
  BY <1>1, Paths, Zenon
<1>3. PICK level : level = {<<<<n, a[1]>>, a[2]>> : a \in K}
  OBVIOUS
<1>4. ASSUME NEW y \in level, y[1] \in nest PROVE y[1] = <<n, m>> /\ y[2] = p /\ m \in Types(K)
  <2>1. PICK a \in K : y = <<<<n, a[1]>>, a[2]>>
    BY <1>3, Zenon
  <2>2. y[1] = <<n, a[1]>> /\ y[2] = a[2]
    BY <2>1
  <2>3. a[1] = m
    BY <1>2, <1>4, <2>2, Zenon
  <2> QED BY <2>2, <2>3, Zenon DEF Only, Types
<1>5. ASSUME m \in Types(K) PROVE \E y \in level : y[1] \in nest
  <2>1. PICK a \in K : a[1] = m
    BY <1>5, Zenon DEF Types
  <2>2. PICK y \in level : y = <<<<n, a[1]>>, a[2]>>
    BY <1>3, Zenon
  <2>3. y[1] = <<n, a[1]>>
    BY <2>2
  <2> QED BY <1>2, <2>1, <2>3, Zenon
<1>6. Down(level, nest) = IF HasContainer(level, nest) THEN Under(<<n, m>>, K2) ELSE {}
  <2>1. OneContainer(level, nest, <<n, m>>, p)
    BY <1>4, Zenon DEF OneContainer
  <2> QED BY <2>1, DownOne, Zenon
<1>7. Under(<<n, m>>, K2) = {<<<<n, m, a[1]>>, a[2]>> : a \in K2}
  BY AppendTwo, Zenon DEF Under
<1> QED BY <1>1, <1>3, <1>4, <1>5, <1>6, <1>7, Zenon DEF HasContainer

\* The paths the kernel finds in a request whose attributes are K1, those of
\* its container K2, and those of the container in there K3.
PathsOf(K1, n, K2, m, K3) ==
    {<<t>> : t \in Types(K1)}
      \cup (IF n \in Types(K1)
            THEN {<<n, t>> : t \in Types(K2)}
                   \cup (IF m \in Types(K2) THEN {<<n, m, t>> : t \in Types(K3)} ELSE {})
            ELSE {})

Firsts(S) == {x[1] : x \in S}

\* The paths of three levels together.
LEMMA FirstsOfThree ==
    ASSUME NEW S, NEW T, NEW U
    PROVE  Firsts(S \cup T \cup U) = Firsts(S) \cup (Firsts(T) \cup Firsts(U))
BY DEF Firsts

\* That is how b is nested.
Nested(b, K1, n, p, K2, m, q, K3) ==
    /\ KernelAttrs(b) = K1 /\ Only(K1, n, p)
    /\ KernelAttrs(p) = K2 /\ Only(K2, m, q)
    /\ KernelAttrs(q) = K3

\* So the types found are these.
LEMMA FoundPaths ==
    ASSUME NEW b, NEW K1, NEW n, NEW p, NEW K2, NEW m, NEW q, NEW K3,
           Nested(b, K1, n, p, K2, m, q, K3)
    PROVE  Found(b, {<<n>>, <<n, m>>}) = PathsOf(K1, n, K2, m, K3)
<1>1. PICK nest : nest = {<<n>>, <<n, m>>}
  OBVIOUS
<1> DEFINE L1 == Level1(K1)
           D2 == {<<<<n, a[1]>>, a[2]>> : a \in K2}
           D3 == {<<<<n, m, a[1]>>, a[2]>> : a \in K3}
<1>2. Found(b, nest) = Firsts(L1 \cup Down(L1, nest) \cup Down(Down(L1, nest), nest))
  BY FoundLevels, Zenon DEF Firsts, Nested
<1>3. Down(L1, nest) = IF n \in Types(K1) THEN D2 ELSE {}
  BY <1>1, SecondLevel, Zenon DEF Nested
<1>4. Down(D2, nest) = IF m \in Types(K2) THEN D3 ELSE {}
  BY <1>1, ThirdLevel, Zenon DEF Nested
<1>5. Down({}, nest) = {}
  BY Zenon DEF Down
<1>6. Firsts(L1) = {<<t>> : t \in Types(K1)}
  <2>1. ASSUME NEW a PROVE <<<<a[1]>>, a[2]>>[1] = <<a[1]>>
    OBVIOUS
  <2>2. ASSUME NEW x \in Firsts(L1) PROVE x \in {<<t>> : t \in Types(K1)}
    <3>1. PICK y \in L1 : x = y[1]
      BY Zenon DEF Firsts
    <3>2. PICK a \in K1 : y = <<<<a[1]>>, a[2]>>
      BY Zenon DEF Level1
    <3>3. x = <<a[1]>> /\ a[1] \in Types(K1)
      BY <2>1, <3>1, <3>2, Zenon DEF Types
    <3> QED BY <3>3, Zenon
  <2>3. ASSUME NEW t \in Types(K1) PROVE <<t>> \in Firsts(L1)
    <3>1. PICK a \in K1 : t = a[1]
      BY Zenon DEF Types
    <3>2. PICK y \in L1 : y = <<<<a[1]>>, a[2]>>
      BY Zenon DEF Level1
    <3>3. y[1] = <<t>>
      BY <2>1, <3>1, <3>2, Zenon
    <3> QED BY <3>3, Zenon DEF Firsts
  <2> QED BY <2>2, <2>3, Zenon
<1>7. Firsts(D2) = {<<n, t>> : t \in Types(K2)}
  <2>1. ASSUME NEW a PROVE <<<<n, a[1]>>, a[2]>>[1] = <<n, a[1]>>
    OBVIOUS
  <2>2. ASSUME NEW x \in Firsts(D2) PROVE x \in {<<n, t>> : t \in Types(K2)}
    <3>1. PICK y \in D2 : x = y[1]
      BY Zenon DEF Firsts
    <3>2. PICK a \in K2 : y = <<<<n, a[1]>>, a[2]>>
      BY Zenon
    <3>3. x = <<n, a[1]>> /\ a[1] \in Types(K2)
      BY <2>1, <3>1, <3>2, Zenon DEF Types
    <3> QED BY <3>3, Zenon
  <2>3. ASSUME NEW t \in Types(K2) PROVE <<n, t>> \in Firsts(D2)
    <3>1. PICK a \in K2 : t = a[1]
      BY Zenon DEF Types
    <3>2. PICK y \in D2 : y = <<<<n, a[1]>>, a[2]>>
      BY Zenon
    <3>3. y[1] = <<n, t>>
      BY <2>1, <3>1, <3>2, Zenon
    <3> QED BY <3>3, Zenon DEF Firsts
  <2> QED BY <2>2, <2>3, Zenon
<1>8. Firsts(D3) = {<<n, m, t>> : t \in Types(K3)}
  <2>1. ASSUME NEW a PROVE <<<<n, m, a[1]>>, a[2]>>[1] = <<n, m, a[1]>>
    OBVIOUS
  <2>2. ASSUME NEW x \in Firsts(D3) PROVE x \in {<<n, m, t>> : t \in Types(K3)}
    <3>1. PICK y \in D3 : x = y[1]
      BY Zenon DEF Firsts
    <3>2. PICK a \in K3 : y = <<<<n, m, a[1]>>, a[2]>>
      BY Zenon
    <3>3. x = <<n, m, a[1]>> /\ a[1] \in Types(K3)
      BY <2>1, <3>1, <3>2, Zenon DEF Types
    <3> QED BY <3>3, Zenon
  <2>3. ASSUME NEW t \in Types(K3) PROVE <<n, m, t>> \in Firsts(D3)
    <3>1. PICK a \in K3 : t = a[1]
      BY Zenon DEF Types
    <3>2. PICK y \in D3 : y = <<<<n, m, a[1]>>, a[2]>>
      BY Zenon
    <3>3. y[1] = <<n, m, t>>
      BY <2>1, <3>1, <3>2, Zenon
    <3> QED BY <3>3, Zenon DEF Firsts
  <2> QED BY <2>2, <2>3, Zenon
<1>10. Firsts({}) = {}
  BY DEF Firsts
<1> HIDE DEF L1, D2, D3
<1>11. CASE n \notin Types(K1)
  <2>1. Found(b, nest) = Firsts(L1) \cup ({} \cup {})
    <3>1. Found(b, nest) = Firsts(L1 \cup {} \cup {})
      BY <1>2, <1>3, <1>5, <1>11, Zenon
    <3> QED BY <1>10, <3>1, FirstsOfThree, Zenon
  <2>2. PathsOf(K1, n, K2, m, K3) = Firsts(L1) \cup {}
    BY <1>6, <1>11, Zenon DEF PathsOf
  <2> QED BY <1>1, <2>1, <2>2, Zenon
<1>12. CASE n \in Types(K1) /\ m \in Types(K2)
  <2>1. Found(b, nest) = Firsts(L1) \cup (Firsts(D2) \cup Firsts(D3))
    <3>1. Found(b, nest) = Firsts(L1 \cup D2 \cup D3)
      BY <1>2, <1>3, <1>4, <1>12, Zenon
    <3> QED BY <3>1, FirstsOfThree
  <2>2. PathsOf(K1, n, K2, m, K3) = Firsts(L1) \cup (Firsts(D2) \cup Firsts(D3))
    BY <1>6, <1>7, <1>8, <1>12, Zenon DEF PathsOf
  <2> QED BY <1>1, <2>1, <2>2, Zenon
<1>13. CASE n \in Types(K1) /\ m \notin Types(K2)
  <2>1. Found(b, nest) = Firsts(L1) \cup (Firsts(D2) \cup {})
    <3>1. Found(b, nest) = Firsts(L1 \cup D2 \cup {})
      BY <1>2, <1>3, <1>4, <1>13, Zenon
    <3> QED BY <1>10, <3>1, FirstsOfThree
  <2>2. PathsOf(K1, n, K2, m, K3) = Firsts(L1) \cup (Firsts(D2) \cup {})
    BY <1>6, <1>7, <1>13, Zenon DEF PathsOf
  <2> QED BY <1>1, <2>1, <2>2, Zenon
<1> QED BY <1>11, <1>12, <1>13

\* Where a container is the only attribute of its type.
LEMMA OnlyOf ==
    /\ \A t, p, n, q : (t = n => p = q) => Only({<<t, p>>}, n, q)
    /\ \A K, L, n, q : Only(K, n, q) /\ Only(L, n, q) => Only(K \cup L, n, q)
    /\ \A K, n, q : \A c \in BOOLEAN : Only(K, n, q) => Only(IF c THEN K ELSE {}, n, q)
<1>1. ASSUME NEW t, NEW p, NEW n, NEW q, t = n => p = q PROVE Only({<<t, p>>}, n, q)
  <2>1. <<t, p>>[1] = t /\ <<t, p>>[2] = p
    OBVIOUS
  <2> QED BY <1>1, <2>1, Zenon DEF Only
<1>2. ASSUME NEW K, NEW L, NEW n, NEW q, Only(K, n, q), Only(L, n, q) PROVE Only(K \cup L, n, q)
  BY <1>2, Zenon DEF Only
<1>3. ASSUME NEW K, NEW n, NEW q, NEW c \in BOOLEAN, Only(K, n, q)
      PROVE  Only(IF c THEN K ELSE {}, n, q)
  BY <1>3, Zenon DEF Only
<1> QED BY <1>1, <1>2, <1>3, Zenon

\* The simple attributes.
LEMMA SimpleHolds ==
    ASSUME NEW t \in Nat
    PROVE  /\ Holds(NlaU8(t), {<<t, Bytes(1)>>}, {t}) /\ Holds(NlaU16(t), {<<t, Bytes(2)>>}, {t})
           /\ Holds(NlaU32(t), {<<t, Bytes(4)>>}, {t})
<1>1. Bytes(1) \in Seq(Nat) /\ Bytes(2) \in Seq(Nat) /\ Bytes(4) \in Seq(Nat)
  BY BytesType
<1> QED BY <1>1, NlaHolds, Zenon DEF NlaU8, NlaU16, NlaU32

\* add_far: the kernel finds the attributes it was called for.
LEMMA FarUnderstood ==
    ASSUME NEW forw \in BOOLEAN, NEW given
    PROVE  Found(FarAttrs(forw, given), {<<5>>, <<5, 1>>}) = FarMeant(forw, given)
<1> DEFINE ohc == NlaU16(1) \o NlaU32(2) \o NlaU32(3) \o NlaU16(4)
           inner == Nla(1, ohc)
           c == forw /\ given = {"o_teid", "peer_ipv4"}
           K3 == {<<1, Bytes(2)>>} \cup {<<2, Bytes(4)>>} \cup {<<3, Bytes(4)>>}
                   \cup {<<4, Bytes(2)>>}
           K2 == {<<1, ohc>>}
           K1 == {<<1, Bytes(4)>>} \cup {<<3, Bytes(4)>>} \cup {<<4, Bytes(2)>>}
                   \cup (IF c THEN {<<5, inner>>} ELSE {})
           T3 == {1} \cup {2} \cup {3} \cup {4}
           T1 == {1} \cup {3} \cup {4} \cup (IF c THEN {5} ELSE {})
<1>1. 1 \in Nat /\ 2 \in Nat /\ 3 \in Nat /\ 4 \in Nat /\ 5 \in Nat /\ c \in BOOLEAN
  OBVIOUS
<1>2. FarAttrs(forw, given) = NlaU32(1) \o NlaU32(3) \o NlaU16(4) \o When(c, Nla(5, inner))
  BY Zenon DEF FarAttrs
<1> HIDE DEF c
<1>3. Holds(ohc, K3, T3)
  <2>1. Holds(NlaU16(1) \o NlaU32(2), {<<1, Bytes(2)>>} \cup {<<2, Bytes(4)>>},
              {1} \cup {2})
    BY <1>1, SimpleHolds, CatHolds, Zenon
  <2>2. Holds(NlaU16(1) \o NlaU32(2) \o NlaU32(3),
              {<<1, Bytes(2)>>} \cup {<<2, Bytes(4)>>} \cup {<<3, Bytes(4)>>},
              {1} \cup {2} \cup {3})
    BY <1>1, <2>1, SimpleHolds, CatHolds, Zenon
  <2> QED BY <1>1, <2>2, SimpleHolds, CatHolds, Zenon
<1>4. ohc \in Seq(Nat) /\ KernelAttrs(ohc) = K3 /\ Types(K3) = T3
  BY <1>3, HeldFound, Zenon
<1> HIDE DEF ohc
<1>5. Holds(inner, K2, {1})
  BY <1>1, <1>4, NlaHolds, Zenon
<1>6. inner \in Seq(Nat) /\ KernelAttrs(inner) = K2 /\ Types(K2) = {1}
  BY <1>5, HeldFound, Zenon
<1> HIDE DEF inner
<1>7. Holds(FarAttrs(forw, given), K1, T1)
  <2>1. Holds(NlaU32(1) \o NlaU32(3), {<<1, Bytes(4)>>} \cup {<<3, Bytes(4)>>},
              {1} \cup {3})
    BY <1>1, SimpleHolds, CatHolds, Zenon
  <2>2. Holds(NlaU32(1) \o NlaU32(3) \o NlaU16(4),
              {<<1, Bytes(4)>>} \cup {<<3, Bytes(4)>>} \cup {<<4, Bytes(2)>>},
              {1} \cup {3} \cup {4})
    BY <1>1, <2>1, SimpleHolds, CatHolds, Zenon
  <2>3. Holds(When(c, Nla(5, inner)), IF c THEN {<<5, inner>>} ELSE {}, IF c THEN {5} ELSE {})
    BY <1>1, <1>6, NlaHolds, WhenHolds, Zenon
  <2>4. Holds(NlaU32(1) \o NlaU32(3) \o NlaU16(4) \o When(c, Nla(5, inner)), K1, T1)
    BY <2>2, <2>3, CatHolds, Zenon
  <2> QED BY <1>2, <2>4, Zenon
<1>8. KernelAttrs(FarAttrs(forw, given)) = K1 /\ Types(K1) = T1
  <2> HIDE DEF K1, T1
  <2> QED BY <1>7, HeldFound, Zenon
<1>9. Only(K1, 5, inner)
  <2>1. ~(1 = 5) /\ ~(3 = 5) /\ ~(4 = 5)
    OBVIOUS
  <2> QED BY <1>1, <2>1, OnlyOf, Zenon
<1>10. Only(K2, 1, ohc)
  BY OnlyOf, Zenon
<1>11. Found(FarAttrs(forw, given), {<<5>>, <<5, 1>>}) = PathsOf(K1, 5, K2, 1, K3)
  <2> HIDE DEF K1, K2, K3
  <2>1. Nested(FarAttrs(forw, given), K1, 5, inner, K2, 1, ohc, K3)
    BY <1>4, <1>6, <1>8, <1>9, <1>10, Zenon DEF Nested
  <2> QED BY <2>1, FoundPaths
<1> HIDE DEF K1, K2, K3
<1>12. PathsOf(K1, 5, K2, 1, K3) =
         {<<1>>, <<3>>, <<4>>} \cup
         (IF c THEN {<<5>>, <<5, 1>>} \cup {<<5, 1, a>> : a \in 1..4} ELSE {})
  BY <1>1, <1>4, <1>6, <1>8 DEF PathsOf
<1> QED BY <1>11, <1>12, Zenon DEF FarMeant, c

\* create_gtp5g_link: the kernel finds what it needs.
LEMMA LinkUnderstood == Found(LinkAttrs, {<<18>>, <<18, 2>>}) = LinkMeant
<1> DEFINE data == NlaU32(1) \o NlaU32(2)
           info == Nla(1, Bytes(6)) \o Nla(2, data)
           K3 == {<<1, Bytes(4)>>} \cup {<<2, Bytes(4)>>}
           K2 == {<<1, Bytes(6)>>} \cup {<<2, data>>}
           K1 == {<<3, Bytes(11)>>} \cup {<<18, info>>}
<1>1. /\ 1 \in Nat /\ 2 \in Nat /\ 3 \in Nat /\ 18 \in Nat
      /\ Bytes(6) \in Seq(Nat) /\ Bytes(11) \in Seq(Nat)
  BY BytesType
<1>2. LinkAttrs = Nla(3, Bytes(11)) \o Nla(18, info)
  BY Zenon DEF LinkAttrs
<1>3. Holds(data, K3, {1} \cup {2})
  BY <1>1, SimpleHolds, CatHolds, Zenon
<1>4. data \in Seq(Nat) /\ KernelAttrs(data) = K3 /\ Types(K3) = {1} \cup {2}
  BY <1>3, HeldFound, Zenon
<1> HIDE DEF data
<1>5. Holds(info, K2, {1} \cup {2})
  BY <1>1, <1>4, NlaHolds, CatHolds, Zenon
<1>6. info \in Seq(Nat) /\ KernelAttrs(info) = K2 /\ Types(K2) = {1} \cup {2}
  BY <1>5, HeldFound, Zenon
<1> HIDE DEF info
<1>7. Holds(LinkAttrs, K1, {3} \cup {18})
  BY <1>1, <1>2, <1>6, NlaHolds, CatHolds, Zenon
<1>8. KernelAttrs(LinkAttrs) = K1 /\ Types(K1) = {3} \cup {18}
  BY <1>7, HeldFound, Zenon
<1>9. Only(K1, 18, info) /\ Only(K2, 2, data)
  <2>1. ~(3 = 18) /\ ~(1 = 2)
    OBVIOUS
  <2> QED BY <2>1, OnlyOf, Zenon
<1> HIDE DEF K1, K2, K3
<1>10. Found(LinkAttrs, {<<18>>, <<18, 2>>}) = PathsOf(K1, 18, K2, 2, K3)
  <2>1. Nested(LinkAttrs, K1, 18, info, K2, 2, data, K3)
    BY <1>4, <1>6, <1>8, <1>9, Zenon DEF Nested
  <2> QED BY <2>1, FoundPaths
<1>11. PathsOf(K1, 18, K2, 2, K3) = LinkMeant
  BY <1>4, <1>6, <1>8 DEF PathsOf, LinkMeant
<1> QED BY <1>10, <1>11, Zenon

\* The paths an option stands for.
LEMMA ToSetOf ==
    ASSUME NEW x, NEW y PROVE ToSet(<<x>>) = {x} /\ ToSet(<<x, y>>) = {x, y}
BY DEF ToSet

\* The same for three.
LEMMA ToSetOfThree == ASSUME NEW x, NEW y, NEW z PROVE ToSet(<<x, y, z>>) = {x, y, z}
BY DEF ToSet

\* add_pdr: the kernel finds the attributes of the options given, and the
\* containers only where they are not empty.
LEMMA PdrUnderstood ==
    ASSUME NEW given
    PROVE  Found(PdrAttrs(given), {<<5>>, <<5, 2>>}) = PdrMeant(given)
<1> DEFINE ci == "i_teid" \in given
           cg == "gtpu_addr_ipv4" \in given
           cu == "ue_addr_ipv4" \in given
           cs == "src_intf" \in given
           co == "outer_header_removal" \in given
           cf == given \cap {"i_teid", "gtpu_addr_ipv4"} # {}
           fteid == When(ci, NlaU32(1)) \o When(cg, NlaU32(2))
           pdi == When(cu, NlaU32(1)) \o When(cf, Nla(2, fteid)) \o When(cs, NlaU8(4))
           cp == pdi # <<>>
           K3 == (IF ci THEN {<<1, Bytes(4)>>} ELSE {}) \cup (IF cg THEN {<<2, Bytes(4)>>} ELSE {})
           T3 == (IF ci THEN {1} ELSE {}) \cup (IF cg THEN {2} ELSE {})
           K2 == (IF cu THEN {<<1, Bytes(4)>>} ELSE {}) \cup (IF cf THEN {<<2, fteid>>} ELSE {})
                   \cup (IF cs THEN {<<4, Bytes(1)>>} ELSE {})
           T2 == (IF cu THEN {1} ELSE {}) \cup (IF cf THEN {2} ELSE {})
                   \cup (IF cs THEN {4} ELSE {})
           K1 == {<<1, Bytes(4)>>} \cup {<<3, Bytes(2)>>} \cup {<<4, Bytes(4)>>}
                   \cup (IF co THEN {<<6, Bytes(1)>>} ELSE {})
                   \cup (IF cp THEN {<<5, pdi>>} ELSE {}) \cup {<<7, Bytes(4)>>}
           T1 == {1} \cup {3} \cup {4} \cup (IF co THEN {6} ELSE {})
                   \cup (IF cp THEN {5} ELSE {}) \cup {7}
<1>1. 1 \in Nat /\ 2 \in Nat /\ 3 \in Nat /\ 4 \in Nat /\ 5 \in Nat /\ 6 \in Nat /\ 7 \in Nat
  OBVIOUS
<1>2. /\ ci \in BOOLEAN /\ cg \in BOOLEAN /\ cu \in BOOLEAN /\ cs \in BOOLEAN /\ co \in BOOLEAN
      /\ cf \in BOOLEAN /\ cp \in BOOLEAN
  OBVIOUS
<1>3. PdrAttrs(given) = NlaU32(1) \o NlaU16(3) \o NlaU32(4) \o When(co, NlaU8(6))
                          \o When(cp, Nla(5, pdi)) \o NlaU32(7)
  BY Zenon DEF PdrAttrs
<1>4. cf <=> ci \/ cg
  OBVIOUS
<1>5. PdrMeant(given) =
         {<<1>>, <<3>>, <<4>>, <<7>>} \cup (IF co THEN {<<6>>} ELSE {})
         \cup (IF cu THEN {<<5>>, <<5, 1>>} ELSE {})
         \cup (IF ci THEN {<<5>>, <<5, 2>>, <<5, 2, 1>>} ELSE {})
         \cup (IF cg THEN {<<5>>, <<5, 2>>, <<5, 2, 2>>} ELSE {})
         \cup (IF cs THEN {<<5>>, <<5, 4>>} ELSE {})
  <2>1. ToSet(<<<<6>>>>) = {<<6>>}
    BY ToSetOf, Zenon
  <2>2. ToSet(<<<<5>>, <<5, 1>>>>) = {<<5>>, <<5, 1>>}
    BY ToSetOf, Zenon
  <2>3. ToSet(<<<<5>>, <<5, 2>>, <<5, 2, 1>>>>) = {<<5>>, <<5, 2>>, <<5, 2, 1>>}
    BY ToSetOfThree, Zenon
  <2>4. ToSet(<<<<5>>, <<5, 2>>, <<5, 2, 2>>>>) = {<<5>>, <<5, 2>>, <<5, 2, 2>>}
    BY ToSetOfThree, Zenon
  <2>5. ToSet(<<<<5>>, <<5, 4>>>>) = {<<5>>, <<5, 4>>}
    BY ToSetOf, Zenon
  <2> QED BY <2>1, <2>2, <2>3, <2>4, <2>5, Zenon DEF PdrMeant
<1> HIDE DEF ci, cg, cu, cs, co, cf
<1>6. Holds(fteid, K3, T3)
  <2>1. Holds(When(ci, NlaU32(1)), IF ci THEN {<<1, Bytes(4)>>} ELSE {}, IF ci THEN {1} ELSE {})
    BY <1>1, <1>2, SimpleHolds, WhenHolds, Zenon
  <2>2. Holds(When(cg, NlaU32(2)), IF cg THEN {<<2, Bytes(4)>>} ELSE {}, IF cg THEN {2} ELSE {})
    BY <1>1, <1>2, SimpleHolds, WhenHolds, Zenon
  <2> QED BY <2>1, <2>2, CatHolds, Zenon
<1> HIDE DEF K3, T3
<1>7. fteid \in Seq(Nat) /\ KernelAttrs(fteid) = K3 /\ Types(K3) = T3
  BY <1>6, HeldFound, Zenon
<1> HIDE DEF fteid
<1>8. Holds(pdi, K2, T2)
  <2>1. Holds(When(cu, NlaU32(1)), IF cu THEN {<<1, Bytes(4)>>} ELSE {}, IF cu THEN {1} ELSE {})
    BY <1>1, <1>2, SimpleHolds, WhenHolds, Zenon
  <2>2. Holds(When(cf, Nla(2, fteid)), IF cf THEN {<<2, fteid>>} ELSE {}, IF cf THEN {2} ELSE {})
    BY <1>1, <1>2, <1>7, NlaHolds, WhenHolds, Zenon
  <2>3. Holds(When(cs, NlaU8(4)), IF cs THEN {<<4, Bytes(1)>>} ELSE {}, IF cs THEN {4} ELSE {})
    BY <1>1, <1>2, SimpleHolds, WhenHolds, Zenon
  <2>4. Holds(When(cu, NlaU32(1)) \o When(cf, Nla(2, fteid)),
              (IF cu THEN {<<1, Bytes(4)>>} ELSE {}) \cup (IF cf THEN {<<2, fteid>>} ELSE {}),
              (IF cu THEN {1} ELSE {}) \cup (IF cf THEN {2} ELSE {}))
    BY <2>1, <2>2, CatHolds, Zenon
  <2> QED BY <2>3, <2>4, CatHolds, Zenon
<1>9. cp <=> cu \/ cf \/ cs
  <2>1. ASSUME ~cu, ~cf, ~cs PROVE pdi = <<>>
    <3>1. <<>> \o <<>> = <<>>
      OBVIOUS
    <3> QED BY <2>1, <3>1, Zenon DEF When
  <2>2. ASSUME pdi = <<>> PROVE T2 = {}
    <3> HIDE DEF K2, T2, pdi
    <3>1. KernelAttrs(pdi) = K2 /\ Types(K2) = T2
      BY <1>8, HeldFound, Zenon
    <3>2. K2 = {}
      BY <2>2, <3>1, NoAttrs, Zenon
    <3> QED BY <3>1, <3>2, Zenon DEF Types
  <2>3. T2 = {} => ~cu /\ ~cf /\ ~cs
    OBVIOUS
  <2> HIDE DEF T2
  <2> QED BY <2>1, <2>2, <2>3, Zenon
<1>10. pdi \in Seq(Nat) /\ KernelAttrs(pdi) = K2 /\ Types(K2) = T2
  <2> HIDE DEF K2, T2, pdi
  <2> QED BY <1>8, HeldFound, Zenon
<1> HIDE DEF cp, pdi
<1>11. Only(K2, 2, fteid)
  <2>1. ~(1 = 2) /\ ~(4 = 2)
    OBVIOUS
  <2>2. Only(IF cu THEN {<<1, Bytes(4)>>} ELSE {}, 2, fteid)
    BY <1>2, <2>1, OnlyOf, Zenon
  <2>3. Only(IF cf THEN {<<2, fteid>>} ELSE {}, 2, fteid)
    BY <1>2, OnlyOf, Zenon
  <2>4. Only(IF cs THEN {<<4, Bytes(1)>>} ELSE {}, 2, fteid)
    BY <1>2, <2>1, OnlyOf, Zenon
  <2>5. Only((IF cu THEN {<<1, Bytes(4)>>} ELSE {}) \cup (IF cf THEN {<<2, fteid>>} ELSE {}),
             2, fteid)
    BY <2>2, <2>3, OnlyOf, Zenon
  <2> QED BY <2>4, <2>5, OnlyOf, Zenon
<1>12. Only(K1, 5, pdi)
  <2>1. ~(1 = 5) /\ ~(3 = 5) /\ ~(4 = 5) /\ ~(6 = 5) /\ ~(7 = 5)
    OBVIOUS
  <2>2. Only({<<1, Bytes(4)>>} \cup {<<3, Bytes(2)>>} \cup {<<4, Bytes(4)>>}, 5, pdi)
    BY <2>1, OnlyOf, Zenon
  <2>3. Only(IF co THEN {<<6, Bytes(1)>>} ELSE {}, 5, pdi)
    BY <1>2, <2>1, OnlyOf, Zenon
  <2>4. Only(IF cp THEN {<<5, pdi>>} ELSE {}, 5, pdi)
    BY <1>2, OnlyOf, Zenon
  <2>5. Only({<<7, Bytes(4)>>}, 5, pdi)
    BY <2>1, OnlyOf, Zenon
  <2>6. Only({<<1, Bytes(4)>>} \cup {<<3, Bytes(2)>>} \cup {<<4, Bytes(4)>>}
               \cup (IF co THEN {<<6, Bytes(1)>>} ELSE {}), 5, pdi)
    BY <2>2, <2>3, OnlyOf, Zenon
  <2>7. Only({<<1, Bytes(4)>>} \cup {<<3, Bytes(2)>>} \cup {<<4, Bytes(4)>>}
               \cup (IF co THEN {<<6, Bytes(1)>>} ELSE {})
               \cup (IF cp THEN {<<5, pdi>>} ELSE {}), 5, pdi)
    BY <2>4, <2>6, OnlyOf, Zenon
  <2> QED BY <2>5, <2>7, OnlyOf, Zenon
<1>13. Holds(PdrAttrs(given), K1, T1)
  <2>1. Holds(NlaU32(1) \o NlaU16(3), {<<1, Bytes(4)>>} \cup {<<3, Bytes(2)>>}, {1} \cup {3})
    BY <1>1, SimpleHolds, CatHolds, Zenon
  <2>2. Holds(NlaU32(1) \o NlaU16(3) \o NlaU32(4),
              {<<1, Bytes(4)>>} \cup {<<3, Bytes(2)>>} \cup {<<4, Bytes(4)>>},
              {1} \cup {3} \cup {4})
    BY <1>1, <2>1, SimpleHolds, CatHolds, Zenon
  <2>3. Holds(When(co, NlaU8(6)), IF co THEN {<<6, Bytes(1)>>} ELSE {}, IF co THEN {6} ELSE {})
    BY <1>1, <1>2, SimpleHolds, WhenHolds, Zenon
  <2>4. Holds(NlaU32(1) \o NlaU16(3) \o NlaU32(4) \o When(co, NlaU8(6)),
              {<<1, Bytes(4)>>} \cup {<<3, Bytes(2)>>} \cup {<<4, Bytes(4)>>}
                \cup (IF co THEN {<<6, Bytes(1)>>} ELSE {}),
              {1} \cup {3} \cup {4} \cup (IF co THEN {6} ELSE {}))
    BY <2>2, <2>3, CatHolds, Zenon
  <2>5. Holds(When(cp, Nla(5, pdi)), IF cp THEN {<<5, pdi>>} ELSE {}, IF cp THEN {5} ELSE {})
    BY <1>1, <1>2, <1>10, NlaHolds, WhenHolds, Zenon
  <2>6. Holds(NlaU32(1) \o NlaU16(3) \o NlaU32(4) \o When(co, NlaU8(6)) \o When(cp, Nla(5, pdi)),
              {<<1, Bytes(4)>>} \cup {<<3, Bytes(2)>>} \cup {<<4, Bytes(4)>>}
                \cup (IF co THEN {<<6, Bytes(1)>>} ELSE {}) \cup (IF cp THEN {<<5, pdi>>} ELSE {}),
              {1} \cup {3} \cup {4} \cup (IF co THEN {6} ELSE {}) \cup (IF cp THEN {5} ELSE {}))
    BY <2>4, <2>5, CatHolds, Zenon
  <2>7. Holds(NlaU32(7), {<<7, Bytes(4)>>}, {7})
    BY <1>1, SimpleHolds, Zenon
  <2>8. Holds(NlaU32(1) \o NlaU16(3) \o NlaU32(4) \o When(co, NlaU8(6))
                \o When(cp, Nla(5, pdi)) \o NlaU32(7), K1, T1)
    BY <2>6, <2>7, CatHolds, Zenon
  <2> HIDE DEF K1, T1
  <2> QED BY <1>3, <2>8, Zenon
<1>14. KernelAttrs(PdrAttrs(given)) = K1 /\ Types(K1) = T1
  <2> HIDE DEF K1, T1
  <2> QED BY <1>13, HeldFound, Zenon
<1> HIDE DEF K1, K2, K3
<1>15. Found(PdrAttrs(given), {<<5>>, <<5, 2>>}) = PathsOf(K1, 5, K2, 2, K3)
  <2>1. Nested(PdrAttrs(given), K1, 5, pdi, K2, 2, fteid, K3)
    BY <1>7, <1>10, <1>11, <1>12, <1>14, Zenon DEF Nested
  <2> QED BY <2>1, FoundPaths
<1>16. PathsOf(K1, 5, K2, 2, K3) = PdrMeant(given)
  <2>1. PathsOf(K1, 5, K2, 2, K3) =
          {<<t>> : t \in T1} \cup (IF cp THEN {<<5, t>> : t \in T2}
             \cup (IF cf THEN {<<5, 2, t>> : t \in T3} ELSE {}) ELSE {})
    <3>1. (5 \in T1 <=> cp) /\ (2 \in T2 <=> cf)
      OBVIOUS
    <3> HIDE DEF T1, T2, T3
    <3> QED BY <1>7, <1>10, <1>14, <3>1, Zenon DEF PathsOf
  <2>2. {<<t>> : t \in T1} = {<<1>>, <<3>>, <<4>>, <<7>>} \cup (IF co THEN {<<6>>} ELSE {})
                               \cup (IF cp THEN {<<5>>} ELSE {})
    OBVIOUS
  <2>3. {<<5, t>> : t \in T2} = (IF cu THEN {<<5, 1>>} ELSE {}) \cup (IF cf THEN {<<5, 2>>} ELSE {})
                                 \cup (IF cs THEN {<<5, 4>>} ELSE {})
    OBVIOUS
  <2>4. {<<5, 2, t>> : t \in T3} = (IF ci THEN {<<5, 2, 1>>} ELSE {})
                                    \cup (IF cg THEN {<<5, 2, 2>>} ELSE {})
    BY DEF T3
  <2> HIDE DEF T1, T2, T3
  <2> QED BY <1>4, <1>5, <1>9, <2>1, <2>2, <2>3, <2>4
<1> QED BY <1>15, <1>16, Zenon

-----------------------------------------------------------------------------
(* The loop of resolve_family.                                             *)

\* Where the loop finds the header of an attribute, and the id it returns if
\* the attributes after this one give rest.
HeaderAt(b) == {o \in Nat : o + 4 =< Len(b) /\ LenAt(b, o) >= 4}
IdAt(b, o, rest) ==
    IF b[o + 3] = CTRL_ATTR_FAMILY_ID /\ rest = NONE THEN b[o + 5] ELSE rest

\* The function the loop defines.
LoopFn(b, g) ==
    g = [off \in Nat |->
          IF off >= Len(b) THEN NONE
          ELSE IF off + 4 > Len(b) \/ LenAt(b, off) < 4 THEN NONE
          ELSE IF b[off + 3] = CTRL_ATTR_FAMILY_ID
                  /\ g[NextAttr(off, LenAt(b, off))] = NONE THEN b[off + 5]
          ELSE g[NextAttr(off, LenAt(b, off))]]

\* What the loop computes, by definition.
LEMMA LoopUnfolded == ASSUME NEW b PROVE FamilyIn(b) = (CHOOSE g : LoopFn(b, g))[0]
BY Zenon DEF FamilyIn, LoopFn, LenAt

\* One iteration.
LEMMA LoopStep ==
    ASSUME NEW b \in Seq(Nat), NEW g, LoopFn(b, g), NEW o \in Nat
    PROVE  /\ o \in HeaderAt(b) => g[o] = IdAt(b, o, g[NextOff(b, o)])
           /\ o = Len(b) => g[o] = NONE
<1>1. g[o] = IF o >= Len(b) THEN NONE
             ELSE IF o + 4 > Len(b) \/ LenAt(b, o) < 4 THEN NONE
             ELSE IF b[o + 3] = CTRL_ATTR_FAMILY_ID
                     /\ g[NextAttr(o, LenAt(b, o))] = NONE THEN b[o + 5]
             ELSE g[NextAttr(o, LenAt(b, o))]
  BY Zenon DEF LoopFn
<1>2. Len(b) \in Nat
  OBVIOUS
<1>3. ASSUME o \in HeaderAt(b) PROVE g[o] = IdAt(b, o, g[NextOff(b, o)])
  <2>1. o + 4 =< Len(b) /\ LenAt(b, o) >= 4
    BY <1>3 DEF HeaderAt
  <2>2. LenAt(b, o) \in Nat /\ NextOff(b, o) = o + LenAt(b, o) + Pad(LenAt(b, o))
    BY <2>1, OffsetTypes
  <2>3. ~(o >= Len(b)) /\ ~(o + 4 > Len(b) \/ LenAt(b, o) < 4)
    BY <1>2, <2>1, <2>2
  <2>4. NextAttr(o, LenAt(b, o)) = NextOff(b, o)
    BY <2>2, Zenon DEF NextAttr
  <2> QED BY <1>1, <2>3, <2>4, Zenon DEF IdAt
<1>4. ASSUME o = Len(b) PROVE g[o] = NONE
  <2>1. o >= Len(b)
    BY <1>2, <1>4
  <2> QED BY <1>1, <2>1, Zenon
<1> QED BY <1>3, <1>4

\* The loop ends on every buffer, so that there is such a function.
LEMMA LoopExists ==
    ASSUME NEW b \in Seq(Nat) PROVE LoopFn(b, CHOOSE g : LoopFn(b, g))
<1> DEFINE V == {b[o + 5] : o \in Nat} \cup {NONE}
           more == HeaderAt(b)
           nxt == [o \in more |-> NextOff(b, o)]
           F == [x \in more \X V |-> IdAt(b, x[1], x[2])]
<1>1. Len(b) \in Nat /\ more \in SUBSET Nat /\ NONE \in V
  BY DEF HeaderAt
<1>2. ASSUME NEW o \in more PROVE o \in Nat /\ o + 4 =< Len(b) /\ LenAt(b, o) >= 4
  BY DEF HeaderAt
<1> HIDE DEF more
<1>3. ASSUME NEW o \in more PROVE o < Len(b) /\ NextOff(b, o) \in Nat /\ NextOff(b, o) > o
  <2>1. NextOff(b, o) \in Nat /\ NextOff(b, o) > o
    BY <1>2, OffsetTypes
  <2> QED BY <1>1, <1>2, <2>1
<1>4. nxt \in [more -> Nat] /\ Forward(Len(b), more, nxt)
  BY <1>3 DEF Forward
<1>5. F \in [more \X V -> V]
  <2>1. ASSUME NEW o \in more, NEW v \in V PROVE IdAt(b, o, v) \in V
    BY <1>2, Zenon DEF IdAt
  <2> HIDE DEF V
  <2> QED BY <2>1
<1>6. PICK g \in [Nat -> V] : Follows(g, NONE, more, nxt, F)
  <2> HIDE DEF V, nxt, F
  <2> QED BY <1>1, <1>4, <1>5, Recursion
<1>7. ASSUME NEW o \in Nat
      PROVE  g[o] = IF o \in more THEN IdAt(b, o, g[NextOff(b, o)]) ELSE NONE
  <2>1. CASE o \in more
    <3>1. nxt[o] = NextOff(b, o) /\ NextOff(b, o) \in Nat
      BY <1>3, <2>1
    <3>2. g[nxt[o]] \in V
      <4> HIDE DEF V, nxt
      <4> QED BY <3>1
    <3>3. F[<<o, g[nxt[o]]>>] = IdAt(b, o, g[nxt[o]])
      <4> HIDE DEF V, nxt
      <4> QED BY <2>1, <3>2
    <3> HIDE DEF F, nxt, V
    <3> QED BY <1>6, <2>1, <3>1, <3>3, Zenon DEF Follows
  <2>2. CASE o \notin more
    <3> HIDE DEF F, nxt, V
    <3> QED BY <1>6, <2>2 DEF Follows
  <2> QED BY <2>1, <2>2
<1> HIDE DEF V, nxt, F
<1>8. ASSUME NEW o \in Nat
      PROVE  g[o] = IF o >= Len(b) THEN NONE
                    ELSE IF o + 4 > Len(b) \/ LenAt(b, o) < 4 THEN NONE
                    ELSE IF b[o + 3] = CTRL_ATTR_FAMILY_ID
                            /\ g[NextAttr(o, LenAt(b, o))] = NONE THEN b[o + 5]
                    ELSE g[NextAttr(o, LenAt(b, o))]
  <2>1. CASE o \in more
    <3>1. /\ o + 4 =< Len(b) /\ LenAt(b, o) \in Nat /\ LenAt(b, o) >= 4
          /\ NextOff(b, o) = o + LenAt(b, o) + Pad(LenAt(b, o))
      BY <1>2, <2>1, OffsetTypes
    <3>2. ~(o >= Len(b)) /\ ~(o + 4 > Len(b) \/ LenAt(b, o) < 4)
      BY <1>1, <3>1
    <3>3. NextAttr(o, LenAt(b, o)) = NextOff(b, o)
      BY <3>1, Zenon DEF NextAttr
    <3> QED BY <1>7, <2>1, <3>2, <3>3, Zenon DEF IdAt
  <2>2. CASE o \notin more
    <3>1. SUFFICES ASSUME ~(o + 4 > Len(b)) PROVE LenAt(b, o) < 4
      BY <1>7, <2>2
    <3>2. o + 4 =< Len(b)
      BY <1>1, <3>1
    <3>3. LenAt(b, o) \in Nat
      BY <3>2, OffsetTypes
    <3> QED BY <1>1, <2>2, <3>2, <3>3 DEF more, HeaderAt
  <2> QED BY <2>1, <2>2
<1>9. LoopFn(b, g)
  BY <1>8, Zenon DEF LoopFn
<1> QED BY <1>9, Zenon

\* What an attribute contributes to the id.
IdOf(t, p, rest) == IF t = CTRL_ATTR_FAMILY_ID /\ rest = NONE THEN p[1] ELSE rest

\* A reply with an attribute between two parts.
Between(r, a, t, p, b) ==
    /\ a \in Seq(Nat) /\ t \in Nat /\ p \in Seq(Nat) /\ Len(p) >= 1 /\ b \in Seq(Nat)
    /\ r = a \o (Nla(t, p) \o b)

\* The loop reads an attribute that nla() has written.
LEMMA LoopReadsNla ==
    ASSUME NEW r, NEW a, NEW t, NEW p, NEW b, NEW g, Between(r, a, t, p, b), LoopFn(r, g)
    PROVE  g[Len(a)] = IdOf(t, p, g[Len(a) + Len(Nla(t, p))])
<1>0. SUFFICES ASSUME a \in Seq(Nat), t \in Nat, p \in Seq(Nat), Len(p) >= 1, b \in Seq(Nat)
      PROVE  g[Len(a)] = IdOf(t, p, g[Len(a) + Len(Nla(t, p))])
  BY Zenon DEF Between
<1>1. PICK n \in Seq(Nat) : n = Nla(t, p) /\ IsNla(n, t, p)
  <2>1. IsNla(Nla(t, p), t, p)
    BY <1>0, NlaShape, Zenon
  <2>2. Nla(t, p) \in Seq(Nat)
    BY <2>1, Zenon DEF IsNla
  <2> QED BY <2>1, <2>2, Zenon
<1>2. PICK l \in Nat : l = 4 + Len(p)
  BY <1>0
<1>3. /\ Len(n) = l + Pad(l) /\ n[1] + 256 * n[2] = l /\ n[3] = t
      /\ \A i \in 1..Len(p) : n[4 + i] = p[i]
  BY <1>1, <1>2, Zenon DEF IsNla
<1>4. PICK z \in Nat : z = Pad(l)
  BY LengthBytes
<1>5. Len(p) \in Nat /\ Len(n) \in Nat /\ Len(a) \in Nat /\ Len(b) \in Nat
  BY <1>0
<1>6. Len(n) >= 5 /\ l >= 4 /\ Len(n) = l + z
  BY <1>0, <1>2, <1>3, <1>4, <1>5
<1> DEFINE d == n \o b
           c == a \o d
<1>7. d \in Seq(Nat) /\ Len(d) = Len(n) + Len(b) /\ \A i \in 1..Len(n) : d[i] = n[i]
  BY <1>0
<1> HIDE DEF d
<1>8. c \in Seq(Nat) /\ \A i \in 1..Len(d) : c[Len(a) + i] = d[i]
  BY <1>0, <1>7
<1>9. Len(c) = Len(a) + Len(d)
  <2>1. d \in Seq(Nat)
    BY <1>7, Zenon
  <2> QED BY <1>0, <2>1
<1> HIDE DEF c
<1>10. PICK q \in Nat : q = Len(a)
  BY <1>5, Zenon
<1>11. ASSUME NEW i \in 1..Len(n) PROVE c[q + i] = n[i]
  <2>1. i \in 1..Len(d)
    BY <1>5, <1>7
  <2> QED BY <1>7, <1>8, <1>10, <2>1, Zenon
<1>12. 1 \in 1..Len(n) /\ 2 \in 1..Len(n) /\ 3 \in 1..Len(n) /\ 5 \in 1..Len(n)
  BY <1>5, <1>6
<1>13. c[q + 1] = n[1] /\ c[q + 2] = n[2] /\ c[q + 3] = t /\ c[q + 5] = p[1]
  <2>1. n[5] = p[1]
    <3>1. 1 \in 1..Len(p) /\ 4 + 1 = 5
      BY <1>0, <1>5
    <3> QED BY <1>3, <3>1, Zenon
  <2> QED BY <1>3, <1>11, <1>12, <2>1, Zenon
<1>14. LenAt(c, q) = l
  BY <1>3, <1>13, Zenon DEF LenAt
<1>15. q + 4 =< Len(c)
  BY <1>5, <1>6, <1>7, <1>9, <1>10
<1>16. q \in HeaderAt(c)
  BY <1>6, <1>14, <1>15, Zenon DEF HeaderAt
<1>17. NextOff(c, q) = q + Len(n)
  <2>1. NextOff(c, q) = q + l + z
    BY <1>4, <1>8, <1>14, <1>15, OffsetTypes, Zenon
  <2> QED BY <1>6, <2>1
<1>18. LoopFn(c, g)
  BY <1>1, Zenon DEF c, d, Between
<1>19. g[q] = IdAt(c, q, g[NextOff(c, q)])
  BY <1>8, <1>16, <1>18, LoopStep, Zenon
<1>20. g[q] = IF t = CTRL_ATTR_FAMILY_ID /\ g[q + Len(n)] = NONE THEN p[1] ELSE g[q + Len(n)]
  BY <1>13, <1>17, <1>19, Zenon DEF IdAt
<1> QED BY <1>1, <1>10, <1>20, Zenon DEF IdOf

\* resolve_family finds the id in the controller's reply, behind the family's
\* name and its padding.
THEOREM LoopFindsFamily ==
    ASSUME family = FamilyId PROVE FamilyIn(FamilyReply) = FamilyId
<1>1. PICK p1 \in Seq(Nat) : p1 = Bytes(6) /\ Len(p1) = 6
  BY BytesType
<1>2. PICK p2 \in Seq(Nat) : p2 = <<family, 0>> /\ Len(p2) = 2 /\ p2[1] = FamilyId
  <2>1. PICK f \in Nat : f = FamilyId
    BY DEF FamilyId
  <2>2. <<f, 0>> \in Seq(Nat) /\ Len(<<f, 0>>) = 2 /\ <<f, 0>>[1] = f
    OBVIOUS
  <2> QED BY <2>1, <2>2, Zenon
<1>3. PICK p3 \in Seq(Nat) : p3 = Bytes(4) /\ Len(p3) = 4
  BY BytesType
<1>4. Len(p1) >= 1 /\ Len(p2) >= 1 /\ Len(p3) >= 1
  <2>1. 6 >= 1 /\ 2 >= 1 /\ 4 >= 1
    OBVIOUS
  <2> QED BY <1>1, <1>2, <1>3, <2>1, Zenon
<1>5. PICK A \in Seq(Nat), B \in Seq(Nat), C \in Seq(Nat), D \in Seq(Nat) :
          A = Nla(2, p1) /\ B = Nla(1, p2) /\ C = Nla(3, p3) /\ D = Nla(4, p3)
  <2>1. ASSUME NEW t \in Nat, NEW p \in Seq(Nat) PROVE Nla(t, p) \in Seq(Nat)
    BY NlaShape, Zenon DEF IsNla
  <2>2. 1 \in Nat /\ 2 \in Nat /\ 3 \in Nat /\ 4 \in Nat
    OBVIOUS
  <2> QED BY <2>1, <2>2, Zenon
<1>6. FamilyReply = A \o B \o C \o D
  BY <1>1, <1>2, <1>3, <1>5, Zenon
     DEF FamilyReply, NlaU32, CTRL_ATTR_FAMILY_NAME, CTRL_ATTR_FAMILY_ID
<1>7. PICK E \in Seq(Nat), AB \in Seq(Nat), ABC \in Seq(Nat), CD \in Seq(Nat), BCD \in Seq(Nat),
           r \in Seq(Nat) :
         /\ E = <<>> /\ AB = A \o B /\ ABC = AB \o C /\ CD = C \o D /\ BCD = B \o CD
         /\ r = ABC \o D
  <2>1. <<>> \in Seq(Nat)
    OBVIOUS
  <2>2. A \o B \in Seq(Nat) /\ C \o D \in Seq(Nat)
    OBVIOUS
  <2>3. PICK AB \in Seq(Nat), CD \in Seq(Nat) : AB = A \o B /\ CD = C \o D
    BY <2>2, Zenon
  <2>4. AB \o C \in Seq(Nat) /\ B \o CD \in Seq(Nat)
    OBVIOUS
  <2>5. PICK ABC \in Seq(Nat), BCD \in Seq(Nat) : ABC = AB \o C /\ BCD = B \o CD
    BY <2>4, Zenon
  <2>6. ABC \o D \in Seq(Nat)
    OBVIOUS
  <2> QED BY <2>1, <2>3, <2>5, <2>6, Zenon
<1>8. /\ r = FamilyReply /\ r = E \o (A \o BCD) /\ r = A \o BCD /\ r = AB \o CD
      /\ r = ABC \o (D \o E)
  <2>1. Regroups(AB, C, D)
    BY Assoc
  <2>2. Regroups(A, B, CD)
    BY Assoc
  <2>3. A \o BCD \in Seq(Nat)
    OBVIOUS
  <2>4. E \o (A \o BCD) = A \o BCD /\ D \o E = D
    BY <1>7, <2>3, Nothing, Zenon
  <2> QED BY <1>6, <1>7, <2>1, <2>2, <2>4, Zenon DEF Regroups
<1>9. PICK g : LoopFn(r, g) /\ FamilyIn(r) = g[0]
  BY <1>8, LoopExists, LoopUnfolded, Zenon
<1>10. /\ Len(AB) = Len(A) + Len(B) /\ Len(ABC) = Len(AB) + Len(C)
       /\ Len(r) = Len(ABC) + Len(D) /\ Len(E) = 0 /\ Len(r) \in Nat
       /\ 0 + Len(A) = Len(A)
  <2>1. Len(A \o B) = Len(A) + Len(B)
    OBVIOUS
  <2>2. Len(AB \o C) = Len(AB) + Len(C)
    OBVIOUS
  <2>3. Len(ABC \o D) = Len(ABC) + Len(D)
    OBVIOUS
  <2>4. Len(r) \in Nat /\ Len(A) \in Nat /\ Len(<<>>) = 0
    OBVIOUS
  <2>5. 0 + Len(A) = Len(A)
    BY <2>4
  <2> QED BY <1>7, <2>1, <2>2, <2>3, <2>4, <2>5, Zenon
<1>11. g[Len(r)] = NONE
  BY <1>8, <1>9, <1>10, LoopStep, Zenon
<1>12. /\ 1 = CTRL_ATTR_FAMILY_ID /\ ~(2 = CTRL_ATTR_FAMILY_ID)
       /\ ~(3 = CTRL_ATTR_FAMILY_ID) /\ ~(4 = CTRL_ATTR_FAMILY_ID)
  BY DEF CTRL_ATTR_FAMILY_ID
<1>13. g[Len(ABC)] = NONE
  <2>1. 4 \in Nat
    OBVIOUS
  <2>2. Between(r, ABC, 4, p3, E)
    BY <1>4, <1>5, <1>7, <1>8, <2>1, Zenon DEF Between
  <2>3. g[Len(ABC)] = IdOf(4, p3, g[Len(ABC) + Len(Nla(4, p3))])
    BY <1>9, <2>2, LoopReadsNla
  <2>4. g[Len(ABC) + Len(Nla(4, p3))] = NONE
    BY <1>5, <1>10, <1>11, Zenon
  <2> QED BY <1>12, <2>3, <2>4, Zenon DEF IdOf
<1>14. g[Len(AB)] = NONE
  <2>1. 3 \in Nat
    OBVIOUS
  <2>2. Between(r, AB, 3, p3, D)
    BY <1>4, <1>5, <1>7, <1>8, <2>1, Zenon DEF Between
  <2>3. g[Len(AB)] = IdOf(3, p3, g[Len(AB) + Len(Nla(3, p3))])
    BY <1>9, <2>2, LoopReadsNla
  <2>4. g[Len(AB) + Len(Nla(3, p3))] = NONE
    BY <1>5, <1>10, <1>13, Zenon
  <2> QED BY <1>12, <2>3, <2>4, Zenon DEF IdOf
<1>15. g[Len(A)] = FamilyId
  <2>1. 1 \in Nat
    OBVIOUS
  <2>2. Between(r, A, 1, p2, CD)
    BY <1>4, <1>5, <1>7, <1>8, <2>1, Zenon DEF Between
  <2>3. g[Len(A)] = IdOf(1, p2, g[Len(A) + Len(Nla(1, p2))])
    BY <1>9, <2>2, LoopReadsNla
  <2>4. g[Len(A) + Len(Nla(1, p2))] = NONE
    BY <1>5, <1>10, <1>14, Zenon
  <2> QED BY <1>2, <1>12, <2>3, <2>4, Zenon DEF IdOf
<1>16. g[0] = FamilyId
  <2>1. 2 \in Nat
    OBVIOUS
  <2>2. Between(r, E, 2, p1, BCD)
    BY <1>4, <1>5, <1>7, <1>8, <2>1, Zenon DEF Between
  <2>4. g[Len(E)] = IdOf(2, p1, g[Len(E) + Len(Nla(2, p1))])
    BY <1>9, <2>2, LoopReadsNla
  <2>5. g[0] = IdOf(2, p1, g[0 + Len(Nla(2, p1))])
    BY <1>10, <2>4, Zenon
  <2>6. ~(g[0 + Len(Nla(2, p1))] = NONE) /\ g[0 + Len(Nla(2, p1))] = FamilyId
    <3>1. ~(FamilyId = NONE)
      BY GenlAssumption DEF FamilyId
    <3> QED BY <1>5, <1>10, <1>15, <3>1, Zenon
  <2> QED BY <2>5, <2>6, Zenon DEF IdOf
<1> QED BY <1>8, <1>9, <1>16, Zenon

-----------------------------------------------------------------------------
(* The clients.                                                            *)

Success == Message("error", 0, <<>>)

\* The messages in the socket of gtp5g_genl.py, by what it does next: the
\* acknowledgement of GETFAMILY is ahead of every later answer.
QueueOK ==
    /\ pc \in {"idle", "start"} => queue = <<>>
    /\ pc = "resolve" =>
         \/ answer \in Errnos /\ queue = Ack(answer)
         \/ /\ answer = 0
            /\ \E m : /\ m.type = "reply" /\ m.errno = 0 /\ FamilyIn(m.attrs) = FamilyId
                      /\ queue = <<m, Success>>
    /\ pc = "command" => queue = <<Success>>
    /\ pc = "wait" => /\ queue = <<Success, Message("error", verdict, <<>>)>>
                      /\ verdict \in Errnos \cup {0}
    /\ pc = "close" => queue = <<>> \/ \E e \in Errnos \cup {0} : queue = Ack(e)

\* Nothing is reported, and no family known, before the answers are read.
PendingOK ==
    /\ pc \in {"start", "resolve"} => fam = NONE
    /\ pc = "start" => answer = NONE
    /\ pc \in {"command", "wait"} => answer = 0
    /\ pc \in {"start", "resolve", "command", "wait"} => report = "none"

\* gtp5g_link_add.py waits for the answer to its one request.
LinkOK ==
    /\ lpc = "idle" => lqueue = <<>>
    /\ lpc = "wait" => lqueue = Ack(lverdict) /\ lverdict \in Errnos \cup {0}

\* What each process and the kernel keep: TypeOK but for the queues, whose
\* contents the parts above give, with the properties.
GenlPart ==
    /\ pc \in {"idle", "start", "resolve", "command", "wait", "close"}
    /\ fam \in {FamilyId, NONE} /\ report \in Reports
    /\ answer \in Errnos \cup {0, NONE} /\ verdict \in Errnos \cup {0, NONE}
    /\ QueueOK /\ PendingOK /\ got = meant /\ FamilyFound /\ NoFalseAlarm

LinkPart ==
    /\ lpc \in {"idle", "wait"} /\ lreport \in {"none", "created", "refused"}
    /\ lverdict \in Errnos \cup {0, NONE}
    /\ LinkOK /\ (lverdict # NONE => lgot = LinkMeant) /\ LinkReportTrue

KernelPart == family \in {FamilyId, NONE} /\ link \in BOOLEAN

IInv == KernelPart /\ GenlPart /\ LinkPart

\* Two messages, one after the other.
LEMMA Two == ASSUME NEW a, NEW b PROVE <<a>> \o <<b>> = <<a, b>>
<1>1. PICK S : a \in S /\ b \in S
  <2>1. a \in {a, b} /\ b \in {a, b}
    OBVIOUS
  <2> QED BY <2>1, Zenon
<1>2. PICK x \in Seq(S) : x = <<a>> /\ Len(x) = 1 /\ x[1] = a
  <2>1. <<a>> \in Seq(S) /\ Len(<<a>>) = 1 /\ <<a>>[1] = a
    BY <1>1
  <2> QED BY <2>1, Zenon
<1>3. PICK y \in Seq(S) : y = <<b>> /\ Len(y) = 1 /\ y[1] = b
  <2>1. <<b>> \in Seq(S) /\ Len(<<b>>) = 1 /\ <<b>>[1] = b
    BY <1>1
  <2> QED BY <2>1, Zenon
<1>4. /\ x \o y \in Seq(S) /\ Len(x \o y) = Len(x) + Len(y)
      /\ \A i \in 1..Len(x) : (x \o y)[i] = x[i]
      /\ \A i \in 1..Len(y) : (x \o y)[Len(x) + i] = y[i]
  OBVIOUS
<1>5. PICK u \in Seq(S) : u = x \o y
  BY <1>4, Zenon
<1>6. Len(u) = 1 + 1 /\ (\A i \in 1..1 : u[i] = x[i]) /\ (\A i \in 1..1 : u[1 + i] = y[i])
  BY <1>2, <1>3, <1>4, <1>5, Zenon
<1>7. 1 \in 1..1 /\ 1 + 1 = 2
  OBVIOUS
<1>8. Len(u) = 2 /\ u[1] = a /\ u[2] = b
  BY <1>2, <1>3, <1>6, <1>7, Zenon
<1>9. PICK v \in Seq(S) : v = <<a, b>> /\ Len(v) = 2 /\ v[1] = a /\ v[2] = b
  <2>1. <<a, b>> \in Seq(S) /\ Len(<<a, b>>) = 2 /\ <<a, b>>[1] = a /\ <<a, b>>[2] = b
    BY <1>1
  <2> QED BY <2>1, Zenon
<1>10. \A i \in 1..2 : u[i] = v[i]
  BY <1>8, <1>9
<1>11. u = v
  <2>1. \A i \in 1..Len(u) : u[i] = v[i]
    BY <1>8, <1>10, Zenon
  <2> QED BY <1>8, <1>9, <2>1, SeqEqual, Zenon
<1> QED BY <1>2, <1>3, <1>5, <1>9, <1>11, Zenon

\* The first message.
LEMMA First == ASSUME NEW a PROVE <<>> \o <<a>> = <<a>>
<1>1. <<>> \in Seq({a}) /\ <<a>> \in Seq({a})
  OBVIOUS
<1>2. PICK x \in Seq({a}) : x = <<a>>
  BY <1>1, Zenon
<1>3. <<>> \o x = x
  OBVIOUS
<1> QED BY <1>2, <1>3, Zenon

\* What recv takes and leaves.
LEMMA Queues ==
    ASSUME NEW a, NEW b
    PROVE  /\ Tail(<<a, b>>) = <<b>> /\ Head(<<a, b>>) = a /\ <<a, b>> # <<>>
           /\ Tail(<<a>>) = <<>> /\ Head(<<a>>) = a /\ <<a>> # <<>>
           /\ Len(<<a, b>>) = 2 /\ Len(<<a>>) = 1 /\ Len(<<>>) = 0
OBVIOUS

\* The parts of a message.
LEMMA Fields ==
    ASSUME NEW t, NEW e, NEW x
    PROVE  Message(t, e, x).type = t /\ Message(t, e, x).errno = e /\ Message(t, e, x).attrs = x
BY DEF Message

\* Error numbers are not 0, and NONE is none.
LEMMA Constants ==
    /\ 0 \notin Errnos /\ NONE \notin Errnos \cup {0} /\ FamilyId # NONE
<1>1. 0 \in Nat /\ FamilyId \in Nat /\ 0 \notin Nat \ {0}
  BY DEF FamilyId
<1>2. Errnos \subseteq Nat \ {0} /\ NONE \notin Nat
  BY GenlAssumption, Zenon
<1>3. NONE \notin Errnos
  BY <1>2, Zenon
<1> QED BY <1>1, <1>2, <1>3, Zenon

\* The lengths of the queues.
LEMMA Small == ASSUME NEW n PROVE (n = 0 \/ n = 1 \/ n = 2 => n =< 2) /\ (n = 0 \/ n = 1 => n =< 1)
<1>1. 0 =< 2 /\ 1 =< 2 /\ 2 =< 2 /\ 0 =< 1 /\ 1 =< 1
  OBVIOUS
<1> QED BY <1>1, Zenon

\* The invariant gives the type of the queues.
LEMMA TypeFromIInv == IInv => TypeOK
<1> SUFFICES ASSUME IInv PROVE TypeOK
  OBVIOUS
<1>1. ToSet(<<>>) = {}
  BY DEF ToSet
<1> DEFINE MsgOK(m) == m.errno \in Errnos \cup {0} /\ m.type \in {"reply", "error"}
<1>2. ASSUME NEW e \in Errnos \cup {0} PROVE MsgOK(Message("error", e, <<>>))
  <2>1. /\ Message("error", e, <<>>).errno = e /\ Message("error", e, <<>>).type = "error"
        /\ "error" \in {"reply", "error"}
    BY Fields
  <2> QED BY <2>1, Zenon
<1>3. ASSUME NEW q, Len(q) = 0 \/ Len(q) = 1 \/ Len(q) = 2 PROVE Len(q) =< 2
  BY <1>3, Small, Zenon
<1>4. Len(queue) =< 2 /\ \A m \in ToSet(queue) : MsgOK(m)
  <2>1. ASSUME NEW e \in Errnos \cup {0}, queue = Ack(e)
        PROVE  Len(queue) = 1 /\ \A m \in ToSet(queue) : MsgOK(m)
    <3>1. queue = <<Message("error", e, <<>>)>>
      BY <2>1, Zenon DEF Ack
    <3>2. Len(queue) = 1 /\ ToSet(queue) = {Message("error", e, <<>>)}
      BY <3>1, Queues, ToSetOf, Zenon
    <3> HIDE DEF MsgOK
    <3> QED BY <1>2, <3>2, Zenon
  <2>2. ASSUME NEW a, NEW b, queue = <<a, b>>, MsgOK(a), MsgOK(b)
        PROVE  Len(queue) = 2 /\ \A m \in ToSet(queue) : MsgOK(m)
    <3>1. Len(queue) = 2 /\ ToSet(queue) = {a, b}
      BY <2>2, Queues, ToSetOf, Zenon
    <3> HIDE DEF MsgOK
    <3> QED BY <2>2, <3>1, Zenon
  <2>3. ASSUME queue = <<>> PROVE Len(queue) = 0 /\ \A m \in ToSet(queue) : MsgOK(m)
    <3>1. Len(<<>>) = 0
      OBVIOUS
    <3> QED BY <1>1, <2>3, <3>1, Zenon
  <2>4. MsgOK(Success)
    BY <1>2, Zenon DEF Success
  <2>5. /\ QueueOK /\ pc \in {"idle", "start", "resolve", "command", "wait", "close"}
    BY Zenon DEF IInv, GenlPart
  <2>6. 0 \in Errnos \cup {0} /\ \A e \in Errnos : e \in Errnos \cup {0}
    OBVIOUS
  <2>7. ASSUME Len(queue) = 0 \/ Len(queue) = 1 \/ Len(queue) = 2 PROVE Len(queue) =< 2
    BY <1>3, <2>7, Zenon
  <2>8. CASE pc \in {"idle", "start"}
    BY <2>3, <2>5, <2>7, <2>8, Zenon DEF QueueOK
  <2>9. CASE pc = "resolve"
    <3>1. CASE \E e \in Errnos : queue = Ack(e)
      BY <2>1, <2>6, <2>7, <3>1, Zenon
    <3>2. CASE \E m : /\ m.type = "reply" /\ m.errno = 0 /\ FamilyIn(m.attrs) = FamilyId
                      /\ queue = <<m, Success>>
      <4>1. PICK m : m.type = "reply" /\ m.errno = 0 /\ queue = <<m, Success>>
        BY <3>2, Zenon
      <4>2. MsgOK(m)
        BY <2>6, <4>1, Zenon
      <4> HIDE DEF MsgOK
      <4> QED BY <2>2, <2>4, <2>7, <4>1, <4>2, Zenon
    <3> QED BY <2>5, <2>9, <3>1, <3>2, Zenon DEF QueueOK
  <2>10. CASE pc = "command"
    <3>1. queue = Ack(0)
      BY <2>5, <2>10, Zenon DEF QueueOK, Success, Ack
    <3> QED BY <2>1, <2>6, <2>7, <3>1, Zenon
  <2>11. CASE pc = "wait"
    <3>1. queue = <<Success, Message("error", verdict, <<>>)>> /\ verdict \in Errnos \cup {0}
      BY <2>5, <2>11, Zenon DEF QueueOK
    <3> HIDE DEF MsgOK
    <3> QED BY <1>2, <2>2, <2>4, <2>7, <3>1, Zenon
  <2>12. CASE pc = "close"
    BY <2>1, <2>3, <2>5, <2>7, <2>12, Zenon DEF QueueOK
  <2> QED BY <2>5, <2>8, <2>9, <2>10, <2>11, <2>12, Zenon
<1>5. Len(lqueue) =< 1
  <2>1. lpc \in {"idle", "wait"} /\ LinkOK
    BY Zenon DEF IInv, LinkPart
  <2>2. Len(lqueue) = 0 \/ Len(lqueue) = 1
    BY <2>1, Queues, Zenon DEF LinkOK, Ack
  <2> QED BY <2>2, Small, Zenon
<1> QED BY <1>4, <1>5, Zenon DEF IInv, KernelPart, GenlPart, LinkPart, TypeOK

\* Nothing has been sent or reported at first.
LEMMA InitIInv == Init => IInv
BY Constants DEF Init, IInv, KernelPart, GenlPart, LinkPart, QueueOK, PendingOK, LinkOK,
                 Reports, FamilyFound, NoFalseAlarm, LinkReportTrue

\* Two processes do not share what they keep.
LEMMA Apart ==
    /\ GenlPart /\ UNCHANGED gvars => GenlPart'
    /\ LinkPart /\ UNCHANGED lvars => LinkPart'
    /\ KernelPart /\ UNCHANGED kvars => KernelPart'
<1>1. GenlPart /\ UNCHANGED gvars => GenlPart'
  BY DEF gvars, GenlPart, QueueOK, PendingOK, FamilyFound, NoFalseAlarm
<1>2. LinkPart /\ UNCHANGED lvars => LinkPart'
  BY DEF lvars, LinkPart, LinkOK, LinkReportTrue
<1>3. KernelPart /\ UNCHANGED kvars => KernelPart'
  BY DEF kvars, KernelPart
<1> QED BY <1>1, <1>2, <1>3, Zenon

\* A new process has an empty socket.
LEMMA GenlStartPart == IInv /\ GenlStart => GenlPart'
BY Constants DEF IInv, GenlStart, GenlPart, QueueOK, PendingOK, FamilyFound, NoFalseAlarm, Reports

\* GETFAMILY is answered by the family and its acknowledgement, or by an error.
LEMMA ResolvePart == IInv /\ Resolve => GenlPart'
<1> SUFFICES ASSUME IInv, Resolve PROVE GenlPart'
  OBVIOUS
<1>1. /\ pc = "start" /\ pc' = "resolve" /\ fam' = fam /\ report' = report /\ verdict' = verdict
      /\ meant' = meant /\ got' = got
  BY Zenon DEF Resolve
<1>2. /\ queue = <<>> /\ fam = NONE /\ report = "none" /\ got = meant
      /\ verdict \in Errnos \cup {0, NONE} /\ family \in {FamilyId, NONE}
  BY <1>1 DEF IInv, GenlPart, KernelPart, QueueOK, PendingOK
<1>3. \/ answer' \in Errnos /\ queue' = Ack(answer')
      \/ /\ answer' = 0
         /\ \E m : /\ m.type = "reply" /\ m.errno = 0 /\ FamilyIn(m.attrs) = FamilyId
                   /\ queue' = <<m, Success>>
  <2>1. CASE answer' \in Errnos /\ queue' = queue \o Ack(answer')
    BY <1>2, <2>1, First, Zenon DEF Ack
  <2>2. CASE family # NONE /\ answer' = 0 /\ queue' = queue \o <<Message("reply", 0, FamilyReply)>> \o Ack(0)
    <3>1. PICK m : m = Message("reply", 0, FamilyReply)
      BY Zenon
    <3>2. m.type = "reply" /\ m.errno = 0 /\ m.attrs = FamilyReply
      <4>1. /\ Message("reply", 0, FamilyReply).type = "reply"
            /\ Message("reply", 0, FamilyReply).errno = 0
            /\ Message("reply", 0, FamilyReply).attrs = FamilyReply
        BY Fields
      <4> QED BY <3>1, <4>1, Zenon
    <3>3. FamilyIn(FamilyReply) = FamilyId
      BY <1>2, <2>2, LoopFindsFamily, Zenon
    <3>4. queue' = (<<>> \o <<m>>) \o <<Success>>
      BY <1>2, <2>2, <3>1, Zenon DEF Ack, Success
    <3>5. queue' = <<m, Success>>
      BY <3>4, First, Two, Zenon
    <3> QED BY <2>2, <3>2, <3>3, <3>5, Zenon
  <2> QED BY <2>1, <2>2, Zenon DEF Resolve
<1>4. QueueOK'
  BY <1>1, <1>3, Zenon DEF QueueOK
<1>5. PendingOK' /\ FamilyFound' /\ NoFalseAlarm'
  BY <1>1, <1>2 DEF PendingOK, FamilyFound, NoFalseAlarm
<1>6. answer' \in Errnos \cup {0, NONE}
  BY <1>3
<1> QED BY <1>1, <1>2, <1>4, <1>5, <1>6 DEF GenlPart, Reports

\* An error ends the process with no family, a reply leaves its
\* acknowledgement in the socket.
LEMMA ResolvedPart == IInv /\ Resolved => GenlPart'
<1> SUFFICES ASSUME IInv, Resolved PROVE GenlPart'
  OBVIOUS
<1> DEFINE m == Head(queue)
<1>1. /\ pc = "resolve" /\ queue' = Tail(queue) /\ verdict' = verdict /\ meant' = meant
      /\ got' = got /\ answer' = answer
  BY Zenon DEF Resolved, Recv
<1>2. \/ m.type = "error" /\ report' = "refused" /\ pc' = "close" /\ fam' = fam
      \/ m.type = "reply" /\ FamilyIn(m.attrs) = NONE
      \/ /\ m.type = "reply" /\ pc' = "command" /\ fam' = FamilyIn(m.attrs)
         /\ report' = report
  BY Zenon DEF Resolved, Ends
<1>3. /\ fam = NONE /\ report = "none" /\ got = meant /\ verdict \in Errnos \cup {0, NONE}
      /\ \/ answer \in Errnos /\ queue = Ack(answer)
         \/ /\ answer = 0
            /\ \E n : /\ n.type = "reply" /\ n.errno = 0 /\ FamilyIn(n.attrs) = FamilyId
                      /\ queue = <<n, Success>>
  BY <1>1, Zenon DEF IInv, GenlPart, QueueOK, PendingOK
<1> HIDE DEF m
<1>4. CASE answer \in Errnos /\ queue = Ack(answer)
  <2>1. queue = <<Message("error", answer, <<>>)>>
    BY <1>4, Zenon DEF Ack
  <2>2. m.type = "error" /\ Tail(queue) = <<>>
    <3>1. Message("error", answer, <<>>).type = "error"
      BY Fields
    <3> QED BY <2>1, <3>1, Queues, Zenon DEF m
  <2>3. "error" # "reply"
    OBVIOUS
  <2>4. report' = "refused" /\ pc' = "close" /\ fam' = NONE /\ queue' = <<>>
    BY <1>1, <1>2, <1>3, <2>2, <2>3, Zenon
  <2> QED BY <1>1, <1>3, <1>4, <2>4
          DEF GenlPart, QueueOK, PendingOK, FamilyFound, NoFalseAlarm, Reports
<1>5. CASE answer = 0 /\ \E n : /\ n.type = "reply" /\ n.errno = 0 /\ FamilyIn(n.attrs) = FamilyId
                                /\ queue = <<n, Success>>
  <2>1. PICK n : n.type = "reply" /\ FamilyIn(n.attrs) = FamilyId /\ queue = <<n, Success>>
    BY <1>5, Zenon
  <2>2. m = n /\ Tail(queue) = <<Success>>
    BY <2>1, Queues, Zenon DEF m
  <2>3. "error" # "reply"
    OBVIOUS
  <2>4. report' = "none" /\ pc' = "command" /\ fam' = FamilyId /\ queue' = <<Success>>
    BY <1>1, <1>2, <1>3, <2>1, <2>2, <2>3, Constants, Zenon
  <2> QED BY <1>1, <1>3, <1>5, <2>4
          DEF GenlPart, QueueOK, PendingOK, FamilyFound, NoFalseAlarm, Reports
<1> QED BY <1>3, <1>4, <1>5, Zenon

\* A command whose attributes the kernel understands adds its answer to the
\* acknowledgement that is already there.
LEMMA CommandPart ==
    ASSUME NEW cmd, NEW attrs, NEW intent, IInv, Command(cmd, attrs, intent),
           Found(attrs, Nest(cmd)) = intent
    PROVE  GenlPart'
<1>1. /\ pc = "command" /\ pc' = "wait" /\ fam' = fam /\ report' = report /\ meant' = intent
      /\ got' = intent /\ queue' = queue \o Ack(verdict')
      /\ verdict' \in Errnos \cup {0} /\ answer' = answer
  <2>1. verdict' \in Errnos \cup (IF link /\ fam = family THEN {0} ELSE {})
    BY Zenon DEF Command
  <2>2. verdict' \in Errnos \cup {0}
    BY <2>1
  <2> QED BY <2>2, Zenon DEF Command
<1>2. queue = <<Success>> /\ report = "none" /\ fam = FamilyId /\ answer = 0
  BY <1>1, Zenon DEF IInv, GenlPart, QueueOK, PendingOK, FamilyFound
<1>3. queue' = <<Success, Message("error", verdict', <<>>)>>
  BY <1>1, <1>2, Two, Zenon DEF Ack
<1>4. QueueOK'
  BY <1>1, <1>3 DEF QueueOK
<1>5. PendingOK' /\ FamilyFound' /\ NoFalseAlarm'
  BY <1>1, <1>2 DEF PendingOK, FamilyFound, NoFalseAlarm
<1> QED BY <1>1, <1>2, <1>4, <1>5 DEF GenlPart, Reports

\* Both commands are understood.
LEMMA AddPart == IInv /\ (AddFar \/ AddPdr) => GenlPart'
<1>1. ASSUME IInv, AddFar PROVE GenlPart'
  <2>1. PICK forw \in BOOLEAN, given \in SUBSET FwdOpts :
            Command("ADD_FAR", FarAttrs(forw, given), FarMeant(forw, given))
    BY <1>1, Zenon DEF AddFar
  <2>2. Nest("ADD_FAR") = {<<5>>, <<5, 1>>}
    BY Zenon DEF Nest
  <2>3. Found(FarAttrs(forw, given), Nest("ADD_FAR")) = FarMeant(forw, given)
    BY <2>2, FarUnderstood, Zenon
  <2> QED BY <1>1, <2>1, <2>3, CommandPart, Zenon
<1>2. ASSUME IInv, AddPdr PROVE GenlPart'
  <2>1. PICK given \in SUBSET PdrOpts :
            Command("ADD_PDR", PdrAttrs(given), PdrMeant(given))
    BY <1>2, Zenon DEF AddPdr
  <2>2. Nest("ADD_PDR") = {<<5>>, <<5, 2>>}
    <3>1. "ADD_PDR" # "ADD_FAR"
      OBVIOUS
    <3> QED BY <3>1, Zenon DEF Nest
  <2>3. Found(PdrAttrs(given), Nest("ADD_PDR")) = PdrMeant(given)
    BY <2>2, PdrUnderstood, Zenon
  <2> QED BY <1>2, <2>1, <2>3, CommandPart, Zenon
<1> QED BY <1>1, <1>2, Zenon

\* A step with no request leaves the acknowledgement.
LEMMA UnknownPart == IInv /\ UnknownStep => GenlPart'
<1> SUFFICES ASSUME IInv, UnknownStep PROVE GenlPart'
  OBVIOUS
<1>1. /\ pc = "command" /\ pc' = "close" /\ report' = "unknown step" /\ queue' = queue
      /\ fam' = fam /\ answer' = answer /\ verdict' = verdict /\ meant' = meant /\ got' = got
  BY Zenon DEF UnknownStep, Ends
<1>2. /\ queue = Ack(0) /\ fam \in {FamilyId, NONE} /\ got = meant
      /\ verdict \in Errnos \cup {0, NONE} /\ answer = 0
  BY <1>1, Zenon DEF IInv, GenlPart, QueueOK, PendingOK, Ack, Success
<1>3. QueueOK'
  <2>1. pc' = "close" /\ queue' = Ack(0) /\ 0 \in Errnos \cup {0}
    BY <1>1, <1>2
  <2> QED BY <2>1 DEF QueueOK
<1>4. 0 \notin Errnos
  BY GenlAssumption
<1> QED BY <1>1, <1>2, <1>3, <1>4 DEF GenlPart, PendingOK, FamilyFound, NoFalseAlarm, Reports

\* The message cmd receives is the acknowledgement of GETFAMILY.
LEMMA CommandedPart == IInv /\ Commanded => GenlPart'
<1> SUFFICES ASSUME IInv, Commanded PROVE GenlPart'
  OBVIOUS
<1>1. /\ pc = "wait" /\ pc' = "close" /\ queue' = Tail(queue)
      /\ report' = (IF Refused(Head(queue)) THEN "refused" ELSE "added")
      /\ fam' = fam /\ answer' = answer /\ verdict' = verdict /\ meant' = meant /\ got' = got
  BY Zenon DEF Commanded, Ends, Recv
<1>2. /\ queue = <<Success, Message("error", verdict, <<>>)>> /\ verdict \in Errnos \cup {0}
      /\ fam \in {FamilyId, NONE} /\ got = meant /\ answer = 0
  BY <1>1, Zenon DEF IInv, GenlPart, QueueOK, PendingOK
<1>3. Head(queue) = Success /\ Tail(queue) = Ack(verdict)
  BY <1>2, Queues, Zenon DEF Ack
<1>4. ~Refused(Success)
  <2>1. Message("error", 0, <<>>).errno = 0
    BY Fields
  <2> QED BY <2>1, Zenon DEF Refused, Success
<1>5. report' = "added" /\ queue' = Ack(verdict)
  BY <1>1, <1>3, <1>4, Zenon
<1>6. QueueOK'
  <2>1. pc' = "close" /\ queue' = Ack(verdict) /\ verdict \in Errnos \cup {0}
    BY <1>1, <1>2, <1>5, Zenon
  <2> QED BY <2>1 DEF QueueOK
<1>7. 0 \notin Errnos
  BY GenlAssumption
<1> QED BY <1>1, <1>2, <1>5, <1>6, <1>7 DEF GenlPart, PendingOK, FamilyFound, NoFalseAlarm, Reports

\* What a closed socket held is gone.
LEMMA ClosePart == IInv /\ Close => GenlPart'
BY DEF IInv, Close, GenlPart, QueueOK, PendingOK, FamilyFound, NoFalseAlarm

\* The request for the device is understood, and its answer the only message.
LEMMA LinkAddPart == IInv /\ LinkAdd => LinkPart' /\ KernelPart'
<1> SUFFICES ASSUME IInv, LinkAdd PROVE LinkPart' /\ KernelPart'
  OBVIOUS
<1>1. /\ lgot' = LinkMeant /\ lqueue' = Ack(lverdict') /\ lpc' = "wait" /\ lreport' = "none"
      /\ family' = family
  BY LinkUnderstood, Zenon DEF LinkAdd
<1>2. lverdict' \in Errnos \cup {0}
  <2>1. lverdict' \in Errnos \cup (IF family # NONE /\ ~link THEN {0} ELSE {})
    BY Zenon DEF LinkAdd
  <2> QED BY <2>1
<1>3. link' \in BOOLEAN
  <2>1. link' = (link \/ lverdict' = 0)
    BY Zenon DEF LinkAdd
  <2> QED BY <2>1
<1>4. KernelPart'
  BY <1>1, <1>3, Zenon DEF IInv, KernelPart
<1> QED BY <1>1, <1>2, <1>4 DEF LinkPart, LinkOK, LinkReportTrue

\* It reports the answer it waited for.
LEMMA LinkAddedPart == IInv /\ LinkAdded => LinkPart'
<1> SUFFICES ASSUME IInv, LinkAdded PROVE LinkPart'
  OBVIOUS
<1>1. /\ lpc = "wait" /\ lpc' = "idle" /\ lqueue' = Tail(lqueue) /\ lverdict' = lverdict
      /\ lgot' = lgot
      /\ lreport' = (IF Refused(Head(lqueue)) THEN "refused" ELSE "created")
  BY Zenon DEF LinkAdded
<1>2. /\ lqueue = <<Message("error", lverdict, <<>>)>> /\ lverdict \in Errnos \cup {0}
      /\ (lverdict # NONE => lgot = LinkMeant)
  BY <1>1, Zenon DEF IInv, LinkPart, LinkOK, Ack
<1>3. lqueue' = <<>> /\ Head(lqueue) = Message("error", lverdict, <<>>)
  BY <1>1, <1>2, Queues, Zenon
<1>4. Refused(Message("error", lverdict, <<>>)) <=> lverdict # 0
  <2>1. /\ Message("error", lverdict, <<>>).type = "error"
        /\ Message("error", lverdict, <<>>).errno = lverdict
    BY Fields
  <2> QED BY <2>1, Zenon DEF Refused
<1>5. lreport' = (IF lverdict # 0 THEN "refused" ELSE "created")
  BY <1>1, <1>3, <1>4, Zenon
<1>6. lverdict # 0 => lverdict \in Errnos
  BY <1>2
<1> QED BY <1>1, <1>2, <1>3, <1>5, <1>6 DEF LinkPart, LinkOK, LinkReportTrue

\* Every step of either process, of the kernel and of the environment keeps
\* the invariant.
LEMMA StepIInv == IInv /\ [Next]_vars => IInv'
<1> SUFFICES ASSUME IInv, [Next]_vars PROVE IInv'
  OBVIOUS
<1>0. KernelPart /\ GenlPart /\ LinkPart
  BY Zenon DEF IInv
<1>1. CASE Environment
  <2>1. KernelPart'
    BY <1>0, <1>1 DEF Environment, KernelPart
  <2> QED BY <1>0, <1>1, <2>1, Apart, Zenon DEF Environment, IInv
<1>2. CASE GenlStart
  BY <1>0, <1>2, GenlStartPart, Apart, Zenon DEF GenlStart, IInv
<1>3. CASE Resolve
  BY <1>0, <1>3, ResolvePart, Apart, Zenon DEF Resolve, IInv
<1>4. CASE Resolved
  BY <1>0, <1>4, ResolvedPart, Apart, Zenon DEF Resolved, IInv
<1>5. CASE AddFar \/ AddPdr
  BY <1>0, <1>5, AddPart, Apart, Zenon DEF AddFar, AddPdr, Command, IInv
<1>6. CASE UnknownStep
  BY <1>0, <1>6, UnknownPart, Apart, Zenon DEF UnknownStep, IInv
<1>7. CASE Commanded
  BY <1>0, <1>7, CommandedPart, Apart, Zenon DEF Commanded, IInv
<1>8. CASE Close
  BY <1>0, <1>8, ClosePart, Apart, Zenon DEF Close, IInv
<1>9. CASE LinkAdd
  BY <1>0, <1>9, LinkAddPart, Apart, Zenon DEF LinkAdd, IInv
<1>10. CASE LinkAdded
  BY <1>0, <1>10, LinkAddedPart, Apart, Zenon DEF LinkAdded, IInv
<1>11. CASE UNCHANGED vars
  <2>1. UNCHANGED gvars /\ UNCHANGED lvars /\ UNCHANGED kvars
    BY <1>11 DEF vars, gvars, lvars, kvars
  <2> QED BY <1>0, <2>1, Apart, Zenon DEF IInv
<1> QED BY <1>1, <1>2, <1>3, <1>4, <1>5, <1>6, <1>7, <1>8, <1>9, <1>10, <1>11, Zenon
        DEF Next, GenlStep

\* THE INVARIANT OF THE NETLINK CLIENTS.
THEOREM Invariance == Spec => []IInv
BY InitIInv, StepIInv, PTL DEF Spec

\* Every message either client holds is an answer of the kernel, at most two
\* of them in the socket of gtp5g_genl.py and one in that of gtp5g_link_add.py.
THEOREM TypeCorrect == Spec => []TypeOK
BY Invariance, TypeFromIInv, PTL

\* Whichever arguments add_far and add_pdr are given, the kernel's walk over
\* the bytes of the request finds exactly the attributes asked for, at every
\* level of nesting; and in the request for the device those it needs.
THEOREM RequestsUnderstood == Spec => []Understood
<1>1. IInv => Understood
  BY DEF IInv, GenlPart, LinkPart, Understood
<1> QED BY <1>1, Invariance, PTL

\* resolve_family finds the id in every answer that carries it: a module that
\* is loaded is never reported missing, and a command goes to its family.
THEOREM FamilyAlwaysFound == Spec => []FamilyFound
<1>1. IInv => FamilyFound
  BY DEF IInv, GenlPart
<1> QED BY <1>1, Invariance, PTL

\* An exception of gtp5g_genl.py means that the kernel has refused GETFAMILY or
\* the command, and a refused GETFAMILY always ends in it.
THEOREM AlarmsAreTrue == Spec => []NoFalseAlarm
<1>1. IInv => NoFalseAlarm
  BY DEF IInv, GenlPart
<1> QED BY <1>1, Invariance, PTL

\* gtp5g_link_add.py reports what the kernel answered.
THEOREM LinkReportsTrue == Spec => []LinkReportTrue
<1>1. IInv => LinkReportTrue
  BY DEF IInv, LinkPart
<1> QED BY <1>1, Invariance, PTL

=============================================================================
