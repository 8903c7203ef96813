-------------------------- MODULE ContainerProofs --------------------------
(***************************************************************************)
(* Proofs about the two containers: the linked list (LinkedList), for all     *)
(* lists, nodes, items and threads, where no list is popped from by two threads *)
(* at a time (Shared = {}: every list of the program but readySockets); and    *)
(* the lock-free queue (SPSCQueue), for every capacity and every width of its  *)
(* counters that is a multiple of it.                                         *)
(*                                                                          *)
(* What the pointers of a list say is a sequence of nodes, its chain.  The    *)
(* invariant ChainInv(q) says that q[l] is the chain of every list l that is   *)
(* followed: its nodes are distinct, each is linked to its neighbours, front   *)
(* and back are its ends, and lCount is its length, but for a node that a pop  *)
(* has unlinked and not yet counted.  HasChains says that there is such a q.   *)
(*                                                                          *)
(* That this is inductive needs what each thread relies on between its steps   *)
(* (ThreadOK): who holds a lock, that a node whose home a pop has read without *)
(* the lock is still on that list when the lock is there, and that a list is   *)
(* no shorter than what is left of a counted drain.  The last two are true     *)
(* because nobody but that thread takes nodes from the list meanwhile, which   *)
(* is an invariant too (OnePops): with two poppers they, and the theorems      *)
(* below, are false, and of readySockets nothing here is claimed.              *)
(*                                                                          *)
(* The witness q moves with each step (Moves); the refinement reads the same   *)
(* moves as steps of ListContract.                                            *)
(*                                                                          *)
(* The queue's refinement is not inductive either: that a pop finds the item    *)
(* that was pushed needs the slots of two counters less than Cap apart to be    *)
(* distinct (SlotsDiffer, where that Cap divides W is used), and needs what     *)
(* each thread knows of the other after it has looked: that the queue is not    *)
(* full (to the producer that read an old head) or not empty.  QueueInv says so. *)
(***************************************************************************)
EXTENDS LinkedList, SPSCQueue, FiniteSetTheorems, SequenceTheorems, WellFoundedInduction, TLAPS

\* The kth node of a chain; there is none before the first and after the last.
Nth(s, k) == IF k \in 1 .. Len(s) THEN s[k] ELSE None

Distinct(s) == \A j, k \in 1 .. Len(s) : s[j] = s[k] => j = k

\* The links of a chain, each by what is next to it.
Linked(s, nx, pv) ==
  \A k \in 1 .. Len(s) : nx[s[k]] = Nth(s, k + 1) /\ pv[s[k]] = Nth(s, k - 1)

Ptr == [Nodes -> Nodes \cup {None}]

-----------------------------------------------------------------------------
(* Sequences                                                                *)

LEMMA SetInduction ==
  ASSUME NEW S, 0 \in S, \A n \in Nat : n \in S => n + 1 \in S
  PROVE  \A n \in Nat : n \in S
<1> SUFFICES ASSUME NEW n \in Nat, n \notin S
             PROVE  FALSE
  OBVIOUS
<1> DEFINE T == {m \in Nat : m \notin S}
<1>1. IsWellFoundedOn(OpToRel(<, Nat), Nat)
  BY NatLessThanWellFounded, Zenon
<1>2. PICK x \in T : \A y \in T : ~ (<<y, x>> \in OpToRel(<, Nat))
  <2>1. T \subseteq Nat /\ T # {}
    OBVIOUS
  <2> QED BY <1>1, <2>1, WFMin, Zenon
<1>3. x # 0
  OBVIOUS
<1>4. x - 1 \in T
  BY <1>3
<1>5. <<x-1, x>> \in Nat \X Nat /\ x - 1 < x
  BY <1>3
<1>6. <<x-1, x>> \in OpToRel(<, Nat)
  BY <1>5 DEF OpToRel
<1>7. ~ (<<x-1, x>> \in OpToRel(<, Nat))
  BY <1>2, <1>4, Zenon
<1> QED BY <1>6, <1>7, Zenon

LEMMA AppendIs ==
  ASSUME NEW S, NEW s \in Seq(S), NEW n \in S
  PROVE  /\ Append(s, n) \in Seq(S) /\ Len(Append(s, n)) = Len(s) + 1
         /\ \A k \in 1 .. Len(s) : Append(s, n)[k] = s[k]
         /\ Append(s, n)[Len(s) + 1] = n
BY AppendProperties

LEMMA ConsIs ==
  ASSUME NEW S, NEW s \in Seq(S), NEW n \in S
  PROVE  /\ <<n>> \o s \in Seq(S) /\ Len(<<n>> \o s) = Len(s) + 1
         /\ \A k \in 1 .. Len(s) : (<<n>> \o s)[k + 1] = s[k]
         /\ (<<n>> \o s)[1] = n
<1>1. <<n>> \in Seq(S) /\ Len(<<n>>) = 1 /\ <<n>>[1] = n
  OBVIOUS
<1> QED BY <1>1, ConcatProperties

\* RemoveAt, as a function.
LEMMA RemoveAtIs ==
  ASSUME NEW S, NEW s \in Seq(S), NEW k \in 1 .. Len(s)
  PROVE  /\ RemoveAt(s, k) \in Seq(S) /\ Len(RemoveAt(s, k)) = Len(s) - 1
         /\ \A j \in 1 .. Len(s) - 1 :
              RemoveAt(s, k)[j] = IF j < k THEN s[j] ELSE s[j + 1]
<1> DEFINE a == SubSeq(s, 1, k - 1)
           b == SubSeq(s, k + 1, Len(s))
<1>0. Len(s) \in Nat
  OBVIOUS
<1>1. a \in Seq(S) /\ Len(a) = k - 1 /\ \A i \in 1 .. k - 1 : a[i] = s[i]
  BY <1>0, SubSeqProperties
<1>2. b \in Seq(S) /\ Len(b) = Len(s) - k /\ \A i \in 1 .. Len(s) - k : b[i] = s[k + i]
  BY <1>0, SubSeqProperties
<1>3. /\ a \o b \in Seq(S) /\ Len(a \o b) = Len(s) - 1
      /\ \A j \in 1 .. Len(s) - 1 : (a \o b)[j] = IF j <= k - 1 THEN a[j] ELSE b[j - (k - 1)]
  <2>1. (k - 1) + (Len(s) - k) = Len(s) - 1
    BY <1>0
  <2> HIDE DEF a, b
  <2>2. /\ a \o b \in Seq(S) /\ Len(a \o b) = Len(a) + Len(b)
        /\ \A j \in 1 .. Len(a) + Len(b) : (a \o b)[j] = IF j <= Len(a) THEN a[j] ELSE b[j - Len(a)]
    BY <1>1, <1>2, ConcatProperties
  <2> DEFINE c == a \o b
  <2> HIDE DEF c
  <2>3. /\ c \in Seq(S) /\ Len(c) = Len(a) + Len(b)
        /\ \A j \in 1 .. Len(a) + Len(b) : c[j] = IF j <= Len(a) THEN a[j] ELSE b[j - Len(a)]
    BY <2>2 DEF c
  <2>4. /\ c \in Seq(S) /\ Len(c) = Len(s) - 1
        /\ \A j \in 1 .. Len(s) - 1 : c[j] = IF j <= k - 1 THEN a[j] ELSE b[j - (k - 1)]
    BY <1>1, <1>2, <2>1, <2>3
  <2> QED BY <2>4 DEF c
<1> DEFINE c == a \o b
<1>4. ASSUME NEW j \in 1 .. Len(s) - 1
      PROVE  c[j] = IF j < k THEN s[j] ELSE s[j + 1]
  <2>0. c[j] = IF j <= k - 1 THEN a[j] ELSE b[j - (k - 1)]
    BY <1>3
  <2> HIDE DEF a, b, c
  <2>1. CASE j < k
    <3>1. j \in 1 .. k - 1
      BY <1>0, <2>1
    <3> QED BY <1>0, <1>1, <2>0, <2>1, <3>1
  <2>2. CASE j >= k
    <3>1. j - (k - 1) \in 1 .. Len(s) - k /\ k + (j - (k - 1)) = j + 1
      BY <1>0, <2>2
    <3> QED BY <1>0, <1>2, <2>0, <2>2, <3>1
  <2> QED BY <1>0, <2>1, <2>2
<1>5. RemoveAt(s, k) = a \o b
  BY DEF RemoveAt
<1> QED BY <1>3, <1>4, <1>5

-----------------------------------------------------------------------------
(* Walk                                                                     *)

\* The prefixes of a walk.
IsWalk(f, first, ptr) ==
  f = [k \in 1 .. Cardinality(Nodes) + 1 |->
         IF k = 1 THEN <<first>>
         ELSE LET s == f[k-1]
              IN IF ptr[Last(s)] = None THEN s ELSE Append(s, ptr[Last(s)])]

WalkParts(first, ptr) == CHOOSE f : IsWalk(f, first, ptr)

LEMMA WalkIsLastPart ==
  ASSUME NEW first, NEW ptr
  PROVE  Walk(first, ptr) =
           IF first = None THEN <<>> ELSE WalkParts(first, ptr)[Cardinality(Nodes) + 1]
BY DEF Walk, WalkParts, IsWalk

\* A chain of distinct nodes is no longer than there are nodes.
LEMMA DistinctIsShort ==
  ASSUME NEW s \in Seq(Nodes), Distinct(s)
  PROVE  /\ Cardinality(Nodes) \in Nat /\ Len(s) <= Cardinality(Nodes)
         /\ IsFiniteSet(ToSet(s)) /\ Cardinality(ToSet(s)) = Len(s)
<1>0. IsFiniteSet(Nodes) /\ Len(s) \in Nat
  BY NodesAssumption
<1>1. ToSet(s) \subseteq Nodes
  BY DEF ToSet
<1>2. Cardinality(ToSet(s)) = Len(s)
  <2>1. s \in Bijection(1 .. Len(s), ToSet(s))
    <3>1. DOMAIN s = 1 .. Len(s) /\ s \in [1 .. Len(s) -> ToSet(s)]
      BY <1>0 DEF ToSet
    <3>2. \A x \in ToSet(s) : \E k \in 1 .. Len(s) : s[k] = x
      BY <1>0 DEF ToSet
    <3> QED BY <3>1, <3>2 DEF Bijection, Injection, Surjection, Distinct, IsInjective
  <2>2. ExistsBijection(1 .. Len(s), ToSet(s))
    BY <2>1 DEF ExistsBijection
  <2> QED BY <1>0, <2>2, FS_CountingElements
<1> QED BY <1>0, <1>1, <1>2, FS_Subset, FS_CardinalityType

\* Walking a chain from its first node gives the chain.
LEMMA WalkIs ==
  ASSUME NEW s \in Seq(Nodes), Distinct(s), NEW ptr,
         \A k \in 1 .. Len(s) : ptr[s[k]] = Nth(s, k + 1)
  PROVE  Walk(Nth(s, 1), ptr) = s
<1> DEFINE N == Cardinality(Nodes) + 1
           first == s[1]
           Cut(k) == IF k <= Len(s) THEN k ELSE Len(s)
           g == [k \in 1 .. N |-> SubSeq(s, 1, Cut(k))]
<1>0. N \in Nat /\ N >= 1 /\ Len(s) \in Nat /\ Len(s) < N
  BY DistinctIsShort
<1>a. CASE s = <<>>
  <2>1. Nth(s, 1) = None
    BY <1>a DEF Nth
  <2> QED BY <1>a, <2>1, WalkIsLastPart
<1>b. CASE s # <<>>
  <2>0. 1 \in 1 .. Len(s) /\ Nth(s, 1) = first /\ first # None
    BY <1>0, <1>b, NodesAssumption DEF Nth
  <2>1. ASSUME NEW k \in 1 .. N
        PROVE  /\ SubSeq(s, 1, Cut(k)) \in Seq(Nodes) /\ Len(SubSeq(s, 1, Cut(k))) = Cut(k)
               /\ \A j \in 1 .. Cut(k) : SubSeq(s, 1, Cut(k))[j] = s[j]
               /\ Cut(k) \in 1 .. Len(s)
    <3>1. Cut(k) \in 1 .. Len(s)
      BY <1>0, <2>0
    <3> HIDE DEF Cut
    <3> QED BY <3>1, <1>0, SubSeqProperties
  <2>2. ASSUME NEW k \in 1 .. N - 1
        PROVE  g[k+1] = IF ptr[Last(g[k])] = None THEN g[k] ELSE Append(g[k], ptr[Last(g[k])])
    <3>1. k \in 1 .. N /\ k + 1 \in 1 .. N
      BY <1>0
    <3>2. Last(g[k]) = s[Cut(k)]
      BY <2>1, <3>1 DEF Last
    <3>3. CASE k < Len(s)
      <4>1. Cut(k) = k /\ Cut(k+1) = k + 1 /\ k + 1 \in 1 .. Len(s)
        BY <1>0, <3>3
      <4>2. ptr[Last(g[k])] = s[k+1] /\ s[k+1] # None /\ s[k+1] \in Nodes
        BY <3>2, <4>1, NodesAssumption DEF Nth
      <4>3. /\ Append(g[k], s[k+1]) \in Seq(Nodes) /\ Len(Append(g[k], s[k+1])) = k + 1
            /\ \A j \in 1 .. k : Append(g[k], s[k+1])[j] = s[j]
            /\ Append(g[k], s[k+1])[k+1] = s[k+1]
        BY <2>1, <3>1, <4>1, <4>2, AppendProperties
      <4>4. g[k+1] \in Seq(Nodes) /\ Len(g[k+1]) = k + 1 /\ \A j \in 1 .. k+1 : g[k+1][j] = s[j]
        BY <2>1, <3>1, <4>1
      <4>5. g[k+1] = Append(g[k], s[k+1])
        <5> DEFINE u == g[k+1]
                   v == Append(g[k], s[k+1])
        <5>1. u \in Seq(Nodes) /\ v \in Seq(Nodes) /\ Len(u) = k + 1 /\ Len(v) = k + 1
          BY <4>3, <4>4
        <5>2. \A j \in 1 .. k + 1 : u[j] = v[j]
          <6>1. \A j \in 1 .. k : u[j] = v[j]
            BY <3>1, <4>3, <4>4
          <6>2. u[k+1] = v[k+1]
            BY <3>1, <4>3, <4>4
          <6> HIDE DEF u, v
          <6> QED BY <6>1, <6>2
        <5> HIDE DEF u, v
        <5>3. u = v
          BY <5>1, <5>2, SeqEqual
        <5> QED BY <5>3 DEF u, v
      <4> HIDE DEF g
      <4> QED BY <4>2, <4>5
    <3>4. CASE k >= Len(s)
      <4>1. Cut(k) = Len(s) /\ Cut(k+1) = Len(s) /\ Len(s) \in 1 .. Len(s)
        BY <1>0, <2>0, <3>4
      <4>2. ptr[Last(g[k])] = None
        BY <3>2, <4>1, <1>0 DEF Nth
      <4> QED BY <4>1, <4>2, <3>1
    <3> QED BY <1>0, <3>3, <3>4
  <2>3. g[1] = <<first>>
    <3>1. 1 \in 1 .. N /\ Cut(1) = 1
      BY <1>0, <2>0
    <3>2. SubSeq(s, 1, 1) = <<s[1]>>
      <4>1. \A i \in 1 .. 1 : s[i] \in Nodes
        BY <2>0
      <4>2. /\ SubSeq(s, 1, 1) \in Seq(Nodes) /\ Len(SubSeq(s, 1, 1)) = 1
            /\ SubSeq(s, 1, 1)[1] = s[1]
        BY <4>1, SubSeqProperties
      <4>3. <<s[1]>> \in Seq(Nodes) /\ Len(<<s[1]>>) = 1 /\ <<s[1]>>[1] = s[1]
        BY <2>0
      <4> DEFINE u == SubSeq(s, 1, 1)
                 v == <<s[1]>>
      <4> HIDE DEF u, v
      <4>4. u \in Seq(Nodes) /\ v \in Seq(Nodes) /\ Len(u) = Len(v) /\ Len(u) = 1 /\ u[1] = v[1]
        <5>1. u \in Seq(Nodes) /\ Len(u) = 1 /\ u[1] = s[1]
          BY <4>2 DEF u
        <5>2. v \in Seq(Nodes) /\ Len(v) = 1 /\ v[1] = s[1]
          BY <4>3 DEF v
        <5> QED BY <5>1, <5>2
      <4>5. u = v
        <5>1. \A i \in 1 .. Len(u) : u[i] = v[i]
          BY <4>4
        <5> QED BY <4>4, <5>1, SeqEqual
      <4> QED BY <4>5 DEF u, v
    <3> QED BY <3>1, <3>2
  <2>4. IsWalk(g, first, ptr)
    <3>1. ASSUME NEW k \in 1 .. N
          PROVE  g[k] = IF k = 1 THEN <<first>>
                        ELSE LET p == g[k-1]
                             IN IF ptr[Last(p)] = None THEN p ELSE Append(p, ptr[Last(p)])
      <4>1. CASE k = 1
        BY <2>3, <4>1
      <4>2. CASE k # 1
        <5>1. k - 1 \in 1 .. N - 1 /\ (k - 1) + 1 = k
          BY <1>0, <4>2
        <5> HIDE DEF g
        <5> QED BY <2>2, <4>2, <5>1
      <4> QED BY <4>1, <4>2
    <3>2. g = [k \in 1 .. N |-> g[k]]
      OBVIOUS
    <3> HIDE DEF g
    <3> QED BY <3>1, <3>2 DEF IsWalk
  <2>5. ASSUME NEW f, IsWalk(f, first, ptr)
        PROVE  f[N] = g[N]
    <3> DEFINE S == {n \in Nat : n + 1 <= N => f[n+1] = g[n+1]}
    <3>1. \A k \in 1 .. N :
             f[k] = IF k = 1 THEN <<first>>
                    ELSE LET p == f[k-1]
                         IN IF ptr[Last(p)] = None THEN p ELSE Append(p, ptr[Last(p)])
      BY <2>5 DEF IsWalk
    <3>2. 0 \in S
      <4>1. f[1] = <<first>>
        BY <1>0, <3>1
      <4> HIDE DEF g
      <4> QED BY <2>3, <4>1
    <3>3. ASSUME NEW n \in Nat, n \in S
          PROVE  n + 1 \in S
      <4> SUFFICES ASSUME (n + 1) + 1 <= N
                   PROVE  f[(n+1)+1] = g[(n+1)+1]
        OBVIOUS
      <4>1. n + 1 \in 1 .. N - 1 /\ (n+1)+1 \in 1 .. N /\ (n+1)+1 # 1 /\ ((n+1)+1) - 1 = n + 1
        BY <1>0
      <4>2. f[n+1] = g[n+1]
        BY <3>3, <1>0, <4>1
      <4> HIDE DEF g
      <4> QED BY <2>2, <3>1, <4>1, <4>2
    <3>4. N - 1 \in S
      <4>1. N - 1 \in Nat
        BY <1>0
      <4> HIDE DEF S
      <4> QED BY <3>2, <3>3, <4>1, SetInduction
    <3> HIDE DEF g
    <3> QED BY <1>0, <3>4
  <2>6. IsWalk(WalkParts(first, ptr), first, ptr)
    <3> HIDE DEF g
    <3> QED BY <2>4 DEF WalkParts
  <2>7. WalkParts(first, ptr)[N] = g[N]
    BY <2>5, <2>6
  <2>8. g[N] = s
    <3>1. N \in 1 .. N /\ Cut(N) = Len(s)
      BY <1>0
    <3> QED BY <1>0, <2>1, <3>1, SeqEqual
  <2> HIDE DEF g
  <2> QED BY <2>0, <2>7, <2>8, WalkIsLastPart
<1> QED BY <1>a, <1>b

-----------------------------------------------------------------------------
(* Chains that grow and shrink                                              *)

\* r is s with n behind it, with n before it, and without its kth node.
Appended(s, n, r) ==
  Len(r) = Len(s) + 1 /\ r[Len(s) + 1] = n /\ \A k \in 1 .. Len(s) : r[k] = s[k]
Prepended(s, n, r) ==
  Len(r) = Len(s) + 1 /\ r[1] = n /\ \A k \in 1 .. Len(s) : r[k + 1] = s[k]
Dropped(s, k, r) ==
  /\ Len(r) = Len(s) - 1
  /\ \A j \in 1 .. Len(s) - 1 : r[j] = IF j < k THEN s[j] ELSE s[j + 1]

\* The links nx2 and pv2 are nx and pv but for n, put behind s, put before it, or taken out.
LinkedBack(s, n, nx, pv, nx2, pv2) ==
  /\ \A m \in Nodes \ {n} : nx2[m] = (IF m = Nth(s, Len(s)) THEN n ELSE nx[m])
                            /\ pv2[m] = pv[m]
  /\ nx2[n] = None /\ pv2[n] = Nth(s, Len(s))
LinkedFront(s, n, nx, pv, nx2, pv2) ==
  /\ \A m \in Nodes \ {n} : pv2[m] = (IF m = Nth(s, 1) THEN n ELSE pv[m])
                            /\ nx2[m] = nx[m]
  /\ pv2[n] = None /\ nx2[n] = Nth(s, 1)
LinkedPast(n, nx, pv, nx2, pv2) ==
  \A m \in Nodes \ {n} : nx2[m] = (IF m = pv[n] THEN nx[n] ELSE nx[m])
                          /\ pv2[m] = (IF m = nx[n] THEN pv[n] ELSE pv[m])

LEMMA NthIs ==
  ASSUME NEW s \in Seq(Nodes)
  PROVE  /\ Len(s) \in Nat
         /\ \A k \in Int : Nth(s, k) \in Nodes \cup {None}
         /\ \A k \in 1 .. Len(s) : Nth(s, k) = s[k] /\ s[k] \in Nodes /\ s[k] # None
         /\ \A k \in Int : k \notin 1 .. Len(s) => Nth(s, k) = None
         /\ None \notin Nodes
BY NodesAssumption DEF Nth

LEMMA AppendLinks ==
  ASSUME NEW s \in Seq(Nodes), NEW n \in Nodes, NEW nx, NEW pv, NEW nx2, NEW pv2,
         Distinct(s), Linked(s, nx, pv),
         \A k \in 1 .. Len(s) : s[k] # n,
         LinkedBack(s, n, nx, pv, nx2, pv2), NEW r \in Seq(Nodes), Appended(s, n, r)
  PROVE  /\ Distinct(r) /\ Linked(r, nx2, pv2)
         /\ Nth(r, 1) = (IF s = <<>> THEN n ELSE Nth(s, 1)) /\ Nth(r, Len(r)) = n
<1>0. /\ Len(s) \in Nat /\ r \in Seq(Nodes) /\ Len(r) = Len(s) + 1
      /\ \A k \in 1 .. Len(s) : r[k] = s[k] /\ s[k] \in Nodes
      /\ r[Len(s) + 1] = n
  BY NthIs DEF Appended
<1> USE DEF LinkedBack
<1>1. Distinct(r)
  BY <1>0 DEF Distinct
<1>2. ASSUME NEW k \in 1 .. Len(r)
      PROVE  nx2[r[k]] = Nth(r, k + 1) /\ pv2[r[k]] = Nth(r, k - 1)
  <2>1. CASE k = Len(s) + 1
    <3>1. r[k] = n /\ Nth(r, k + 1) = None
      BY <1>0, <2>1 DEF Nth
    <3>2. Nth(r, k - 1) = Nth(s, Len(s))
      BY <1>0, <2>1 DEF Nth
    <3> QED BY <3>1, <3>2
  <2>2. CASE k = Len(s)
    <3>1. k \in 1 .. Len(s) /\ r[k] = s[k] /\ s[k] = Nth(s, Len(s)) /\ s[k] \in Nodes \ {n}
      BY <1>0, <2>2 DEF Nth
    <3>2. nx2[r[k]] = n /\ pv2[r[k]] = Nth(s, k - 1)
      BY <3>1 DEF Linked
    <3>3. Nth(r, k + 1) = n /\ Nth(r, k - 1) = Nth(s, k - 1)
      BY <1>0, <2>2, <3>1 DEF Nth
    <3> QED BY <3>2, <3>3
  <2>3. CASE k < Len(s)
    <3>1. k \in 1 .. Len(s) /\ r[k] = s[k] /\ s[k] \in Nodes \ {n}
      BY <1>0, <2>3
    <3>2. s[k] # Nth(s, Len(s))
      BY <1>0, <2>3, <3>1 DEF Nth, Distinct
    <3>3. nx2[r[k]] = Nth(s, k + 1) /\ pv2[r[k]] = Nth(s, k - 1)
      BY <3>1, <3>2 DEF Linked
    <3>4. Nth(r, k + 1) = Nth(s, k + 1) /\ Nth(r, k - 1) = Nth(s, k - 1)
      BY <1>0, <2>3, <3>1 DEF Nth
    <3> QED BY <3>3, <3>4
  <2> QED BY <1>0, <2>1, <2>2, <2>3
<1>3. Linked(r, nx2, pv2)
  BY <1>2 DEF Linked
<1>4. Nth(r, 1) = IF s = <<>> THEN n ELSE Nth(s, 1)
  BY <1>0 DEF Nth
<1>5. Nth(r, Len(r)) = n
  BY <1>0 DEF Nth
<1> QED BY <1>1, <1>3, <1>4, <1>5

LEMMA ConsLinks ==
  ASSUME NEW s \in Seq(Nodes), NEW n \in Nodes, NEW nx, NEW pv, NEW nx2, NEW pv2,
         Distinct(s), Linked(s, nx, pv),
         \A k \in 1 .. Len(s) : s[k] # n,
         LinkedFront(s, n, nx, pv, nx2, pv2), NEW r \in Seq(Nodes), Prepended(s, n, r)
  PROVE  /\ Distinct(r) /\ Linked(r, nx2, pv2)
         /\ Nth(r, 1) = n /\ Nth(r, Len(r)) = (IF s = <<>> THEN n ELSE Nth(s, Len(s)))
<1>0. /\ Len(s) \in Nat /\ r \in Seq(Nodes) /\ Len(r) = Len(s) + 1
      /\ \A k \in 1 .. Len(s) : r[k + 1] = s[k] /\ s[k] \in Nodes
      /\ r[1] = n
  BY NthIs DEF Prepended
<1> USE DEF LinkedFront
<1>a. \A k \in 1 .. Len(r) : k # 1 => k - 1 \in 1 .. Len(s) /\ r[k] = s[k-1]
  <2>1. ASSUME NEW k \in 1 .. Len(r), k # 1
        PROVE  k - 1 \in 1 .. Len(s) /\ r[k] = s[k-1]
    <3>1. k - 1 \in 1 .. Len(s) /\ (k - 1) + 1 = k
      BY <1>0, <2>1
    <3>2. r[(k - 1) + 1] = s[k - 1]
      BY <1>0, <3>1
    <3> QED BY <3>1, <3>2
  <2> QED BY <2>1
<1>1. Distinct(r)
  <2> SUFFICES ASSUME NEW j \in 1 .. Len(r), NEW k \in 1 .. Len(r), r[j] = r[k]
               PROVE  j = k
    BY DEF Distinct
  <2>1. CASE j = 1 \/ k = 1
    <3>1. ASSUME NEW i \in 1 .. Len(r), i # 1
          PROVE  r[i] # n
      <4>1. i - 1 \in 1 .. Len(s) /\ r[i] = s[i - 1]
        BY <1>a, <3>1
      <4> QED BY <4>1
    <3> HIDE DEF LinkedFront
    <3>2. CASE j = 1
      BY <1>0, <3>1, <3>2
    <3>3. CASE k = 1
      BY <1>0, <3>1, <3>3
    <3> QED BY <2>1, <3>2, <3>3
  <2>2. CASE j # 1 /\ k # 1
    <3>1. j - 1 = k - 1
      BY <1>a, <2>2 DEF Distinct
    <3> QED BY <3>1
  <2> QED BY <2>1, <2>2
<1>2. ASSUME NEW k \in 1 .. Len(r)
      PROVE  nx2[r[k]] = Nth(r, k + 1) /\ pv2[r[k]] = Nth(r, k - 1)
  <2>1. CASE k = 1
    <3>1. r[k] = n /\ Nth(r, k - 1) = None
      BY <1>0, <2>1 DEF Nth
    <3>2. Nth(r, k + 1) = Nth(s, 1)
      BY <1>0, <2>1 DEF Nth
    <3> QED BY <3>1, <3>2
  <2>2. CASE k = 2
    <3>1. 1 \in 1 .. Len(s) /\ r[k] = s[1] /\ s[1] = Nth(s, 1) /\ s[1] \in Nodes \ {n}
      BY <1>0, <1>a, <2>2 DEF Nth
    <3>2. pv2[r[k]] = n /\ nx2[r[k]] = Nth(s, 2)
      BY <3>1 DEF Linked
    <3>3. Nth(r, 3) = Nth(s, 2)
      <4>1. CASE 2 \in 1 .. Len(s)
        <5>1. 3 \in 1 .. Len(r) /\ r[2 + 1] = s[2]
          BY <1>0, <4>1
        <5> QED BY <4>1, <5>1 DEF Nth
      <4>2. CASE 2 \notin 1 .. Len(s)
        BY <1>0, <4>2 DEF Nth
      <4> QED BY <4>1, <4>2
    <3>4. Nth(r, 1) = n
      BY <1>0 DEF Nth
    <3> QED BY <2>2, <3>2, <3>3, <3>4
  <2>3. CASE k > 2
    <3>1. /\ k - 1 \in 1 .. Len(s) /\ k - 2 \in 1 .. Len(s)
          /\ r[k] = s[k-1] /\ s[k-1] \in Nodes \ {n}
      BY <1>0, <1>a, <2>3
    <3>2. s[k-1] # Nth(s, 1)
      BY <1>0, <2>3, <3>1 DEF Nth, Distinct
    <3>3. nx2[r[k]] = Nth(s, k) /\ pv2[r[k]] = Nth(s, k - 2)
      <4>1. nx[s[k-1]] = Nth(s, (k-1) + 1) /\ pv[s[k-1]] = Nth(s, (k-1) - 1)
        BY <3>1 DEF Linked
      <4>2. (k-1) + 1 = k /\ (k-1) - 1 = k - 2
        OBVIOUS
      <4> QED BY <3>1, <3>2, <4>1, <4>2
    <3>4. Nth(r, k + 1) = Nth(s, k)
      <4>1. CASE k \in 1 .. Len(s)
        <5>1. k + 1 \in 1 .. Len(r) /\ r[k + 1] = s[k]
          BY <1>0, <4>1
        <5> QED BY <4>1, <5>1 DEF Nth
      <4>2. CASE k \notin 1 .. Len(s)
        BY <1>0, <2>3, <4>2 DEF Nth
      <4> QED BY <4>1, <4>2
    <3>5. Nth(r, k - 1) = Nth(s, k - 2)
      <4>1. k - 1 \in 1 .. Len(r) /\ (k - 2) + 1 = k - 1
        BY <1>0, <2>3
      <4>2. r[k - 1] = s[k - 2]
        BY <1>0, <3>1, <4>1
      <4> QED BY <3>1, <4>1, <4>2 DEF Nth
    <3> QED BY <3>3, <3>4, <3>5
  <2> QED BY <1>0, <2>1, <2>2, <2>3
<1>3. Linked(r, nx2, pv2)
  BY <1>2 DEF Linked
<1>4. Nth(r, 1) = n
  BY <1>0 DEF Nth
<1>5. Nth(r, Len(r)) = IF s = <<>> THEN n ELSE Nth(s, Len(s))
  <2>1. CASE s = <<>>
    BY <1>0, <2>1 DEF Nth
  <2>2. CASE s # <<>>
    <3>1. Len(s) \in 1 .. Len(s) /\ Len(r) \in 1 .. Len(r)
      BY <1>0, <2>2
    <3> QED BY <1>0, <2>2, <3>1 DEF Nth
  <2> QED BY <2>1, <2>2
<1> QED BY <1>1, <1>3, <1>4, <1>5

\* Unlinking the kth node: its neighbours get each other, or the ends do.
LEMMA DropLinks ==
  ASSUME NEW s \in Seq(Nodes), NEW k \in 1 .. Len(s), NEW nx, NEW pv, NEW nx2, NEW pv2,
         Distinct(s), Linked(s, nx, pv),
         LinkedPast(s[k], nx, pv, nx2, pv2), NEW r \in Seq(Nodes), Dropped(s, k, r)
  PROVE  /\ Distinct(r) /\ Linked(r, nx2, pv2)
         /\ Nth(r, 1) = (IF pv[s[k]] = None THEN nx[s[k]] ELSE Nth(s, 1))
         /\ Nth(r, Len(r)) = (IF nx[s[k]] = None THEN pv[s[k]] ELSE Nth(s, Len(s)))
         /\ \A j \in 1 .. Len(r) : r[j] # s[k]
<1>0. /\ Len(s) \in Nat /\ r \in Seq(Nodes) /\ Len(r) = Len(s) - 1
      /\ \A j \in 1 .. Len(r) : r[j] = IF j < k THEN s[j] ELSE s[j + 1]
      /\ \A j \in 1 .. Len(s) : s[j] \in Nodes /\ s[j] # None
  BY NthIs DEF Dropped
<1> USE DEF LinkedPast
<1>1. Distinct(r)
  <2> SUFFICES ASSUME NEW i \in 1 .. Len(r), NEW j \in 1 .. Len(r), r[i] = r[j]
               PROVE  i = j
    BY DEF Distinct
  <2> DEFINE Up(x) == IF x < k THEN x ELSE x + 1
  <2>1. r[i] = s[Up(i)] /\ r[j] = s[Up(j)] /\ Up(i) \in 1 .. Len(s) /\ Up(j) \in 1 .. Len(s)
    BY <1>0
  <2>2. Up(i) = Up(j)
    <3> HIDE DEF Up
    <3>1. s[Up(i)] = s[Up(j)]
      BY <2>1
    <3> QED BY <2>1, <3>1 DEF Distinct
  <2> QED BY <2>2
<1>a. \A j \in 1 .. Len(r) : r[j] # s[k]
  BY <1>0 DEF Distinct
<1>b. nx[s[k]] = Nth(s, k + 1) /\ pv[s[k]] = Nth(s, k - 1)
  BY DEF Linked
<1>c. \A j \in Int : Nth(r, j) = IF j < k THEN Nth(s, j) ELSE Nth(s, j + 1)
  BY <1>0 DEF Nth
<1>d. \A i, j \in 1 .. Len(s) : s[i] = Nth(s, j) <=> i = j
  BY DEF Nth, Distinct
<1>2. ASSUME NEW j \in 1 .. Len(r)
      PROVE  nx2[r[j]] = Nth(r, j + 1) /\ pv2[r[j]] = Nth(r, j - 1)
  <2>0. r[j] \in Nodes \ {s[k]}
    BY <1>0, <1>a
  <2>1. CASE j < k - 1
    <3>1. j \in 1 .. Len(s) /\ r[j] = s[j] /\ j # k - 1 /\ j # k + 1 /\ k - 1 \in 1 .. Len(s)
      BY <1>0, <2>1
    <3>2. r[j] # Nth(s, k - 1)
      BY <1>d, <3>1
    <3>3. r[j] # Nth(s, k + 1)
      BY <1>0, <1>d, <3>1 DEF Nth
    <3>4. nx[s[j]] = Nth(s, j + 1) /\ pv[s[j]] = Nth(s, j - 1)
      BY <3>1 DEF Linked
    <3>5. Nth(r, j + 1) = Nth(s, j + 1) /\ Nth(r, j - 1) = Nth(s, j - 1)
      BY <1>c, <2>1
    <3> QED BY <1>b, <2>0, <3>1, <3>2, <3>3, <3>4, <3>5
  <2>2. CASE j = k - 1
    <3>1. j \in 1 .. Len(s) /\ r[j] = s[j] /\ r[j] = Nth(s, k - 1) /\ j # k + 1
      BY <1>0, <2>2 DEF Nth
    <3>3. r[j] # Nth(s, k + 1)
      BY <1>0, <1>d, <3>1 DEF Nth
    <3>4. pv[s[j]] = Nth(s, j - 1)
      BY <3>1 DEF Linked
    <3>5. Nth(r, j + 1) = Nth(s, k + 1) /\ Nth(r, j - 1) = Nth(s, j - 1)
      BY <1>c, <2>2
    <3> QED BY <1>b, <2>0, <3>1, <3>3, <3>4, <3>5
  <2>3. CASE j = k
    <3>1. j + 1 \in 1 .. Len(s) /\ r[j] = s[j + 1] /\ r[j] = Nth(s, k + 1) /\ j + 1 # k - 1
      BY <1>0, <2>3 DEF Nth
    <3>3. r[j] # Nth(s, k - 1)
      BY <1>0, <1>d, <3>1 DEF Nth
    <3>4. nx[s[j+1]] = Nth(s, (j + 1) + 1)
      BY <3>1 DEF Linked
    <3>5. Nth(r, j + 1) = Nth(s, (j + 1) + 1) /\ Nth(r, j - 1) = Nth(s, k - 1)
      BY <1>c, <2>3
    <3>6. nx2[r[j]] = nx[r[j]] /\ pv2[r[j]] = pv[s[k]]
      BY <1>b, <2>0, <3>1, <3>3
    <3> QED BY <1>b, <3>1, <3>4, <3>5, <3>6
  <2>4. CASE j > k
    <3>1. j + 1 \in 1 .. Len(s) /\ r[j] = s[j + 1] /\ j + 1 # k - 1 /\ j + 1 # k + 1
      BY <1>0, <2>4
    <3>2. r[j] # Nth(s, k - 1)
      BY <1>0, <1>d, <3>1 DEF Nth
    <3>3. r[j] # Nth(s, k + 1)
      BY <1>0, <1>d, <3>1 DEF Nth
    <3>4. nx[s[j+1]] = Nth(s, (j + 1) + 1) /\ pv[s[j+1]] = Nth(s, (j + 1) - 1)
      BY <3>1 DEF Linked
    <3>5. Nth(r, j + 1) = Nth(s, (j + 1) + 1) /\ Nth(r, j - 1) = Nth(s, (j - 1) + 1)
      BY <1>c, <2>4
    <3>6. (j - 1) + 1 = (j + 1) - 1
      OBVIOUS
    <3> QED BY <1>b, <2>0, <3>1, <3>2, <3>3, <3>4, <3>5, <3>6
  <2> QED BY <2>1, <2>2, <2>3, <2>4
<1>3. Linked(r, nx2, pv2)
  BY <1>2 DEF Linked
<1>4. Nth(r, 1) = IF pv[s[k]] = None THEN nx[s[k]] ELSE Nth(s, 1)
  <2>1. CASE k = 1
    BY <1>b, <1>c, <2>1 DEF Nth
  <2>2. CASE k > 1
    <3>1. pv[s[k]] # None
      BY <1>0, <1>b, <2>2 DEF Nth
    <3>2. Nth(r, 1) = Nth(s, 1)
      BY <1>c, <2>2
    <3> QED BY <3>1, <3>2
  <2> QED BY <2>1, <2>2
<1>5. Nth(r, Len(r)) = IF nx[s[k]] = None THEN pv[s[k]] ELSE Nth(s, Len(s))
  <2>1. CASE k = Len(s)
    <3>1. nx[s[k]] = None /\ Len(r) = k - 1
      BY <1>0, <1>b, <2>1 DEF Nth
    <3> QED BY <1>b, <1>c, <3>1
  <2>2. CASE k < Len(s)
    <3>1. nx[s[k]] # None
      BY <1>0, <1>b, <2>2 DEF Nth
    <3>2. Len(r) >= k /\ Len(r) + 1 = Len(s) /\ Len(r) \in Int
      BY <1>0, <2>2
    <3>3. ~ (Len(r) < k)
      BY <1>0, <2>2
    <3>4. Nth(r, Len(r)) = Nth(s, Len(r) + 1)
      BY <1>c, <3>2, <3>3
    <3> QED BY <3>1, <3>2, <3>4
  <2> QED BY <1>0, <2>1, <2>2
<1> QED BY <1>1, <1>3, <1>4, <1>5, <1>a

-----------------------------------------------------------------------------
(* The invariant                                                            *)

\* One thread at a time is at work on a pop of a list: what MayPop keeps up for lists
\* that are not shared.
OnePops == \A l \in Lists : \A t, u \in Threads : Popping(t, l) /\ Popping(u, l) => t = u
Single(t, l) == \A u \in Threads \ {t} : ~Popping(u, l)

LEMMA PopsAreSingle ==
  ASSUME NEW t \in Threads, NEW l \in Lists
  PROVE  /\ Shared = {} /\ MayPop(t, l) => Single(t, l)
         /\ OnePops /\ at[t] \in PopPlaces /\ call[t].list = l => Single(t, l)
BY DEF MayPop, Single, OnePops, Popping

\* A list that is followed: it has been created, and not yet ended or emptied for that.
Alive(l) == life[l] = "live" /\ ~Stale(l)

On(s, n) == \E k \in 1 .. Len(s) : s[k] = n

Stored(l) == IF l \in Owning THEN allocated ELSE Embedded

\* A push has linked the node and not yet written node->ll.
Owned(n) == \E t \in Threads : at[t] = "own" /\ call[t].node = n

\* A pop has unlinked a node and not yet counted it.
Uncounted(l) == \E t \in Threads : at[t] = "count" /\ call[t].list = l

\* s is what the pointers of l say.
Chain(l, s) ==
  /\ Distinct(s) /\ Linked(s, next, prev)
  /\ front[l] = Nth(s, 1) /\ back[l] = Nth(s, Len(s))
  /\ count[l] = Len(s) + (IF Uncounted(l) THEN 1 ELSE 0)
  /\ \A k \in 1 .. Len(s) :
       s[k] \in Stored(l) /\ home[s[k]] = (IF Owned(s[k]) THEN None ELSE l)

Chains(q) ==
  \A l \in Lists : IF Alive(l) THEN Chain(l, q[l]) ELSE q[l] = <<>> /\ count[l] <= 0

\* A node is on one list at most; an allocated one is on one, and a caller's own node
\* that is on none is blank.
NodesOK(q) ==
  /\ \A n \in Nodes, l, m \in Lists : On(q[l], n) /\ On(q[m], n) => l = m
  /\ \A n \in allocated : \E l \in Owning : On(q[l], n)
  /\ \A n \in Embedded : (\A l \in Lists : ~On(q[l], n)) =>
       next[n] = None /\ prev[n] = None /\ home[n] = None

LockPlaces == {"own", "count", "compare"}

LocksOK ==
  \A l \in Lists : lock[l] # None => at[lock[l]] \in LockPlaces /\ call[lock[l]].list = l

\* What a thread in the middle of an operation relies on.
ThreadOK(q, t) ==
  LET l == call[t].list
      n == call[t].node
      left == call[t].left
  IN
  /\ at[t] = "idle" => call[t] = NoCall
  /\ at[t] = "fault" => left = 0
  /\ at[t] \notin {"idle", "fault"} => l \in Lists /\ Alive(l)
  /\ at[t] \in LockPlaces => lock[l] = t
  /\ at[t] \in {"own", "unlink"} => n \in Nodes /\ On(q[l], n)
  /\ at[t] = "unlink" => left = 0
  /\ at[t] = "count" /\ left > 0 => Len(q[l]) >= left - 1
  /\ at[t] = "drain" => n = None /\ left > 0 /\ Len(q[l]) >= left
  /\ at[t] = "compare" => n = None \/ On(q[l], n)

Shape == [Lists -> Seq(Nodes)]
ChainInv(q) ==
  TypeOK /\ Chains(q) /\ NodesOK(q) /\ LocksOK /\ \A t \in Threads : ThreadOK(q, t)

-----------------------------------------------------------------------------
(* What holds of a chain                                                    *)

LEMMA ShapeFacts ==
  ASSUME NEW q \in Shape, NEW l \in Lists
  PROVE  /\ q[l] \in Seq(Nodes) /\ Len(q[l]) \in Nat
         /\ \A n : On(q[l], n) => n \in Nodes /\ n # None
         /\ (q[l] = <<>> <=> Len(q[l]) = 0)
         /\ \A s \in Seq(Nodes) : [q EXCEPT ![l] = s] \in Shape
                                  /\ [q EXCEPT ![l] = s][l] = s
                                  /\ \A m \in Lists \ {l} : [q EXCEPT ![l] = s][m] = q[m]
<1>1. q[l] \in Seq(Nodes)
  BY DEF Shape
<1>2. \A s \in Seq(Nodes) : [q EXCEPT ![l] = s] \in Shape
                            /\ [q EXCEPT ![l] = s][l] = s
                            /\ \A m \in Lists \ {l} : [q EXCEPT ![l] = s][m] = q[m]
  BY DEF Shape
<1>3. \A n : On(q[l], n) => n \in Nodes /\ n # None
  BY <1>1, NthIs DEF On
<1> QED BY <1>1, <1>2, <1>3

\* A list that is followed and empty has no front; a node on a list is not the end of
\* the process.
LEMMA EmptyIs ==
  ASSUME NEW q \in Shape, NEW l \in Lists, Chains(q), Alive(l)
  PROVE  /\ Chain(l, q[l]) /\ life[l] = "live"
         /\ Unlinked(l) <=> q[l] = <<>>
         /\ q[l] # <<>> => On(q[l], front[l]) /\ On(q[l], back[l]) /\ ~Nothing(l)
<1>1. Chain(l, q[l]) /\ life[l] = "live"
  BY DEF Chains, Alive
<1>2. q[l] \in Seq(Nodes) /\ Len(q[l]) \in Nat /\ (q[l] = <<>> <=> Len(q[l]) = 0)
  BY ShapeFacts
<1>3. CASE q[l] = <<>>
  <2>1. Nth(q[l], 1) = None /\ Nth(q[l], Len(q[l])) = None
    BY <1>2, <1>3 DEF Nth
  <2> QED BY <1>1, <1>3, <2>1 DEF Chain, Unlinked
<1>4. CASE q[l] # <<>>
  <2>1. 1 \in 1 .. Len(q[l]) /\ Len(q[l]) \in 1 .. Len(q[l])
    BY <1>2, <1>4
  <2>2. /\ front[l] = q[l][1] /\ back[l] = q[l][Len(q[l])] /\ front[l] # None
    <3>1. front[l] = Nth(q[l], 1) /\ back[l] = Nth(q[l], Len(q[l]))
      BY <1>1 DEF Chain
    <3> QED BY <1>2, <2>1, <3>1, NthIs
  <2>3. count[l] \in Int /\ count[l] >= 1
    <3>1. count[l] = Len(q[l]) + 1 \/ count[l] = Len(q[l]) + 0
      BY <1>1 DEF Chain, Uncounted
    <3> QED BY <1>2, <2>1, <3>1
  <2>4. On(q[l], front[l]) /\ On(q[l], back[l])
    BY <2>1, <2>2 DEF On
  <2>5. ~Unlinked(l) /\ ~Nothing(l)
    BY <2>2, <2>3 DEF Unlinked, Nothing
  <2> QED BY <1>1, <1>4, <2>4, <2>5
<1> QED BY <1>3, <1>4

\* A list with a node on it is followed.
LEMMA OnAlive ==
  ASSUME NEW q \in Shape, NEW l \in Lists, NEW n, Chains(q), On(q[l], n)
  PROVE  /\ Alive(l) /\ Chain(l, q[l]) /\ q[l] # <<>> /\ n \in Nodes /\ n \in Stored(l)
         /\ home[n] = IF Owned(n) THEN None ELSE l
<1>1. q[l] # <<>> /\ Len(q[l]) \in Nat /\ n \in Nodes
  <2>1. Len(q[l]) # 0
    BY ShapeFacts DEF On
  <2> QED BY <2>1, ShapeFacts
<1>2. Alive(l)
  BY <1>1 DEF Chains
<1>3. Chain(l, q[l])
  BY <1>2 DEF Chains
<1> QED BY <1>1, <1>2, <1>3 DEF Chain, On

\* A chain that is left alone.
LEMMA ChainStays ==
  ASSUME NEW m \in Lists, NEW s \in Seq(Nodes), Chain(m, s),
         front'[m] = front[m], back'[m] = back[m], count'[m] = count[m],
         Uncounted(m)' <=> Uncounted(m),
         \A x : On(s, x) =>
           /\ next'[x] = next[x] /\ prev'[x] = prev[x] /\ home'[x] = home[x]
           /\ (Owned(x)' <=> Owned(x)) /\ x \in Stored(m)'
  PROVE  Chain(m, s)'
<1>1. \A k \in 1 .. Len(s) :
        /\ next'[s[k]] = next[s[k]] /\ prev'[s[k]] = prev[s[k]] /\ home'[s[k]] = home[s[k]]
        /\ (Owned(s[k])' <=> Owned(s[k])) /\ s[k] \in Stored(m)'
  BY DEF On
<1>2. Linked(s, next, prev)'
  BY <1>1 DEF Chain, Linked
<1>3. \A k \in 1 .. Len(s) : s[k] \in Stored(m)' /\ home'[s[k]] = IF Owned(s[k])' THEN None ELSE m
  BY <1>1 DEF Chain
<1> HIDE DEF Stored, Owned, Uncounted
<1>4. /\ Distinct(s) /\ front'[m] = Nth(s, 1) /\ back'[m] = Nth(s, Len(s))
      /\ count'[m] = Len(s) + (IF Uncounted(m)' THEN 1 ELSE 0)
  BY DEF Chain
<1> QED BY <1>2, <1>3, <1>4 DEF Chain

\* Links on both sides make a list that is followed.
LEMMA ChainIsAlive ==
  ASSUME NEW l \in Lists, NEW s \in Seq(Nodes), Chain(l, s)', life'[l] = "live"
  PROVE  Alive(l)'
<1>1. Len(s) \in Nat /\ (s = <<>> <=> Len(s) = 0)
  OBVIOUS
<1>2. CASE Len(s) = 0
  <2>1. Nth(s, 1) = None /\ Nth(s, Len(s)) = None
    BY <1>2 DEF Nth
  <2> QED BY <2>1 DEF Chain, Alive, Stale, Unlinked
<1>3. CASE Len(s) > 0
  <2>1. count'[l] \in Int /\ count'[l] > 0
    <3>1. count'[l] = Len(s) + 1 \/ count'[l] = Len(s) + 0
      BY DEF Chain, Uncounted
    <3> QED BY <1>1, <1>3, <3>1
  <2> QED BY <2>1 DEF Alive, Stale
<1> QED BY <1>1, <1>2, <1>3

\* A step at one list leaves the others as they were.
LEMMA OneList ==
  ASSUME NEW q \in Shape, NEW l \in Lists, NEW s \in Seq(Nodes), Chains(q),
         life' = life, life[l] = "live", Chain(l, s)',
         \A m \in Lists \ {l} :
           /\ front'[m] = front[m] /\ back'[m] = back[m] /\ count'[m] = count[m]
           /\ (Uncounted(m)' <=> Uncounted(m)),
         \A m \in Lists \ {l} : \A x : On(q[m], x) =>
           /\ next'[x] = next[x] /\ prev'[x] = prev[x] /\ home'[x] = home[x]
           /\ (Owned(x)' <=> Owned(x)) /\ x \in Stored(m)'
  PROVE  Chains([q EXCEPT ![l] = s])' /\ \A m \in Lists : Alive(m) => Alive(m)'
<1> DEFINE r == [q EXCEPT ![l] = s]
<1>1. r[l] = s /\ \A m \in Lists \ {l} : r[m] = q[m]
  BY DEF Shape
<1> HIDE DEF r
<1>2. Alive(l)'
  BY ChainIsAlive
<1>3. ASSUME NEW m \in Lists \ {l}
      PROVE  /\ Alive(m)' <=> Alive(m)
             /\ IF Alive(m)' THEN Chain(m, r[m])' ELSE r[m] = <<>> /\ count'[m] <= 0
  <2>1. Alive(m)' <=> Alive(m)
    BY DEF Alive, Stale, Unlinked
  <2>2. CASE Alive(m)
    <3>1. Chain(m, q[m]) /\ q[m] \in Seq(Nodes)
      BY <2>2, ShapeFacts DEF Chains
    <3>2. Chain(m, q[m])'
      BY <3>1, ChainStays
    <3> QED BY <1>1, <2>1, <2>2, <3>2
  <2>3. CASE ~Alive(m)
    BY <1>1, <2>1, <2>3 DEF Chains
  <2> QED BY <2>1, <2>2, <2>3
<1>4. Chains(r)'
  BY <1>1, <1>2, <1>3 DEF Chains
<1> QED BY <1>2, <1>3, <1>4 DEF r

-----------------------------------------------------------------------------
(* What holds of the threads                                                *)

\* What another thread relies on is still there.
LEMMA OtherStays ==
  ASSUME NEW q \in Shape, NEW r \in Shape, NEW u \in Threads, TypeOK, ThreadOK(q, u),
         at'[u] = at[u], call'[u] = call[u],
         at[u] \notin {"idle", "fault"} =>
           /\ Alive(call[u].list)'
           /\ at[u] \in LockPlaces => lock'[call[u].list] = lock[call[u].list]
           /\ \A x : On(q[call[u].list], x) => On(r[call[u].list], x)
           /\ Len(r[call[u].list]) >= Len(q[call[u].list])
  PROVE  ThreadOK(r, u)'
<1> DEFINE l == call[u].list
<1>0. call[u].left \in Nat
  BY DEF TypeOK
<1>1. CASE at[u] \in {"idle", "fault"}
  BY <1>1 DEF ThreadOK, LockPlaces, PopPlaces
<1>2. CASE at[u] \notin {"idle", "fault"}
  <2>1. l \in Lists
    BY <1>2 DEF ThreadOK
  <2>2. Len(q[l]) \in Nat /\ Len(r[l]) \in Nat
    BY <2>1, ShapeFacts
  <2> HIDE DEF Alive, On
  <2>3. Alive(l)' /\ (at[u] \in LockPlaces => lock'[l] = u)
    BY <1>2, <2>1 DEF ThreadOK
  <2>4. /\ at[u] \in {"own", "unlink"} => call[u].node \in Nodes /\ On(r[l], call[u].node)
        /\ at[u] = "unlink" => call[u].left = 0
        /\ at[u] = "compare" => call[u].node = None \/ On(r[l], call[u].node)
    BY <1>2, <2>1 DEF ThreadOK
  <2>5. /\ at[u] = "count" /\ call[u].left > 0 => Len(r[l]) >= call[u].left - 1
        /\ at[u] = "drain" => /\ call[u].node = None /\ call[u].left > 0
                             /\ Len(r[l]) >= call[u].left
    BY <1>0, <1>2, <2>1, <2>2 DEF ThreadOK
  <2> HIDE DEF LockPlaces, PopPlaces
  <2> QED BY <1>2, <2>1, <2>3, <2>4, <2>5 DEF ThreadOK
<1> QED BY <1>1, <1>2

\* Whoever may take a node from a list is alone at it, but for those who wait to push.
LEMMA Alone ==
  ASSUME NEW q \in Shape, NEW t \in Threads, NEW u \in Threads \ {t}, NEW l \in Lists,
         Single(t, l), TypeOK, ThreadOK(q, u), lock[l] \in {None, t},
         at[u] \notin {"idle", "fault"}
  PROVE  call[u].list # l /\ call[u].list \in Lists
<1>1. at[u] \in LockPlaces \cup PopPlaces
  BY DEF TypeOK, Places, LockPlaces, PopPlaces
<1>2. u # None
  BY NodesAssumption
<1> SUFFICES ASSUME call[u].list = l
             PROVE  FALSE
  BY DEF ThreadOK
<1>3. CASE at[u] \in LockPlaces
  BY <1>2, <1>3 DEF ThreadOK
<1>4. CASE at[u] \in PopPlaces
  BY <1>4 DEF Single, Popping
<1> QED BY <1>1, <1>3, <1>4

\* Locks, when a thread takes one or gives it back.
LEMMA LocksStay ==
  ASSUME NEW t \in Threads, NEW l \in Lists, TypeOK, LocksOK,
         \A u \in Threads \ {t} : at'[u] = at[u] /\ call'[u] = call[u],
         \A m \in Lists \ {l} : lock'[m] = lock[m] /\ lock[m] # t,
         \/ lock'[l] = None
         \/ lock'[l] = t /\ at'[t] \in LockPlaces /\ call'[t].list = l
  PROVE  LocksOK'
<1> SUFFICES ASSUME NEW m \in Lists, lock'[m] # None
             PROVE  at'[lock'[m]] \in LockPlaces /\ call'[lock'[m]].list = m
  BY DEF LocksOK
<1>1. CASE m = l
  BY <1>1
<1>2. CASE m # l
  <2>1. lock'[m] = lock[m] /\ lock[m] \in Threads \ {t}
    BY <1>2 DEF TypeOK
  <2> QED BY <2>1 DEF LocksOK
<1> QED BY <1>1, <1>2

-----------------------------------------------------------------------------
(* Steps that change no list                                                *)

Empty == [l \in Lists |-> <<>>]

LEMMA ChainInit == ASSUME Init PROVE Empty \in Shape /\ ChainInv(Empty)
<1>1. Empty \in Shape
  BY DEF Empty, Shape
<1>2. TypeOK
  BY DEF Init, TypeOK, Places, NoCall
<1>3. Chains(Empty)
  BY DEF Init, Chains, Alive, Empty
<1>4. NodesOK(Empty)
  <2>1. \A l \in Lists : Empty[l] = <<>>
    BY DEF Empty
  <2>2. \A n, l : l \in Lists => ~On(Empty[l], n)
    BY <2>1 DEF On
  <2> QED BY <2>2, CallersAssumption DEF Init, NodesOK
<1>5. LocksOK /\ \A t \in Threads : ThreadOK(Empty, t)
  BY DEF Init, LocksOK, ThreadOK, LockPlaces, PopPlaces
<1> QED BY <1>1, <1>2, <1>3, <1>4, <1>5 DEF ChainInv

\* Only the place of one thread changes, and a lock.
LEMMA QuietStep ==
  ASSUME NEW q \in Shape, NEW t \in Threads, ChainInv(q),
         UNCHANGED <<nodeVars, listVars>>,
         at[t] \notin {"own", "count"}, at'[t] \notin {"own", "count"},
         \A u \in Threads \ {t} : at'[u] = at[u] /\ call'[u] = call[u],
         \A u \in Threads \ {t}, l \in Lists : lock[l] = u => lock'[l] = u,
         TypeOK', LocksOK', ThreadOK(q, t)'
  PROVE  ChainInv(q)' /\ \A l \in Lists : Alive(l)' <=> Alive(l)
<1>0. TypeOK /\ Chains(q) /\ NodesOK(q) /\ \A u \in Threads : ThreadOK(q, u)
  BY DEF ChainInv
<1>1. \A x : Owned(x)' <=> Owned(x)
  BY DEF Owned
<1>2. \A l : Uncounted(l)' <=> Uncounted(l)
  BY DEF Uncounted
<1>3. \A l \in Lists : Alive(l)' <=> Alive(l)
  BY DEF Alive, Stale, Unlinked, listVars
<1>4. Chains(q)'
  <2> SUFFICES ASSUME NEW l \in Lists
               PROVE  IF Alive(l)' THEN Chain(l, q[l])' ELSE q[l] = <<>> /\ count'[l] <= 0
    BY DEF Chains
  <2>1. CASE Alive(l)
    <3>1. Chain(l, q[l]) /\ q[l] \in Seq(Nodes)
      BY <1>0, <2>1, ShapeFacts DEF Chains
    <3>2. \A x : On(q[l], x) => x \in Stored(l)'
      BY <3>1 DEF Chain, On, Stored, nodeVars
    <3>3. /\ front' = front /\ back' = back /\ count' = count
          /\ next' = next /\ prev' = prev /\ home' = home
      BY DEF nodeVars, listVars
    <3>4. Chain(l, q[l])'
      BY <1>1, <1>2, <3>1, <3>2, <3>3, ChainStays
    <3> QED BY <1>3, <2>1, <3>4
  <2>2. CASE ~Alive(l)
    <3>1. count' = count
      BY DEF listVars
    <3> QED BY <1>0, <1>3, <2>2, <3>1 DEF Chains
  <2> QED BY <2>1, <2>2
<1>5. NodesOK(q)'
  BY <1>0 DEF NodesOK, nodeVars
<1>6. ASSUME NEW u \in Threads
      PROVE  ThreadOK(q, u)'
  <2>1. CASE u = t
    BY <2>1
  <2>2. CASE u # t
    <3>1. at[u] \notin {"idle", "fault"} =>
            /\ Alive(call[u].list)'
            /\ at[u] \in LockPlaces => lock'[call[u].list] = lock[call[u].list]
      BY <1>0, <1>3, <2>2 DEF ThreadOK
    <3>2. at[u] \notin {"idle", "fault"} => Len(q[call[u].list]) >= Len(q[call[u].list])
      BY <1>0, ShapeFacts DEF ThreadOK
    <3> HIDE DEF Alive, On
    <3> QED BY <1>0, <2>2, <3>1, <3>2, OtherStays
  <2> QED BY <2>1, <2>2
<1> QED BY <1>3, <1>4, <1>5, <1>6 DEF ChainInv

-----------------------------------------------------------------------------
(* A push                                                                   *)

\* A node that may be pushed is on no list, and its links are what a fresh node's are.
LEMMA FreeNode ==
  ASSUME NEW q \in Shape, ChainInv(q), NEW l \in Lists, NEW n, Pushable(l, n)
  PROVE  /\ n \in Nodes /\ ~Owned(n)
         /\ \A m \in Lists : ~On(q[m], n)
         /\ n \in Embedded => l \notin Owning /\ next[n] = None /\ prev[n] = None /\ home[n] = None
         /\ n \notin Embedded => l \in Owning
         /\ n \notin allocated
<1>0. TypeOK /\ Chains(q) /\ NodesOK(q) /\ allocated \subseteq Nodes \ Embedded
  BY DEF ChainInv, TypeOK
<1>1. n \in Nodes /\ n \notin allocated /\ (n \in Embedded <=> l \notin Owning)
  BY <1>0, CallersAssumption DEF Pushable
<1>2. ~Owned(n)
  BY DEF Pushable, InHand, Owned
<1>3. ASSUME NEW m \in Lists, On(q[m], n)
      PROVE  FALSE
  <2>1. n \in Stored(m) /\ home[n] = m
    BY <1>0, <1>2, <1>3, OnAlive
  <2>2. n \in Embedded
    BY <1>1, <2>1 DEF Stored
  <2>3. home[n] = None
    BY <1>1, <2>2 DEF Pushable
  <2> QED BY <2>1, <2>3, NodesAssumption
<1>4. n \in Embedded => next[n] = None /\ prev[n] = None /\ home[n] = None
  BY <1>0, <1>3 DEF NodesOK
<1> QED BY <1>1, <1>2, <1>3, <1>4

LEMMA FreshIs ==
  ASSUME NEW ptr \in Ptr, NEW n \in Nodes, n \in Embedded => ptr[n] = None
  PROVE  /\ Fresh(ptr, n) \in Ptr /\ Fresh(ptr, n)[n] = None
         /\ \A m \in Nodes \ {n} : Fresh(ptr, n)[m] = ptr[m]
BY DEF Fresh, Ptr

\* A push, given how it links the node.
LEMMA PushStep ==
  ASSUME NEW q \in Shape, ChainInv(q), NEW t \in Threads, NEW l \in Lists, NEW n \in Nodes,
         NEW i \in Items, PushBegin(t, l, n, i),
         next' \in Ptr, prev' \in Ptr,
         front' \in [Lists -> Nodes \cup {None}], back' \in [Lists -> Nodes \cup {None}],
         \A m \in Lists \ {l} : front'[m] = front[m] /\ back'[m] = back[m],
         \A x \in Nodes : x # n /\ ~On(q[l], x) => next'[x] = next[x] /\ prev'[x] = prev[x],
         NEW s \in Seq(Nodes), Distinct(s), Linked(s, next', prev'),
         front'[l] = Nth(s, 1), back'[l] = Nth(s, Len(s)),
         Len(s) = Len(q[l]) + 1, \A x : On(s, x) <=> On(q[l], x) \/ x = n
  PROVE  ChainInv([q EXCEPT ![l] = s])'
<1> DEFINE r == [q EXCEPT ![l] = s]
<1>r. r \in Shape /\ r[l] = s /\ \A m \in Lists \ {l} : r[m] = q[m]
  BY DEF Shape
<1> HIDE DEF r
<1>0. /\ TypeOK /\ Chains(q) /\ NodesOK(q) /\ LocksOK
      /\ \A u \in Threads : ThreadOK(q, u)
  BY DEF ChainInv
<1>1. /\ at[t] = "idle" /\ life[l] = "live" /\ lock[l] = None /\ Alive(l) /\ Pushable(l, n)
      /\ item' = [item EXCEPT ![n] = i]
      /\ allocated' = IF l \in Owning THEN allocated \cup {n} ELSE allocated
      /\ lock' = [lock EXCEPT ![l] = t]
      /\ count' = [count EXCEPT ![l] = @ + 1]
      /\ home' = Fresh(home, n)
      /\ call' = [call EXCEPT ![t] = [NoCall EXCEPT !.list = l, !.node = n]]
      /\ at' = [at EXCEPT ![t] = "own"]
      /\ life' = life /\ got' = got
  BY DEF PushBegin, Calls, Usable, Alive, Goto
<1>2. /\ ~Owned(n) /\ \A m \in Lists : ~On(q[m], n)
      /\ n \in Embedded => l \notin Owning /\ home[n] = None
      /\ n \notin Embedded => l \in Owning
      /\ n \notin allocated
  BY <1>1, FreeNode
<1>3. /\ at \in [Threads -> Places] /\ lock \in [Lists -> Threads \cup {None}]
      /\ DOMAIN call = Threads /\ count \in [Lists -> Int]
      /\ home \in [Nodes -> Lists \cup {None}] /\ allocated \subseteq Nodes \ Embedded
  BY <1>0 DEF TypeOK
<1>4. /\ at'[t] = "own" /\ call'[t].list = l /\ call'[t].node = n /\ call'[t].left = 0
      /\ \A u \in Threads \ {t} : at'[u] = at[u] /\ call'[u] = call[u]
  BY <1>1, <1>3 DEF NoCall
<1>5. \A x : Owned(x)' <=> Owned(x) \/ x = n
  BY <1>1, <1>4 DEF Owned
<1>6. \A m : Uncounted(m)' <=> Uncounted(m)
  BY <1>1, <1>4 DEF Uncounted
<1>7. /\ home'[n] = None /\ \A x \in Nodes \ {n} : home'[x] = home[x]
      /\ home' \in [Nodes -> Lists \cup {None}]
  BY <1>1, <1>2, <1>3 DEF Fresh
<1>8. Chain(l, q[l]) /\ Len(q[l]) \in Nat /\ \A x : On(q[l], x) => x \in Nodes
  BY <1>0, <1>1, EmptyIs, ShapeFacts
<1>9. Chain(l, s)'
  <2>1. count'[l] = Len(s) + IF Uncounted(l)' THEN 1 ELSE 0
    <3>1. count[l] = Len(q[l]) + IF Uncounted(l) THEN 1 ELSE 0
      BY <1>8 DEF Chain
    <3>2. count'[l] = count[l] + 1
      BY <1>1, <1>3
    <3>3. CASE Uncounted(l)
      BY <1>6, <1>8, <3>1, <3>2, <3>3 DEF Uncounted
    <3>4. CASE ~Uncounted(l)
      <4>1. count[l] = Len(q[l]) + 0 /\ ~Uncounted(l)'
        BY <1>6, <3>1, <3>4 DEF Uncounted
      <4> HIDE DEF Uncounted
      <4> QED BY <1>8, <3>2, <4>1
    <3> QED BY <3>3, <3>4
  <2>2. ASSUME NEW x, On(s, x)
        PROVE  x \in Stored(l)' /\ home'[x] = IF Owned(x)' THEN None ELSE l
    <3>1. CASE x = n
      BY <1>1, <1>2, <1>5, <1>7, <3>1 DEF Stored
    <3>2. CASE x # n
      <4>1. On(q[l], x) /\ x \in Nodes
        BY <1>8, <2>2, <3>2
      <4>2. x \in Stored(l) /\ home[x] = IF Owned(x) THEN None ELSE l
        BY <1>8, <4>1 DEF Chain, On
      <4>3. (Owned(x)' <=> Owned(x)) /\ home'[x] = home[x]
        BY <1>5, <1>7, <3>2, <4>1
      <4>4. x \in Stored(l)'
        BY <1>1, <4>2 DEF Stored
      <4> HIDE DEF Owned, Stored
      <4> QED BY <4>2, <4>3, <4>4
    <3> QED BY <3>1, <3>2
  <2>3. \A k \in 1 .. Len(s) :
           s[k] \in Stored(l)' /\ home'[s[k]] = IF Owned(s[k])' THEN None ELSE l
    <3>1. \A k \in 1 .. Len(s) : On(s, s[k])
      BY DEF On
    <3> HIDE DEF Stored, Owned, On
    <3> QED BY <2>2, <3>1
  <2> HIDE DEF Stored, Owned, Uncounted
  <2> QED BY <2>1, <2>3 DEF Chain
<1>10. Chains(r)' /\ \A m \in Lists : Alive(m) => Alive(m)'
  <2>1. \A m \in Lists \ {l} :
           /\ front'[m] = front[m] /\ back'[m] = back[m] /\ count'[m] = count[m]
           /\ (Uncounted(m)' <=> Uncounted(m))
    BY <1>1, <1>3, <1>6
  <2>2. ASSUME NEW m \in Lists \ {l}, NEW x, On(q[m], x)
        PROVE  /\ next'[x] = next[x] /\ prev'[x] = prev[x] /\ home'[x] = home[x]
               /\ (Owned(x)' <=> Owned(x)) /\ x \in Stored(m)'
    <3>1. x \in Nodes /\ x \in Stored(m) /\ x # n
      BY <1>0, <1>2, <2>2, OnAlive
    <3>2. ~On(q[l], x)
      BY <1>0, <2>2, <3>1 DEF NodesOK
    <3>3. x \in Stored(m)'
      BY <1>1, <3>1 DEF Stored
    <3> QED BY <1>5, <1>7, <3>1, <3>2, <3>3
  <2> HIDE DEF Owned, Uncounted, Stored, Chain, Alive, On
  <2>3. Chains([q EXCEPT ![l] = s])' /\ \A m \in Lists : Alive(m) => Alive(m)'
    BY <1>0, <1>1, <1>9, <2>1, <2>2, OneList
  <2> QED BY <2>3 DEF r
<1>11. NodesOK(r)'
  <2>1. \A m \in Lists : \A x : On(r[m], x) <=> On(q[m], x) \/ (m = l /\ x = n)
    BY <1>r
  <2>2. \A x \in Nodes, m, p \in Lists : On(r[m], x) /\ On(r[p], x) => m = p
    <3> SUFFICES ASSUME NEW x \in Nodes, NEW m \in Lists, NEW p \in Lists,
                        On(r[m], x), On(r[p], x)
                 PROVE  m = p
      OBVIOUS
    <3>1. CASE x = n
      BY <1>2, <2>1, <3>1
    <3>2. CASE x # n
      <4>1. On(q[m], x) /\ On(q[p], x)
        BY <2>1, <3>2
      <4> HIDE DEF On
      <4> QED BY <1>0, <4>1 DEF NodesOK
    <3> QED BY <3>1, <3>2
  <2>3. \A x \in allocated' : \E m \in Owning : On(r[m], x)
    <3>1. CASE l \in Owning
      <4> SUFFICES ASSUME NEW x \in allocated \cup {n}
                   PROVE  \E m \in Owning : On(r[m], x)
        BY <1>1, <3>1
      <4>1. CASE x = n
        BY <2>1, <3>1, <4>1
      <4>2. CASE x \in allocated
        BY <1>0, <2>1, <4>2, CallersAssumption DEF NodesOK
      <4> QED BY <4>1, <4>2
    <3>2. CASE l \notin Owning
      BY <1>0, <1>1, <2>1, <3>2, CallersAssumption DEF NodesOK
    <3> QED BY <3>1, <3>2
  <2>4. ASSUME NEW x \in Embedded, \A m \in Lists : ~On(r[m], x)
        PROVE  next'[x] = None /\ prev'[x] = None /\ home'[x] = None
    <3>1. x \in Nodes /\ x # n /\ \A m \in Lists : ~On(q[m], x)
      BY <2>1, <2>4, CallersAssumption
    <3> QED BY <1>0, <1>7, <3>1 DEF NodesOK
  <2> QED BY <2>2, <2>3, <2>4 DEF NodesOK
<1>12. LocksOK'
  <2>1. \A m \in Lists \ {l} : lock'[m] = lock[m] /\ lock[m] # t
    <3>1. \A m \in Lists : lock[m] # t
      BY <1>0, <1>1, NodesAssumption DEF LocksOK, LockPlaces
    <3> QED BY <1>1, <1>3, <3>1
  <2>2. lock'[l] = t /\ at'[t] \in LockPlaces /\ call'[t].list = l
    BY <1>1, <1>3, <1>4 DEF LockPlaces
  <2> QED BY <1>0, <1>4, <2>1, <2>2, LocksStay
<1>13. ASSUME NEW u \in Threads
       PROVE  ThreadOK(r, u)'
  <2>1. CASE u = t
    <3>1. On(r[l], n) /\ Alive(l)'
      BY <1>1, <1>10, <1>r
    <3>2. lock'[l] = t
      BY <1>1, <1>3
    <3> HIDE DEF Alive, On
    <3> QED BY <1>4, <2>1, <3>1, <3>2 DEF ThreadOK, LockPlaces, PopPlaces
  <2>2. CASE u # t
    <3>1. at'[u] = at[u] /\ call'[u] = call[u] /\ ThreadOK(q, u) /\ u # None
      BY <1>0, <1>4, <2>2, NodesAssumption
    <3>2. ASSUME at[u] \notin {"idle", "fault"}
          PROVE  /\ Alive(call[u].list)'
                 /\ at[u] \in LockPlaces => lock'[call[u].list] = lock[call[u].list]
                 /\ \A x : On(q[call[u].list], x) => On(r[call[u].list], x)
                 /\ Len(r[call[u].list]) >= Len(q[call[u].list])
      <4>1. call[u].list \in Lists /\ Alive(call[u].list)
        BY <3>1, <3>2 DEF ThreadOK
      <4>2. at[u] \in LockPlaces => lock'[call[u].list] = lock[call[u].list]
        BY <1>1, <1>3, <3>1, <4>1 DEF ThreadOK
      <4>3. Len(r[call[u].list]) >= Len(q[call[u].list])
        <5>1. Len(q[call[u].list]) \in Nat
          BY <4>1, ShapeFacts
        <5> QED BY <1>r, <1>8, <4>1, <5>1
      <4>4. \A x : On(q[call[u].list], x) => On(r[call[u].list], x)
        BY <1>r, <4>1
      <4>5. Alive(call[u].list)'
        BY <1>10, <3>1, <4>1
      <4> HIDE DEF Alive, On
      <4> QED BY <4>2, <4>3, <4>4, <4>5
    <3>3. at[u] \notin {"idle", "fault"} =>
            /\ Alive(call[u].list)'
            /\ at[u] \in LockPlaces => lock'[call[u].list] = lock[call[u].list]
            /\ \A x : On(q[call[u].list], x) => On(r[call[u].list], x)
            /\ Len(r[call[u].list]) >= Len(q[call[u].list])
      BY <3>2
    <3> HIDE DEF On, Alive
    <3> QED BY <1>0, <1>r, <3>1, <3>3, OtherStays
  <2> QED BY <2>1, <2>2
<1>14. TypeOK'
  <2>1. call' \in [Threads -> [list : Lists \cup {None}, node : Nodes \cup {None},
                               item : Items \cup {None}, left : Nat]]
    BY <1>0, <1>1 DEF TypeOK, NoCall
  <2>2. allocated' \subseteq Nodes \ Embedded
    BY <1>1, <1>2, <1>3
  <2>3. /\ item' \in [Nodes -> Items \cup {None}] /\ count' \in [Lists -> Int]
        /\ lock' \in [Lists -> Threads \cup {None}] /\ at' \in [Threads -> Places]
        /\ life' \in [Lists -> {"none", "live", "gone"}] /\ got' \in [Threads -> Nodes \cup {None}]
    BY <1>0, <1>1 DEF TypeOK, Places
  <2> QED BY <1>7, <2>1, <2>2, <2>3 DEF TypeOK, Ptr
<1> QED BY <1>10, <1>11, <1>12, <1>13, <1>14 DEF ChainInv, r

LEMMA AppendedOn ==
  ASSUME NEW s \in Seq(Nodes), NEW r \in Seq(Nodes), NEW n, Appended(s, n, r)
  PROVE  \A x : On(r, x) <=> On(s, x) \/ x = n
<1>1. Len(s) \in Nat /\ Len(r) = Len(s) + 1 /\ r[Len(s) + 1] = n
      /\ \A k \in 1 .. Len(s) : r[k] = s[k]
  BY DEF Appended
<1>2. ASSUME NEW x, On(r, x)
      PROVE  On(s, x) \/ x = n
  <2>1. PICK k \in 1 .. Len(r) : r[k] = x
    BY <1>2 DEF On
  <2> QED BY <1>1, <2>1 DEF On
<1>3. ASSUME NEW x, On(s, x)
      PROVE  On(r, x)
  <2>1. PICK k \in 1 .. Len(s) : s[k] = x
    BY <1>3 DEF On
  <2>2. k \in 1 .. Len(r) /\ r[k] = x
    BY <1>1, <2>1
  <2> QED BY <2>2 DEF On
<1>4. On(r, n)
  <2>1. Len(s) + 1 \in 1 .. Len(r)
    BY <1>1
  <2> QED BY <1>1, <2>1 DEF On
<1> QED BY <1>2, <1>3, <1>4

LEMMA PrependedOn ==
  ASSUME NEW s \in Seq(Nodes), NEW r \in Seq(Nodes), NEW n, Prepended(s, n, r)
  PROVE  \A x : On(r, x) <=> On(s, x) \/ x = n
<1>1. Len(s) \in Nat /\ Len(r) = Len(s) + 1 /\ r[1] = n
      /\ \A k \in 1 .. Len(s) : r[k + 1] = s[k]
  BY DEF Prepended
<1>2. ASSUME NEW x, On(r, x)
      PROVE  On(s, x) \/ x = n
  <2>1. PICK k \in 1 .. Len(r) : r[k] = x
    BY <1>2 DEF On
  <2>2. CASE k # 1
    <3>1. k - 1 \in 1 .. Len(s) /\ (k - 1) + 1 = k
      BY <1>1, <2>2
    <3>2. r[(k - 1) + 1] = s[k - 1]
      BY <1>1, <3>1
    <3>3. s[k - 1] = x
      BY <2>1, <3>1, <3>2
    <3> QED BY <3>1, <3>3 DEF On
  <2> QED BY <1>1, <2>1, <2>2
<1>3. ASSUME NEW x, On(s, x)
      PROVE  On(r, x)
  <2>1. PICK k \in 1 .. Len(s) : s[k] = x
    BY <1>3 DEF On
  <2>2. k + 1 \in 1 .. Len(r) /\ r[k + 1] = x
    BY <1>1, <2>1
  <2> QED BY <2>2 DEF On
<1>4. On(r, n)
  <2>1. 1 \in 1 .. Len(r)
    BY <1>1
  <2> QED BY <1>1, <2>1 DEF On
<1> QED BY <1>2, <1>3, <1>4

LEMMA PushBackStep ==
  ASSUME NEW q \in Shape, ChainInv(q), NEW t \in Threads, NEW l \in Lists, NEW n \in Nodes,
         NEW i \in Items, PushBack(t, l, n, i)
  PROVE  ChainInv([q EXCEPT ![l] = Append(q[l], n)])'
<1> DEFINE s == q[l]
<1>0. /\ TypeOK /\ Chains(q) /\ PushBegin(t, l, n, i) /\ Alive(l) /\ Pushable(l, n)
      /\ back' = [back EXCEPT ![l] = n]
  BY DEF ChainInv, PushBack, PushBegin, Calls, Usable, Alive
<1>1. /\ s \in Seq(Nodes) /\ Chain(l, s) /\ (Unlinked(l) <=> s = <<>>)
      /\ s # <<>> => On(s, back[l])
  BY <1>0, ShapeFacts, EmptyIs
<1>2. /\ next \in Ptr /\ prev \in Ptr /\ front \in [Lists -> Nodes \cup {None}]
      /\ back \in [Lists -> Nodes \cup {None}]
  BY <1>0 DEF TypeOK, Ptr
<1>3. ~On(s, n) /\ (n \in Embedded => next[n] = None /\ prev[n] = None)
  BY <1>0, FreeNode
<1>4. /\ Fresh(next, n) \in Ptr /\ Fresh(next, n)[n] = None
      /\ \A m \in Nodes \ {n} : Fresh(next, n)[m] = next[m]
  BY <1>2, <1>3, FreshIs
<1>5. /\ Fresh(prev, n) \in Ptr /\ Fresh(prev, n)[n] = None
      /\ \A m \in Nodes \ {n} : Fresh(prev, n)[m] = prev[m]
  BY <1>2, <1>3, FreshIs
<1>6. Distinct(s) /\ Linked(s, next, prev) /\ front[l] = Nth(s, 1) /\ back[l] = Nth(s, Len(s))
  BY <1>1 DEF Chain
<1>7. /\ \A k \in 1 .. Len(s) : s[k] # n
      /\ s = <<>> => Nth(s, Len(s)) = None
      /\ s # <<>> => back[l] \in Nodes /\ back[l] # n
  <2>1. \A k \in 1 .. Len(s) : s[k] # n
    BY <1>3 DEF On
  <2>2. s = <<>> => Nth(s, Len(s)) = None
    BY DEF Nth
  <2>3. s # <<>> => back[l] \in Nodes /\ back[l] # n
    BY <1>1, <1>3, ShapeFacts
  <2> QED BY <2>1, <2>2, <2>3
<1>8. /\ \A m \in Nodes \ {n} : next'[m] = (IF m = Nth(s, Len(s)) THEN n ELSE next[m])
                                /\ prev'[m] = prev[m]
      /\ next'[n] = None /\ prev'[n] = Nth(s, Len(s))
      /\ next' \in Ptr /\ prev' \in Ptr
      /\ front'[l] = (IF s = <<>> THEN n ELSE Nth(s, 1))
      /\ \A m \in Lists \ {l} : front'[m] = front[m]
      /\ front' \in [Lists -> Nodes \cup {None}]
  <2> HIDE DEF s
  <2>1. CASE s = <<>>
    <3>1. front' = [front EXCEPT ![l] = n] /\ next' = Fresh(next, n) /\ prev' = Fresh(prev, n)
      BY <1>1, <2>1 DEF PushBack
    <3>2. Nth(s, Len(s)) = None /\ None \notin Nodes
      BY <1>7, <2>1, NodesAssumption
    <3> QED BY <1>2, <1>4, <1>5, <2>1, <3>1, <3>2
  <2>2. CASE s # <<>>
    <3>1. /\ front' = front
          /\ next' = [Fresh(next, n) EXCEPT ![back[l]] = n]
          /\ prev' = [Fresh(prev, n) EXCEPT ![n] = back[l]]
      BY <1>1, <2>2 DEF PushBack
    <3>2. back[l] \in Nodes /\ back[l] # n /\ back[l] = Nth(s, Len(s)) /\ front[l] = Nth(s, 1)
      BY <1>6, <1>7, <2>2
    <3>3. next' \in Ptr /\ prev' \in Ptr
      BY <1>4, <1>5, <3>1, <3>2 DEF Ptr
    <3>4. /\ next'[n] = None /\ prev'[n] = back[l]
          /\ \A m \in Nodes \ {n} : next'[m] = (IF m = back[l] THEN n ELSE next[m])
                                    /\ prev'[m] = prev[m]
      BY <1>4, <1>5, <3>1, <3>2 DEF Ptr
    <3> QED BY <1>2, <2>2, <3>1, <3>2, <3>3, <3>4
  <2> QED BY <2>1, <2>2
<1> DEFINE r == Append(q[l], n)
<1>a. /\ r \in Seq(Nodes) /\ Len(r) = Len(s) + 1 /\ Len(s) \in Nat
      /\ \A k \in 1 .. Len(s) : r[k] = s[k]
      /\ r[Len(s) + 1] = n
  BY <1>1, AppendIs
<1> HIDE DEF r, s
<1>9. /\ Distinct(r) /\ Linked(r, next', prev')
      /\ Nth(r, 1) = (IF s = <<>> THEN n ELSE Nth(s, 1)) /\ Nth(r, Len(r)) = n
  <2>1. LinkedBack(s, n, next, prev, next', prev') /\ Appended(s, n, r)
    BY <1>8, <1>a DEF LinkedBack, Appended
  <2> QED BY <1>1, <1>6, <1>7, <1>a, <2>1, AppendLinks
<1>11. \A x : On(r, x) <=> On(s, x) \/ x = n
  <2>1. Appended(s, n, r)
    BY <1>a DEF Appended
  <2> QED BY <1>1, <1>a, <2>1, AppendedOn
<1>12. \A x \in Nodes : x # n /\ ~On(s, x) => next'[x] = next[x] /\ prev'[x] = prev[x]
  <2>1. \A x \in Nodes : x = Nth(s, Len(s)) => On(s, x)
    BY NodesAssumption DEF Nth, On
  <2> QED BY <1>8, <2>1
<1>13. /\ back'[l] = Nth(r, Len(r)) /\ front'[l] = Nth(r, 1)
       /\ \A m \in Lists \ {l} : front'[m] = front[m] /\ back'[m] = back[m]
       /\ front' \in [Lists -> Nodes \cup {None}]
       /\ back' \in [Lists -> Nodes \cup {None}]
       /\ next' \in Ptr /\ prev' \in Ptr
  BY <1>0, <1>2, <1>8, <1>9
<1> USE DEF s
<1> HIDE DEF ChainInv, PushBegin, Distinct, Linked, On, Shape
<1>14. ChainInv([q EXCEPT ![l] = r])'
  BY <1>0, <1>9, <1>a, <1>11, <1>12, <1>13, PushStep
<1> QED BY <1>14 DEF r

LEMMA PushFrontStep ==
  ASSUME NEW q \in Shape, ChainInv(q), NEW t \in Threads, NEW l \in Lists, NEW n \in Nodes,
         NEW i \in Items, PushFront(t, l, n, i)
  PROVE  ChainInv([q EXCEPT ![l] = <<n>> \o q[l]])'
<1> DEFINE s == q[l]
<1>0. /\ TypeOK /\ Chains(q) /\ PushBegin(t, l, n, i) /\ Alive(l) /\ Pushable(l, n)
      /\ front' = [front EXCEPT ![l] = n]
  BY DEF ChainInv, PushFront, PushBegin, Calls, Usable, Alive
<1>1. /\ s \in Seq(Nodes) /\ Chain(l, s) /\ (Unlinked(l) <=> s = <<>>)
      /\ s # <<>> => On(s, front[l])
  BY <1>0, ShapeFacts, EmptyIs
<1>2. /\ next \in Ptr /\ prev \in Ptr /\ front \in [Lists -> Nodes \cup {None}]
      /\ back \in [Lists -> Nodes \cup {None}]
  BY <1>0 DEF TypeOK, Ptr
<1>3. ~On(s, n) /\ (n \in Embedded => next[n] = None /\ prev[n] = None)
  BY <1>0, FreeNode
<1>4. /\ Fresh(next, n) \in Ptr /\ Fresh(next, n)[n] = None
      /\ \A m \in Nodes \ {n} : Fresh(next, n)[m] = next[m]
  BY <1>2, <1>3, FreshIs
<1>5. /\ Fresh(prev, n) \in Ptr /\ Fresh(prev, n)[n] = None
      /\ \A m \in Nodes \ {n} : Fresh(prev, n)[m] = prev[m]
  BY <1>2, <1>3, FreshIs
<1>6. Distinct(s) /\ Linked(s, next, prev) /\ front[l] = Nth(s, 1) /\ back[l] = Nth(s, Len(s))
  BY <1>1 DEF Chain
<1>7. /\ \A k \in 1 .. Len(s) : s[k] # n
      /\ s = <<>> => Nth(s, 1) = None
      /\ s # <<>> => front[l] \in Nodes /\ front[l] # n
  <2>1. \A k \in 1 .. Len(s) : s[k] # n
    BY <1>3 DEF On
  <2>2. s = <<>> => Nth(s, 1) = None
    BY DEF Nth
  <2>3. s # <<>> => front[l] \in Nodes /\ front[l] # n
    BY <1>1, <1>3, ShapeFacts
  <2> QED BY <2>1, <2>2, <2>3
<1>8. /\ \A m \in Nodes \ {n} : prev'[m] = (IF m = Nth(s, 1) THEN n ELSE prev[m])
                                /\ next'[m] = next[m]
      /\ prev'[n] = None /\ next'[n] = Nth(s, 1)
      /\ next' \in Ptr /\ prev' \in Ptr
      /\ back'[l] = (IF s = <<>> THEN n ELSE Nth(s, Len(s)))
      /\ \A m \in Lists \ {l} : back'[m] = back[m]
      /\ back' \in [Lists -> Nodes \cup {None}]
  <2> HIDE DEF s
  <2>1. CASE s = <<>>
    <3>1. back' = [back EXCEPT ![l] = n] /\ next' = Fresh(next, n) /\ prev' = Fresh(prev, n)
      BY <1>1, <2>1 DEF PushFront
    <3>2. Nth(s, 1) = None /\ None \notin Nodes
      BY <1>7, <2>1, NodesAssumption
    <3> QED BY <1>2, <1>4, <1>5, <2>1, <3>1, <3>2
  <2>2. CASE s # <<>>
    <3>1. /\ back' = back
          /\ prev' = [Fresh(prev, n) EXCEPT ![front[l]] = n]
          /\ next' = [Fresh(next, n) EXCEPT ![n] = front[l]]
      BY <1>1, <2>2 DEF PushFront
    <3>2. front[l] \in Nodes /\ front[l] # n /\ front[l] = Nth(s, 1) /\ back[l] = Nth(s, Len(s))
      BY <1>6, <1>7, <2>2
    <3>3. next' \in Ptr /\ prev' \in Ptr
      BY <1>4, <1>5, <3>1, <3>2 DEF Ptr
    <3>4. /\ prev'[n] = None /\ next'[n] = front[l]
          /\ \A m \in Nodes \ {n} : prev'[m] = (IF m = front[l] THEN n ELSE prev[m])
                                    /\ next'[m] = next[m]
      BY <1>4, <1>5, <3>1, <3>2 DEF Ptr
    <3> QED BY <1>2, <2>2, <3>1, <3>2, <3>3, <3>4
  <2> QED BY <2>1, <2>2
<1> DEFINE r == <<n>> \o q[l]
<1>a. /\ r \in Seq(Nodes) /\ Len(r) = Len(s) + 1 /\ Len(s) \in Nat
      /\ \A k \in 1 .. Len(s) : r[k + 1] = s[k]
      /\ r[1] = n
  BY <1>1, ConsIs
<1> HIDE DEF r, s
<1>9. /\ Distinct(r) /\ Linked(r, next', prev')
      /\ Nth(r, 1) = n /\ Nth(r, Len(r)) = (IF s = <<>> THEN n ELSE Nth(s, Len(s)))
  <2>1. LinkedFront(s, n, next, prev, next', prev') /\ Prepended(s, n, r)
    BY <1>8, <1>a DEF LinkedFront, Prepended
  <2> QED BY <1>1, <1>6, <1>7, <1>a, <2>1, ConsLinks
<1>11. \A x : On(r, x) <=> On(s, x) \/ x = n
  <2>1. Prepended(s, n, r)
    BY <1>a DEF Prepended
  <2> QED BY <1>1, <1>a, <2>1, PrependedOn
<1>12. \A x \in Nodes : x # n /\ ~On(s, x) => next'[x] = next[x] /\ prev'[x] = prev[x]
  <2>1. \A x \in Nodes : x = Nth(s, 1) => On(s, x)
    BY NodesAssumption DEF Nth, On
  <2> QED BY <1>8, <2>1
<1>13. /\ back'[l] = Nth(r, Len(r)) /\ front'[l] = Nth(r, 1)
       /\ \A m \in Lists \ {l} : front'[m] = front[m] /\ back'[m] = back[m]
       /\ front' \in [Lists -> Nodes \cup {None}]
       /\ back' \in [Lists -> Nodes \cup {None}]
       /\ next' \in Ptr /\ prev' \in Ptr
  BY <1>0, <1>2, <1>8, <1>9
<1> USE DEF s
<1> HIDE DEF ChainInv, PushBegin, Distinct, Linked, On, Shape
<1>14. ChainInv([q EXCEPT ![l] = r])'
  BY <1>0, <1>9, <1>a, <1>11, <1>12, <1>13, PushStep
<1> QED BY <1>14 DEF r

\* The node says where it is, and the lock is given back.
LEMMA PushOwnStep ==
  ASSUME NEW q \in Shape, ChainInv(q), NEW t \in Threads, PushOwn(t)
  PROVE  ChainInv(q)'
<1> DEFINE l == call[t].list
           n == call[t].node
<1>0. /\ TypeOK /\ Chains(q) /\ NodesOK(q) /\ LocksOK
      /\ \A u \in Threads : ThreadOK(q, u)
  BY DEF ChainInv
<1>1. /\ at[t] = "own" /\ home' = [home EXCEPT ![n] = l] /\ lock' = [lock EXCEPT ![l] = None]
      /\ at' = [at EXCEPT ![t] = "idle"] /\ call' = [call EXCEPT ![t] = NoCall]
      /\ UNCHANGED <<next, prev, item, allocated, listVars, got>>
  BY DEF PushOwn, Return, Goto
<1>2. /\ l \in Lists /\ Alive(l) /\ lock[l] = t /\ n \in Nodes /\ On(q[l], n)
  BY <1>0, <1>1 DEF ThreadOK, LockPlaces
<1>3. /\ at \in [Threads -> Places] /\ lock \in [Lists -> Threads \cup {None}]
      /\ DOMAIN call = Threads /\ home \in [Nodes -> Lists \cup {None}]
  BY <1>0 DEF TypeOK
<1>4. /\ at'[t] = "idle" /\ call'[t] = NoCall
      /\ \A u \in Threads \ {t} : at'[u] = at[u] /\ call'[u] = call[u]
  BY <1>1, <1>3
<1>5. ASSUME NEW u \in Threads, at[u] = "own", call[u].node = n
      PROVE  u = t
  <2>1. call[u].list \in Lists /\ lock[call[u].list] = u /\ On(q[call[u].list], n)
    BY <1>0, <1>5 DEF ThreadOK, LockPlaces
  <2>2. call[u].list = l
    BY <1>0, <1>2, <2>1 DEF NodesOK
  <2> QED BY <1>2, <2>1, <2>2
<1>6. \A x : Owned(x)' <=> Owned(x) /\ x # n
  BY <1>1, <1>4, <1>5 DEF Owned
<1>7. \A m : Uncounted(m)' <=> Uncounted(m)
  BY <1>1, <1>4 DEF Uncounted
<1>8. home'[n] = l /\ (\A x \in Nodes \ {n} : home'[x] = home[x])
  BY <1>1, <1>2, <1>3
<1> HIDE DEF l, n
<1>9. /\ front' = front /\ back' = back /\ count' = count /\ life' = life
      /\ next' = next /\ prev' = prev /\ allocated' = allocated
  BY <1>1 DEF listVars
<1>a. \A m \in Lists : Alive(m)' <=> Alive(m)
  BY <1>9 DEF Alive, Stale, Unlinked
<1>10. ASSUME NEW m \in Lists, Alive(m)
       PROVE  Chain(m, q[m])'
  <2>1. Chain(m, q[m])
    BY <1>0, <1>10 DEF Chains
  <2>2. ASSUME NEW x, On(q[m], x)
        PROVE  x \in Stored(m)' /\ home'[x] = IF Owned(x)' THEN None ELSE m
    <3>1. x \in Nodes /\ x \in Stored(m) /\ home[x] = IF Owned(x) THEN None ELSE m
      BY <1>0, <2>2, OnAlive
    <3>2. x \in Stored(m)'
      BY <1>9, <3>1 DEF Stored
    <3>3. CASE x = n
      <4>1. m = l
        BY <1>0, <1>2, <2>2, <3>3 DEF NodesOK
      <4>2. ~Owned(x)'
        BY <1>6, <3>3
      <4> HIDE DEF Owned
      <4> QED BY <1>8, <3>2, <3>3, <4>1, <4>2
    <3>4. CASE x # n
      <4>1. (Owned(x)' <=> Owned(x)) /\ home'[x] = home[x]
        BY <1>6, <1>8, <3>1, <3>4
      <4> QED BY <3>1, <3>2, <4>1 DEF Owned
    <3> QED BY <3>3, <3>4
  <2>3. \A k \in 1 .. Len(q[m]) :
          q[m][k] \in Stored(m)' /\ home'[q[m][k]] = IF Owned(q[m][k])' THEN None ELSE m
    <3>1. \A k \in 1 .. Len(q[m]) : On(q[m], q[m][k])
      BY DEF On
    <3> HIDE DEF Stored, Owned, On
    <3> QED BY <2>2, <3>1
  <2>4. count'[m] = Len(q[m]) + IF Uncounted(m)' THEN 1 ELSE 0
    BY <1>7, <1>9, <2>1 DEF Chain, Uncounted
  <2>5. /\ Linked(q[m], next', prev') /\ Distinct(q[m])
        /\ front'[m] = Nth(q[m], 1) /\ back'[m] = Nth(q[m], Len(q[m]))
    BY <1>9, <2>1 DEF Chain
  <2> HIDE DEF Stored, Owned, Uncounted
  <2> QED BY <2>3, <2>4, <2>5 DEF Chain
<1>11. Chains(q)'
  <2> SUFFICES ASSUME NEW m \in Lists
               PROVE  IF Alive(m)' THEN Chain(m, q[m])' ELSE q[m] = <<>> /\ count'[m] <= 0
    BY DEF Chains
  <2>1. CASE Alive(m)
    BY <1>a, <1>10, <2>1
  <2>2. CASE ~Alive(m)
    BY <1>0, <1>9, <1>a, <2>2 DEF Chains
  <2> QED BY <2>1, <2>2
<1>12. NodesOK(q)'
  <2>1. \A x \in Embedded : (\A m \in Lists : ~On(q[m], x)) =>
          next'[x] = None /\ prev'[x] = None /\ home'[x] = None
    <3>1. \A x \in Embedded : (\A m \in Lists : ~On(q[m], x)) => x \in Nodes \ {n}
      BY <1>2, CallersAssumption
    <3> QED BY <1>0, <1>8, <1>9, <3>1 DEF NodesOK
  <2> QED BY <1>0, <1>9, <2>1 DEF NodesOK
<1>13. LocksOK'
  <2>1. \A m \in Lists \ {l} : lock'[m] = lock[m] /\ lock[m] # t
    BY <1>0, <1>1, <1>3, NodesAssumption DEF LocksOK, l
  <2>2. lock'[l] = None
    BY <1>1, <1>2, <1>3 DEF l
  <2> QED BY <1>0, <1>2, <1>4, <2>1, <2>2, LocksStay
<1>14. ASSUME NEW u \in Threads
       PROVE  ThreadOK(q, u)'
  <2>1. CASE u = t
    BY <1>4, <2>1 DEF ThreadOK, NoCall, LockPlaces, PopPlaces
  <2>2. CASE u # t
    <3>1. at'[u] = at[u] /\ call'[u] = call[u] /\ ThreadOK(q, u)
      BY <1>0, <1>4, <2>2
    <3>2. ASSUME at[u] \notin {"idle", "fault"}
          PROVE  /\ Alive(call[u].list)'
                 /\ at[u] \in LockPlaces => lock'[call[u].list] = lock[call[u].list]
                 /\ Len(q[call[u].list]) >= Len(q[call[u].list])
      <4>1. call[u].list \in Lists /\ Alive(call[u].list)
        BY <3>1, <3>2 DEF ThreadOK
      <4>2. at[u] \in LockPlaces => lock'[call[u].list] = lock[call[u].list]
        <5>1. at[u] \in LockPlaces => call[u].list # l
          BY <1>2, <2>2, <3>1 DEF ThreadOK
        <5> QED BY <1>1, <1>3, <4>1, <5>1 DEF l
      <4>3. Len(q[call[u].list]) >= Len(q[call[u].list])
        BY <4>1, ShapeFacts
      <4>4. Alive(call[u].list)'
        BY <1>a, <3>1, <4>1
      <4> HIDE DEF Alive
      <4> QED BY <4>2, <4>3, <4>4
    <3>3. at[u] \notin {"idle", "fault"} =>
            /\ Alive(call[u].list)'
            /\ at[u] \in LockPlaces => lock'[call[u].list] = lock[call[u].list]
            /\ \A x : On(q[call[u].list], x) => On(q[call[u].list], x)
            /\ Len(q[call[u].list]) >= Len(q[call[u].list])
      BY <3>2
    <3> HIDE DEF On, Alive
    <3> QED BY <1>0, <3>1, <3>3, OtherStays
  <2> QED BY <2>1, <2>2
<1>15. TypeOK'
  <2>1. home' \in [Nodes -> Lists \cup {None}]
    BY <1>1, <1>2, <1>3
  <2>2. /\ lock' \in [Lists -> Threads \cup {None}] /\ at' \in [Threads -> Places]
        /\ call' \in [Threads -> [list : Lists \cup {None}, node : Nodes \cup {None},
                                  item : Items \cup {None}, left : Nat]]
    BY <1>0, <1>1 DEF TypeOK, NoCall, Places
  <2> QED BY <1>0, <1>1, <1>9, <2>1, <2>2 DEF TypeOK
<1> QED BY <1>11, <1>12, <1>13, <1>14, <1>15 DEF ChainInv

-----------------------------------------------------------------------------
(* Steps that only move a thread                                            *)

\* The types, when a thread moves.
LEMMA MoveTypes ==
  ASSUME NEW t \in Threads, TypeOK, UNCHANGED <<nodeVars, listVars, got>>,
         NEW p \in Places, at' = [at EXCEPT ![t] = p],
         NEW c \in [list : Lists \cup {None}, node : Nodes \cup {None},
                    item : Items \cup {None}, left : Nat],
         call' = [call EXCEPT ![t] = c],
         lock' \in [Lists -> Threads \cup {None}]
  PROVE  /\ TypeOK' /\ at'[t] = p /\ call'[t] = c
         /\ \A u \in Threads \ {t} : at'[u] = at[u] /\ call'[u] = call[u]
<1>1. at' \in [Threads -> Places] /\ at'[t] = p /\ \A u \in Threads \ {t} : at'[u] = at[u]
  BY DEF TypeOK
<1>2. /\ call' \in [Threads -> [list : Lists \cup {None}, node : Nodes \cup {None},
                                item : Items \cup {None}, left : Nat]]
      /\ call'[t] = c /\ \A u \in Threads \ {t} : call'[u] = call[u]
  BY DEF TypeOK
<1>3. TypeOK'
  BY <1>1, <1>2 DEF TypeOK, nodeVars, listVars
<1> QED BY <1>1, <1>2, <1>3

\* ... without a lock.
LEMMA MoveStep ==
  ASSUME NEW q \in Shape, NEW t \in Threads, ChainInv(q),
         UNCHANGED <<nodeVars, listVars, got, lock>>,
         NEW p \in Places \ {"own", "count", "compare"}, at' = [at EXCEPT ![t] = p],
         NEW c \in [list : Lists \cup {None}, node : Nodes \cup {None},
                    item : Items \cup {None}, left : Nat],
         call' = [call EXCEPT ![t] = c],
         at[t] \notin {"own", "count", "compare"},
         p = "idle" => c = NoCall,
         p = "fault" => c.left = 0,
         p \in {"unlink", "drain"} =>
           c.list \in Lists /\ Alive(c.list),
         p = "unlink" => c.node \in Nodes /\ On(q[c.list], c.node) /\ c.left = 0,
         p = "drain" => c.node = None /\ c.left > 0 /\ Len(q[c.list]) >= c.left
  PROVE  ChainInv(q)'
<1>0. TypeOK /\ LocksOK /\ \A u \in Threads : ThreadOK(q, u)
  BY DEF ChainInv
<1>1. /\ TypeOK' /\ at'[t] = p /\ call'[t] = c
      /\ \A u \in Threads \ {t} : at'[u] = at[u] /\ call'[u] = call[u]
  <2>1. lock' \in [Lists -> Threads \cup {None}]
    BY <1>0 DEF TypeOK
  <2> HIDE DEF TypeOK
  <2> QED BY <1>0, <2>1, MoveTypes
<1>2. LocksOK'
  <2> SUFFICES ASSUME NEW m \in Lists, lock[m] # None
               PROVE  at'[lock[m]] \in LockPlaces /\ call'[lock[m]].list = m
    BY DEF LocksOK
  <2>1. lock[m] \in Threads /\ at[lock[m]] \in LockPlaces /\ call[lock[m]].list = m
    BY <1>0 DEF LocksOK, TypeOK
  <2>2. lock[m] # t
    BY <2>1 DEF LockPlaces
  <2> QED BY <1>1, <2>1, <2>2
<1>3. \A m \in Lists : Alive(m)' <=> Alive(m)
  BY DEF Alive, Stale, Unlinked, listVars
<1>4. ThreadOK(q, t)'
  <2>1. p \in {"unlink", "drain"} => Alive(call[t].list)'
    BY <1>1, <1>3
  <2> HIDE DEF Alive, On
  <2> QED BY <1>1, <2>1 DEF ThreadOK, LockPlaces, PopPlaces, Places
<1>5. \A u \in Threads \ {t}, m \in Lists : lock[m] = u => lock'[m] = u
  OBVIOUS
<1> QED BY <1>1, <1>2, <1>4, <1>5, QuietStep

CallRecord == [list : Lists \cup {None}, node : Nodes \cup {None},
               item : Items \cup {None}, left : Nat]

\* A node whose home is read is on that list.
LEMMA HomeIs ==
  ASSUME NEW q \in Shape, ChainInv(q), NEW n \in Embedded \cup allocated, home[n] # None
  PROVE  n \in Nodes /\ home[n] \in Lists /\ On(q[home[n]], n)
<1>0. Chains(q) /\ NodesOK(q) /\ allocated \subseteq Nodes
  BY DEF ChainInv, TypeOK
<1>1. n \in Nodes
  BY <1>0, CallersAssumption
<1>2. \E m \in Lists : On(q[m], n)
  <2>1. CASE n \in allocated
    BY <1>0, <2>1, CallersAssumption DEF NodesOK
  <2>2. CASE n \in Embedded
    BY <1>0, <2>2 DEF NodesOK
  <2> QED BY <2>1, <2>2
<1>3. PICK m \in Lists : On(q[m], n)
  BY <1>2
<1>4. home[n] = IF Owned(n) THEN None ELSE m
  BY <1>0, <1>3, OnAlive
<1>5. home[n] = m
  BY <1>4 DEF Owned
<1> QED BY <1>1, <1>3, <1>5

\* The test of node->ll.
LEMMA PopTestStep ==
  ASSUME NEW q \in Shape, ChainInv(q), NEW t \in Threads, NEW n \in Nodes, PopTest(t, n)
  PROVE  ChainInv(q)'
<1> DEFINE l == home[n]
           c == [NoCall EXCEPT !.list = l, !.node = n]
<1>1. /\ at[t] = "idle" /\ home[n] # None /\ n \in Embedded \cup allocated
      /\ call' = [call EXCEPT ![t] = c] /\ at' = [at EXCEPT ![t] = "unlink"]
      /\ UNCHANGED <<nodeVars, listVars, got, lock>>
  BY DEF PopTest, Goto
<1>2. l \in Lists /\ On(q[l], n)
  BY <1>1, HomeIs
<1>3. Alive(l)
  BY <1>2, OnAlive DEF ChainInv
<1>4. c \in CallRecord /\ c.list = l /\ c.node = n /\ c.left = 0
  BY <1>2 DEF CallRecord, NoCall
<1>5. "unlink" \in Places \ {"own", "count", "compare"}
  BY DEF Places
<1> HIDE DEF Alive, On, ChainInv, c, l
<1> QED BY <1>1, <1>2, <1>3, <1>4, <1>5, MoveStep DEF CallRecord

\* Nobody but the thread that pops from a list may leave a node of it uncounted.
LEMMA NotUncounted ==
  ASSUME NEW t \in Threads, NEW l \in Lists, Single(t, l), at[t] # "count"
  PROVE  ~Uncounted(l)
BY DEF Uncounted, Single, Popping, PopPlaces

\* The count is what the thread that pops may take: others only add.
LEMMA GetCountStep ==
  ASSUME NEW q \in Shape, Shared = {}, OnePops, ChainInv(q), NEW t \in Threads, NEW l \in Lists,
         GetCount(t, l)
  PROVE  ChainInv(q)'
<1> DEFINE c == [NoCall EXCEPT !.list = l, !.left = count[l]]
<1>1. /\ at[t] = "idle" /\ Alive(l) /\ Single(t, l) /\ count[l] # 0
      /\ call' = [call EXCEPT ![t] = c] /\ at' = [at EXCEPT ![t] = "drain"]
      /\ UNCHANGED <<nodeVars, listVars, got, lock>>
  BY PopsAreSingle DEF GetCount, Goto, Alive, IsNotEmpty
<1>2. count[l] = Len(q[l]) + 0
  <2>1. Chain(l, q[l])
    BY <1>1 DEF ChainInv, Chains
  <2>2. ~Uncounted(l)
    BY <1>1, NotUncounted
  <2> HIDE DEF Uncounted
  <2> QED BY <2>1, <2>2 DEF Chain
<1>3. count[l] = Len(q[l]) /\ count[l] \in Nat /\ count[l] > 0
  BY <1>1, <1>2, ShapeFacts
<1>4. c \in CallRecord /\ c.list = l /\ c.node = None /\ c.left = count[l]
  BY <1>3 DEF CallRecord, NoCall
<1>5. "drain" \in Places \ {"own", "count", "compare"}
  BY DEF Places
<1>6. Len(q[l]) >= c.left
  BY <1>3, <1>4
<1> HIDE DEF Alive, On, ChainInv, c
<1> QED BY <1>1, <1>3, <1>4, <1>5, <1>6, MoveStep DEF CallRecord

\* A pop that finds the NULL front or back.
LEMMA FaultStep ==
  ASSUME NEW q \in Shape, ChainInv(q), NEW t \in Threads, NEW l \in Lists,
         at[t] = "idle", PopEnd(t, l, None, 0)
  PROVE  ChainInv(q)'
<1> DEFINE c == [NoCall EXCEPT !.list = l, !.left = 0]
<1>1. /\ call' = [call EXCEPT ![t] = c] /\ at' = [at EXCEPT ![t] = "fault"]
      /\ UNCHANGED <<nodeVars, listVars, got, lock>>
  BY DEF PopEnd, Goto, listVars
<1>4. c \in CallRecord /\ c.list = l /\ c.node = None /\ c.left = 0
  BY DEF CallRecord, NoCall
<1>5. "fault" \in Places \ {"own", "count", "compare"}
  BY DEF Places
<1> HIDE DEF Alive, On, ChainInv, c
<1> QED BY <1>1, <1>4, <1>5, MoveStep DEF CallRecord

\* A thread that only holds a lock, and takes it or gives it back.
LEMMA CompareMove ==
  ASSUME NEW q \in Shape, NEW t \in Threads, NEW l \in Lists, ChainInv(q),
         UNCHANGED <<nodeVars, listVars, got>>,
         at[t] \in {"idle", "compare"}, Alive(l),
         at[t] = "compare" => call[t].list = l, at[t] = "idle" => lock[l] = None,
         NEW p \in {"idle", "compare"}, at' = [at EXCEPT ![t] = p],
         NEW c \in CallRecord, call' = [call EXCEPT ![t] = c],
         lock' = [lock EXCEPT ![l] = IF p = "idle" THEN None ELSE t],
         p = "idle" => c = NoCall,
         p = "compare" => c.list = l /\ (c.node = None \/ On(q[l], c.node))
  PROVE  ChainInv(q)'
<1>0. TypeOK /\ LocksOK /\ \A u \in Threads : ThreadOK(q, u)
  BY DEF ChainInv
<1>1. p \in Places /\ lock \in [Lists -> Threads \cup {None}] /\ t # None
      /\ lock' \in [Lists -> Threads \cup {None}]
  BY <1>0, NodesAssumption DEF TypeOK, Places
<1>2. /\ TypeOK' /\ at'[t] = p /\ call'[t] = c
      /\ \A u \in Threads \ {t} : at'[u] = at[u] /\ call'[u] = call[u]
  <2> HIDE DEF TypeOK
  <2> QED BY <1>0, <1>1, MoveTypes DEF CallRecord
<1>3. /\ lock'[l] = (IF p = "idle" THEN None ELSE t)
      /\ \A m \in Lists \ {l} : lock'[m] = lock[m]
      /\ lock[l] \in {None, t}
  <2>1. at[t] = "compare" => lock[l] = t
    BY <1>0 DEF ThreadOK, LockPlaces
  <2> QED BY <1>1, <2>1
<1>4. LocksOK'
  <2>1. \A m \in Lists \ {l} : lock[m] # t
    BY <1>0, <1>1 DEF LocksOK, LockPlaces
  <2>2. \/ lock'[l] = None
        \/ lock'[l] = t /\ at'[t] \in LockPlaces /\ call'[t].list = l
    BY <1>2, <1>3 DEF LockPlaces
  <2> HIDE DEF LocksOK
  <2> QED BY <1>0, <1>2, <1>3, <2>1, <2>2, LocksStay
<1>5. Alive(l)'
  BY DEF Alive, Stale, Unlinked, listVars
<1>6. ThreadOK(q, t)'
  <2> HIDE DEF Alive, On
  <2>1. CASE p = "idle"
    BY <1>2, <2>1 DEF ThreadOK, LockPlaces, PopPlaces, NoCall
  <2>2. CASE p = "compare"
    <3>1. call'[t].list = l /\ Alive(call[t].list)'
      BY <1>2, <1>5, <2>2
    <3> QED BY <1>2, <1>3, <2>2, <3>1 DEF ThreadOK, LockPlaces, PopPlaces
  <2> QED BY <2>1, <2>2
<1>7. \A u \in Threads \ {t}, m \in Lists : lock[m] = u => lock'[m] = u
  <2>1. \A u \in Threads \ {t} : u # None
    BY NodesAssumption
  <2> QED BY <1>3, <2>1
<1>8. at[t] \notin {"own", "count"} /\ at'[t] \notin {"own", "count"}
  BY <1>2
<1> HIDE DEF ChainInv, TypeOK, LocksOK, ThreadOK
<1> QED BY <1>2, <1>4, <1>6, <1>7, <1>8, QuietStep

LEMMA PopAllCompareStep ==
  ASSUME NEW q \in Shape, ChainInv(q), NEW t \in Threads, NEW l \in Lists, NEW i \in Items,
         PopAllCompare(t, l, i)
  PROVE  ChainInv(q)'
<1> DEFINE c == [list |-> l, node |-> front[l], item |-> i, left |-> 0]
<1>1. /\ at[t] = "idle" /\ lock[l] = None /\ Alive(l) /\ ~Nothing(l)
      /\ lock' = [lock EXCEPT ![l] = t] /\ call' = [call EXCEPT ![t] = c]
      /\ at' = [at EXCEPT ![t] = "compare"]
      /\ UNCHANGED <<nodeVars, listVars, got>>
  BY DEF PopAllCompare, Pops, Calls, Usable, Alive, Goto
<1>2. On(q[l], front[l])
  <2>1. Chains(q)
    BY DEF ChainInv
  <2>2. q[l] # <<>>
    BY <1>1, <2>1, EmptyIs DEF Nothing
  <2> QED BY <1>1, <2>1, <2>2, EmptyIs
<1>3. c \in CallRecord /\ c.list = l /\ c.node = front[l]
  BY DEF CallRecord, ChainInv, TypeOK
<1> HIDE DEF Alive, On, ChainInv, c
<1> QED BY <1>1, <1>2, <1>3, CompareMove

\* What follows a node of a chain.
LEMMA NextIs ==
  ASSUME NEW q \in Shape, NEW l \in Lists, Chain(l, q[l]), NEW k \in 1 .. Len(q[l])
  PROVE  /\ next[q[l][k]] = Nth(q[l], k + 1) /\ prev[q[l][k]] = Nth(q[l], k - 1)
         /\ next[q[l][k]] # None => next[q[l][k]] # q[l][k] /\ On(q[l], next[q[l][k]])
<1>1. /\ next[q[l][k]] = Nth(q[l], k + 1) /\ prev[q[l][k]] = Nth(q[l], k - 1)
      /\ Distinct(q[l])
  BY DEF Chain, Linked
<1>2. q[l] \in Seq(Nodes) /\ Len(q[l]) \in Nat
  BY ShapeFacts
<1>3. CASE k + 1 \in 1 .. Len(q[l])
  <2>1. Nth(q[l], k + 1) = q[l][k + 1]
    BY <1>2, <1>3, NthIs
  <2>2. q[l][k + 1] # q[l][k]
    BY <1>1, <1>3 DEF Distinct
  <2> QED BY <1>1, <1>3, <2>1, <2>2 DEF On
<1>4. CASE k + 1 \notin 1 .. Len(q[l])
  BY <1>1, <1>2, <1>4, NthIs
<1> QED BY <1>1, <1>3, <1>4

\* The end of the walk, and a node that is passed by.
LEMMA ComparePassStep ==
  ASSUME NEW q \in Shape, ChainInv(q), NEW t \in Threads, CompareOne(t),
         call[t].node = None \/ item[call[t].node] # call[t].item
  PROVE  ChainInv(q)'
<1> DEFINE l == call[t].list
           n == call[t].node
<1>0. Chains(q) /\ ThreadOK(q, t) /\ call[t] \in CallRecord /\ got' = got
      /\ lock \in [Lists -> Threads \cup {None}] /\ at \in [Threads -> Places]
  BY DEF ChainInv, TypeOK, CallRecord, CompareOne
<1>1. /\ at[t] = "compare" /\ l \in Lists /\ Alive(l) /\ lock[l] = t
      /\ n = None \/ On(q[l], n)
  BY <1>0 DEF CompareOne, ThreadOK, LockPlaces, PopPlaces
<1>2. UNCHANGED <<nodeVars, listVars>>
  BY DEF CompareOne, listVars
<1>3. CASE n = None
  <2>1. /\ lock' = [lock EXCEPT ![l] = IF "idle" = "idle" THEN None ELSE t]
        /\ at' = [at EXCEPT ![t] = "idle"] /\ call' = [call EXCEPT ![t] = NoCall]
    BY <1>3 DEF CompareOne, Return, Goto
  <2>2. NoCall \in CallRecord
    BY DEF NoCall, CallRecord
  <2> HIDE DEF Alive, On, ChainInv, l
  <2> QED BY <1>0, <1>1, <1>2, <2>1, <2>2, CompareMove DEF l
<1>4. CASE n # None
  <2> DEFINE c == [call[t] EXCEPT !.node = next[n]]
  <2>1. /\ call' = [call EXCEPT ![t] = c] /\ lock' = lock /\ at' = at
    BY <1>4 DEF CompareOne
  <2>2. lock' = [lock EXCEPT ![l] = IF "compare" = "idle" THEN None ELSE t]
        /\ at' = [at EXCEPT ![t] = "compare"]
    BY <1>0, <1>1, <2>1
  <2>3. PICK k \in 1 .. Len(q[l]) : q[l][k] = n
    BY <1>1, <1>4 DEF On
  <2>4. next[n] = None \/ On(q[l], next[n])
    <3>1. Chain(l, q[l])
      BY <1>0, <1>1 DEF Chains
    <3> HIDE DEF Chain, On
    <3> QED BY <1>1, <2>3, <3>1, NextIs
  <2>5. next[n] \in Nodes \cup {None}
    <3>1. n \in Nodes
      BY <1>0, <1>4 DEF CallRecord
    <3> QED BY <3>1 DEF ChainInv, TypeOK
  <2>6. c \in CallRecord /\ c.list = l /\ c.node = next[n]
    BY <1>0, <2>5 DEF CallRecord
  <2> HIDE DEF Alive, On, ChainInv, c, l, n
  <2> QED BY <1>0, <1>1, <1>2, <2>2, <2>1, <2>4, <2>6, CompareMove DEF l
<1> QED BY <1>3, <1>4

-----------------------------------------------------------------------------
(* Taking a node                                                            *)

\* The neighbours are linked past the node, and a caller's own node is blanked.
LEMMA UnlinkIs ==
  ASSUME TypeOK, NEW n \in Nodes, Unlink(n), next[n] # n, prev[n] # n
  PROVE  /\ LinkedPast(n, next, prev, next', prev')
         /\ \A x \in Nodes \ {n} : home'[x] = home[x]
         /\ n \notin allocated => next'[n] = None /\ prev'[n] = None /\ home'[n] = None
         /\ next' \in Ptr /\ prev' \in Ptr /\ home' \in [Nodes -> Lists \cup {None}]
         /\ allocated' = allocated \ {n} /\ item' = item
<1> DEFINE nx == IF prev[n] = None THEN next ELSE [next EXCEPT ![prev[n]] = next[n]]
           pv == IF next[n] = None THEN prev ELSE [prev EXCEPT ![next[n]] = prev[n]]
<1>0. /\ next \in Ptr /\ prev \in Ptr /\ home \in [Nodes -> Lists \cup {None}]
      /\ None \notin Nodes
  BY NodesAssumption DEF TypeOK, Ptr
<1>1. /\ nx \in Ptr /\ \A x \in Nodes : nx[x] = IF x = prev[n] THEN next[n] ELSE next[x]
      /\ pv \in Ptr /\ \A x \in Nodes : pv[x] = IF x = next[n] THEN prev[n] ELSE prev[x]
  BY <1>0 DEF Ptr
<1>2. /\ next' = (IF n \in allocated THEN nx ELSE [nx EXCEPT ![n] = None])
      /\ prev' = (IF n \in allocated THEN pv ELSE [pv EXCEPT ![n] = None])
      /\ home' = (IF n \in allocated THEN home ELSE [home EXCEPT ![n] = None])
      /\ allocated' = allocated \ {n} /\ item' = item
  BY DEF Unlink
<1> HIDE DEF nx, pv
<1>3. /\ next' \in Ptr /\ prev' \in Ptr
      /\ \A x \in Nodes \ {n} : next'[x] = nx[x] /\ prev'[x] = pv[x]
      /\ n \notin allocated => next'[n] = None /\ prev'[n] = None
  BY <1>1, <1>2 DEF Ptr
<1>4. /\ \A x \in Nodes \ {n} : home'[x] = home[x]
      /\ home' \in [Nodes -> Lists \cup {None}]
      /\ n \notin allocated => home'[n] = None
  BY <1>0, <1>2
<1>5. LinkedPast(n, next, prev, next', prev')
  BY <1>1, <1>3 DEF LinkedPast
<1> QED BY <1>2, <1>3, <1>4, <1>5

LEMMA DroppedOn ==
  ASSUME NEW s \in Seq(Nodes), NEW r \in Seq(Nodes), NEW k \in 1 .. Len(s), Distinct(s),
         Dropped(s, k, r)
  PROVE  \A x : On(r, x) <=> On(s, x) /\ x # s[k]
<1>1. Len(s) \in Nat /\ Len(r) = Len(s) - 1
      /\ \A j \in 1 .. Len(s) - 1 : r[j] = IF j < k THEN s[j] ELSE s[j + 1]
  BY DEF Dropped
<1>2. ASSUME NEW x, On(r, x)
      PROVE  On(s, x) /\ x # s[k]
  <2>1. PICK j \in 1 .. Len(r) : r[j] = x
    BY <1>2 DEF On
  <2>2. CASE j < k
    <3>1. j \in 1 .. Len(s) /\ j # k /\ s[j] = x
      BY <1>1, <2>1, <2>2
    <3> QED BY <3>1 DEF On, Distinct
  <2>3. CASE ~(j < k)
    <3>1. j + 1 \in 1 .. Len(s) /\ j + 1 # k /\ s[j + 1] = x
      BY <1>1, <2>1, <2>3
    <3> QED BY <3>1 DEF On, Distinct
  <2> QED BY <2>2, <2>3
<1>3. ASSUME NEW x, On(s, x), x # s[k]
      PROVE  On(r, x)
  <2>1. PICK j \in 1 .. Len(s) : s[j] = x
    BY <1>3 DEF On
  <2>2. j # k
    BY <1>3, <2>1
  <2>3. CASE j < k
    <3>1. j \in 1 .. Len(r) /\ r[j] = x
      BY <1>1, <2>1, <2>3
    <3> QED BY <3>1 DEF On
  <2>4. CASE ~(j < k)
    <3>1. j - 1 \in 1 .. Len(r) /\ ~(j - 1 < k) /\ (j - 1) + 1 = j
      BY <1>1, <2>2, <2>4
    <3>2. r[j - 1] = s[(j - 1) + 1]
      BY <1>1, <3>1
    <3>3. r[j - 1] = x
      BY <2>1, <3>1, <3>2
    <3> QED BY <3>1, <3>3 DEF On
  <2> QED BY <2>3, <2>4
<1> QED BY <1>2, <1>3

\* s was the chain of l; r is what is left of it without n.
Took(s, l, n, r) ==
  /\ n \in Nodes /\ n \in Stored(l) /\ On(s, n)
  /\ r \in Seq(Nodes) /\ Len(r) = Len(s) - 1 /\ Len(s) \in Nat
  /\ Distinct(r) /\ Linked(r, next', prev')
  /\ FrontWithout(l, n) \in [Lists -> Nodes \cup {None}]
  /\ BackWithout(l, n) \in [Lists -> Nodes \cup {None}]
  /\ FrontWithout(l, n)[l] = Nth(r, 1) /\ BackWithout(l, n)[l] = Nth(r, Len(r))
  /\ \A m \in Lists \ {l} : FrontWithout(l, n)[m] = front[m] /\ BackWithout(l, n)[m] = back[m]
  /\ \A x : On(r, x) <=> On(s, x) /\ x # n
  /\ \A x \in Nodes : ~On(s, x) => next'[x] = next[x] /\ prev'[x] = prev[x]
  /\ \A x \in Nodes \ {n} : home'[x] = home[x]
  /\ n \notin allocated => next'[n] = None /\ prev'[n] = None /\ home'[n] = None
  /\ next' \in Ptr /\ prev' \in Ptr /\ home' \in [Nodes -> Lists \cup {None}]
  /\ allocated' = allocated \ {n} /\ item' = item

\* What IocpLLPop makes of the chain its node is on.
LEMMA TakeLinks ==
  ASSUME NEW q \in Shape, TypeOK, Chains(q), NEW l \in Lists, Alive(l),
         NEW k \in 1 .. Len(q[l]), Unlink(q[l][k])
  PROVE  Took(q[l], l, q[l][k], RemoveAt(q[l], k))
<1> DEFINE s == q[l]
           n == s[k]
           r == RemoveAt(s, k)
<1>1. s \in Seq(Nodes) /\ Len(s) \in Nat /\ Chain(l, s) /\ None \notin Nodes
  BY ShapeFacts, NodesAssumption DEF Chains
<1>2. /\ n \in Nodes /\ n \in Stored(l) /\ On(s, n)
      /\ Distinct(s) /\ Linked(s, next, prev) /\ front[l] = Nth(s, 1) /\ back[l] = Nth(s, Len(s))
  BY <1>1 DEF Chain, On
<1>3. /\ next[n] = Nth(s, k + 1) /\ prev[n] = Nth(s, k - 1)
      /\ next \in Ptr /\ prev \in Ptr
      /\ front \in [Lists -> Nodes \cup {None}] /\ back \in [Lists -> Nodes \cup {None}]
  BY <1>2 DEF Linked, TypeOK, Ptr
<1>u. k \in 1 .. Len(s) /\ s[k] = n /\ r = RemoveAt(s, k) /\ Unlink(n)
  OBVIOUS
<1> HIDE DEF s, n, r
<1>4. /\ next[n] \in Nodes \cup {None} /\ next[n] # n /\ (next[n] # None => On(s, next[n]))
      /\ prev[n] \in Nodes \cup {None} /\ prev[n] # n /\ (prev[n] # None => On(s, prev[n]))
  <2>1. k \in 1 .. Len(s) /\ s[k] = n
    BY <1>u
  <2>2. \A j \in Int : Nth(s, j) # None => j \in 1 .. Len(s) /\ On(s, Nth(s, j))
    BY <1>1, NthIs DEF On
  <2>3. \A j \in Int : j # k /\ Nth(s, j) # None => Nth(s, j) # n
    BY <1>1, <1>2, <2>1, NthIs DEF Distinct
  <2>4. k + 1 \in Int /\ k - 1 \in Int /\ k + 1 # k /\ k - 1 # k
    BY <2>1
  <2>5. \A j \in Int : Nth(s, j) \in Nodes \cup {None}
    BY <1>1, NthIs
  <2> HIDE DEF Nth, On
  <2> QED BY <1>1, <1>2, <1>3, <2>2, <2>3, <2>4, <2>5
<1>5. /\ LinkedPast(n, next, prev, next', prev')
      /\ \A x \in Nodes \ {n} : home'[x] = home[x]
      /\ n \notin allocated => next'[n] = None /\ prev'[n] = None /\ home'[n] = None
      /\ next' \in Ptr /\ prev' \in Ptr /\ home' \in [Nodes -> Lists \cup {None}]
      /\ allocated' = allocated \ {n} /\ item' = item
  BY <1>2, <1>4, <1>u, UnlinkIs
<1>6. r \in Seq(Nodes) /\ Dropped(s, k, r)
  BY <1>1, <1>u, RemoveAtIs DEF Dropped
<1>7. /\ Distinct(r) /\ Linked(r, next', prev')
      /\ Nth(r, 1) = (IF prev[n] = None THEN next[n] ELSE Nth(s, 1))
      /\ Nth(r, Len(r)) = (IF next[n] = None THEN prev[n] ELSE Nth(s, Len(s)))
  BY <1>1, <1>2, <1>5, <1>6, <1>u, DropLinks
<1>8. \A x : On(r, x) <=> On(s, x) /\ x # n
  BY <1>1, <1>2, <1>6, <1>u, DroppedOn
<1>9. /\ FrontWithout(l, n) \in [Lists -> Nodes \cup {None}]
      /\ FrontWithout(l, n)[l] = Nth(r, 1)
      /\ \A m \in Lists \ {l} : FrontWithout(l, n)[m] = front[m]
  BY <1>2, <1>3, <1>4, <1>7 DEF FrontWithout
<1>10. /\ BackWithout(l, n) \in [Lists -> Nodes \cup {None}]
       /\ BackWithout(l, n)[l] = Nth(r, Len(r))
       /\ \A m \in Lists \ {l} : BackWithout(l, n)[m] = back[m]
  BY <1>2, <1>3, <1>4, <1>7 DEF BackWithout
<1>11. \A x \in Nodes : ~On(s, x) => next'[x] = next[x] /\ prev'[x] = prev[x]
  BY <1>1, <1>2, <1>4, <1>5 DEF LinkedPast
<1>12. Len(r) = Len(s) - 1
  BY <1>6 DEF Dropped
<1>13. \A m \in Lists \ {l} :
         FrontWithout(l, n)[m] = front[m] /\ BackWithout(l, n)[m] = back[m]
  BY <1>9, <1>10
<1> HIDE DEF On, Stored, Dropped, Distinct, Linked, FrontWithout, BackWithout
<1>14. Took(s, l, n, r)
  BY <1>1, <1>2, <1>5, <1>6, <1>7, <1>8, <1>9, <1>10, <1>11, <1>12, <1>13 DEF Took
<1> QED BY <1>14 DEF s, n, r

\* The lists and the nodes after it, given that front, back and count agree.
LEMMA TakeChains ==
  ASSUME NEW q \in Shape, TypeOK, Chains(q), NodesOK(q), NEW l \in Lists, Alive(l),
         NEW s, NEW n, Took(q[l], l, n, s), life' = life,
         front'[l] = Nth(s, 1), back'[l] = Nth(s, Len(s)),
         count'[l] = Len(s) + (IF Uncounted(l)' THEN 1 ELSE 0),
         \A m \in Lists \ {l} :
           /\ front'[m] = front[m] /\ back'[m] = back[m] /\ count'[m] = count[m]
           /\ (Uncounted(m)' <=> Uncounted(m)),
         \A x : Owned(x)' <=> Owned(x)
  PROVE  /\ Chains([q EXCEPT ![l] = s])' /\ NodesOK([q EXCEPT ![l] = s])'
         /\ \A m \in Lists : Alive(m) => Alive(m)'
<1>1. /\ n \in Nodes /\ n \in Stored(l) /\ On(q[l], n)
      /\ s \in Seq(Nodes) /\ Len(s) = Len(q[l]) - 1 /\ Len(q[l]) \in Nat
      /\ Distinct(s) /\ Linked(s, next', prev')
      /\ \A x : On(s, x) <=> On(q[l], x) /\ x # n
      /\ \A x \in Nodes : ~On(q[l], x) => next'[x] = next[x] /\ prev'[x] = prev[x]
      /\ \A x \in Nodes \ {n} : home'[x] = home[x]
      /\ n \notin allocated => next'[n] = None /\ prev'[n] = None /\ home'[n] = None
      /\ allocated' = allocated \ {n}
  BY DEF Took
<1>2. \A m \in Lists : \A x : x \in Stored(m) /\ x # n => x \in Stored(m)'
  BY <1>1 DEF Stored
<1>3. Chain(l, s)'
  <2>1. ASSUME NEW x, On(s, x)
        PROVE  x \in Stored(l)' /\ home'[x] = IF Owned(x)' THEN None ELSE l
    <3>1. On(q[l], x) /\ x # n
      BY <1>1, <2>1
    <3>2. x \in Nodes /\ x \in Stored(l) /\ home[x] = IF Owned(x) THEN None ELSE l
      BY <3>1, OnAlive
    <3>3. home'[x] = home[x] /\ x \in Stored(l)'
      BY <1>1, <1>2, <3>1, <3>2
    <3>4. Owned(x)' <=> Owned(x)
      OBVIOUS
    <3> HIDE DEF Stored, Owned
    <3> QED BY <3>2, <3>3, <3>4
  <2>2. \A j \in 1 .. Len(s) :
          s[j] \in Stored(l)' /\ home'[s[j]] = IF Owned(s[j])' THEN None ELSE l
    <3>1. \A j \in 1 .. Len(s) : On(s, s[j])
      BY DEF On
    <3> HIDE DEF Stored, Owned, On
    <3> QED BY <2>1, <3>1
  <2> HIDE DEF Stored, Owned, Uncounted
  <2> QED BY <1>1, <2>2 DEF Chain
<1>4. life[l] = "live"
  BY DEF Alive
<1>5. ASSUME NEW m \in Lists \ {l}, NEW x, On(q[m], x)
      PROVE  /\ next'[x] = next[x] /\ prev'[x] = prev[x] /\ home'[x] = home[x]
             /\ (Owned(x)' <=> Owned(x)) /\ x \in Stored(m)'
  <2>1. x \in Nodes /\ x \in Stored(m)
    BY <1>5, OnAlive
  <2>2. ~On(q[l], x)
    BY <1>5, <2>1 DEF NodesOK
  <2>3. x # n
    BY <1>1, <2>2
  <2> QED BY <1>1, <1>2, <2>1, <2>2, <2>3
<1>6. Chains([q EXCEPT ![l] = s])' /\ \A m \in Lists : Alive(m) => Alive(m)'
  <2> HIDE DEF Owned, Uncounted, Stored, Chain, Alive, On, Chains
  <2> QED BY <1>1, <1>3, <1>4, <1>5, OneList
<1> DEFINE r == [q EXCEPT ![l] = s]
<1>7. NodesOK(r)'
  <2>1. r[l] = s /\ \A m \in Lists \ {l} : r[m] = q[m]
    BY DEF Shape
  <2> HIDE DEF r
  <2>2. \A m \in Lists : \A x : On(r[m], x) => On(q[m], x)
    BY <1>1, <2>1
  <2>3. \A m \in Lists : \A x : On(q[m], x) /\ x # n => On(r[m], x)
    BY <1>1, <2>1
  <2>4. \A x \in Nodes, m, p \in Lists : On(r[m], x) /\ On(r[p], x) => m = p
    BY <2>2 DEF NodesOK
  <2>5. \A x \in allocated' : \E m \in Owning : On(r[m], x)
    BY <1>1, <2>3, CallersAssumption DEF NodesOK
  <2>6. ASSUME NEW x \in Embedded, \A m \in Lists : ~On(r[m], x)
        PROVE  next'[x] = None /\ prev'[x] = None /\ home'[x] = None
    <3>1. CASE x = n
      <4>1. n \notin allocated
        BY <2>6, <3>1 DEF TypeOK
      <4> QED BY <1>1, <3>1, <4>1
    <3>2. CASE x # n
      <4>1. x \in Nodes /\ \A m \in Lists : ~On(q[m], x)
        BY <2>3, <2>6, <3>2, CallersAssumption
      <4>2. next[x] = None /\ prev[x] = None /\ home[x] = None
        BY <4>1 DEF NodesOK
      <4> QED BY <1>1, <3>2, <4>1, <4>2
    <3> QED BY <3>1, <3>2
  <2> QED BY <2>4, <2>5, <2>6 DEF NodesOK
<1> QED BY <1>6, <1>7

\* What the other threads rely on, when the thread that pops from a list changes it.
LEMMA TakeOthers ==
  ASSUME NEW q \in Shape, NEW r \in Shape, NEW t \in Threads, NEW l \in Lists,
         TypeOK, Single(t, l), lock[l] \in {None, t},
         \A u \in Threads : ThreadOK(q, u),
         \A u \in Threads \ {t} : at'[u] = at[u] /\ call'[u] = call[u],
         \A m \in Lists \ {l} : r[m] = q[m] /\ lock'[m] = lock[m] /\ (Alive(m) => Alive(m)')
  PROVE  \A u \in Threads \ {t} : ThreadOK(r, u)'
<1> SUFFICES ASSUME NEW u \in Threads \ {t}
             PROVE  ThreadOK(r, u)'
  OBVIOUS
<1>1. at'[u] = at[u] /\ call'[u] = call[u] /\ ThreadOK(q, u)
  OBVIOUS
<1>2. ASSUME at[u] \notin {"idle", "fault"}
      PROVE  /\ Alive(call[u].list)'
             /\ at[u] \in LockPlaces => lock'[call[u].list] = lock[call[u].list]
             /\ \A x : On(q[call[u].list], x) => On(r[call[u].list], x)
             /\ Len(r[call[u].list]) >= Len(q[call[u].list])
  <2>1. call[u].list # l /\ call[u].list \in Lists
    BY <1>1, <1>2, Alone
  <2>2. Alive(call[u].list)
    BY <1>1, <1>2 DEF ThreadOK
  <2>3. Alive(call[u].list)'
    <3>1. \A m \in Lists \ {l} : Alive(m) => Alive(m)'
      OBVIOUS
    <3> QED BY <1>1, <2>1, <2>2, <3>1
  <2>4. r[call[u].list] = q[call[u].list] /\ lock'[call[u].list] = lock[call[u].list]
    BY <2>1
  <2>5. Len(q[call[u].list]) \in Nat
    BY <2>1, ShapeFacts
  <2> HIDE DEF Alive
  <2> QED BY <2>3, <2>4, <2>5
<1>3. at[u] \notin {"idle", "fault"} =>
        /\ Alive(call[u].list)'
        /\ at[u] \in LockPlaces => lock'[call[u].list] = lock[call[u].list]
        /\ \A x : On(q[call[u].list], x) => On(r[call[u].list], x)
        /\ Len(r[call[u].list]) >= Len(q[call[u].list])
  BY <1>2
<1> HIDE DEF On, Alive
<1> QED BY <1>1, <1>3, OtherStays

\* The unlinking half of a pop; s is what is left of the chain.
LEMMA UnlinkStep ==
  ASSUME NEW q \in Shape, Shared = {}, OnePops, ChainInv(q), NEW t \in Threads, NEW l \in Lists,
         Single(t, l), Alive(l), lock[l] = None, at[t] \in {"idle", "unlink", "drain"},
         NEW n, NEW s \in Seq(Nodes), Took(q[l], l, n, s),
         front' = FrontWithout(l, n), back' = BackWithout(l, n),
         count' = count, life' = life, got' \in [Threads -> Nodes \cup {None}],
         lock' = [lock EXCEPT ![l] = t], at' = [at EXCEPT ![t] = "count"],
         NEW c \in CallRecord, call' = [call EXCEPT ![t] = c], c.list = l,
         c.left > 0 => Len(q[l]) >= c.left
  PROVE  ChainInv([q EXCEPT ![l] = s])'
<1> DEFINE r == [q EXCEPT ![l] = s]
<1>r. r \in Shape /\ r[l] = s /\ \A m \in Lists \ {l} : r[m] = q[m]
  BY DEF Shape
<1> HIDE DEF r
<1>0. /\ TypeOK /\ Chains(q) /\ NodesOK(q) /\ LocksOK /\ Chain(l, q[l])
      /\ \A u \in Threads : ThreadOK(q, u)
  BY EmptyIs DEF ChainInv
<1>1. "count" \in Places /\ t \in Threads \cup {None}
  BY DEF Places
<1>2. /\ at' \in [Threads -> Places] /\ at'[t] = "count"
      /\ call' \in [Threads -> CallRecord] /\ call'[t] = c
      /\ \A u \in Threads \ {t} : at'[u] = at[u] /\ call'[u] = call[u]
      /\ lock' \in [Lists -> Threads \cup {None}] /\ lock'[l] = t
      /\ \A m \in Lists \ {l} : lock'[m] = lock[m]
      /\ t # None
  <2>1. /\ at \in [Threads -> Places] /\ call \in [Threads -> CallRecord]
        /\ lock \in [Lists -> Threads \cup {None}]
    BY <1>0 DEF TypeOK, CallRecord
  <2>2. at' \in [Threads -> Places] /\ at'[t] = "count" /\ \A u \in Threads \ {t} : at'[u] = at[u]
    BY <1>1, <2>1
  <2>3. /\ call' \in [Threads -> CallRecord] /\ call'[t] = c
        /\ \A u \in Threads \ {t} : call'[u] = call[u]
    BY <2>1
  <2>4. /\ lock' \in [Lists -> Threads \cup {None}] /\ lock'[l] = t
        /\ \A m \in Lists \ {l} : lock'[m] = lock[m]
    BY <1>1, <2>1
  <2>5. t # None
    BY NodesAssumption
  <2> QED BY <2>2, <2>3, <2>4, <2>5
<1>3. \A x : Owned(x)' <=> Owned(x)
  BY <1>2 DEF Owned
<1>4. Uncounted(l)' /\ \A m \in Lists \ {l} : Uncounted(m)' <=> Uncounted(m)
  BY <1>2 DEF Uncounted
<1>5. count'[l] = Len(s) + IF Uncounted(l)' THEN 1 ELSE 0
  <2>1. ~Uncounted(l)
    BY NotUncounted
  <2> HIDE DEF Uncounted
  <2>2. count[l] = Len(q[l]) + 0
    BY <1>0, <2>1 DEF Chain
  <2>3. Len(s) = Len(q[l]) - 1 /\ Len(q[l]) \in Nat
    BY DEF Took
  <2> QED BY <1>4, <2>2, <2>3
<1>6. /\ front'[l] = Nth(s, 1) /\ back'[l] = Nth(s, Len(s))
      /\ \A m \in Lists \ {l} : front'[m] = front[m] /\ back'[m] = back[m] /\ count'[m] = count[m]
  BY DEF Took
<1>7. Chains(r)' /\ NodesOK(r)' /\ \A m \in Lists : Alive(m) => Alive(m)'
  <2> HIDE DEF TypeOK, Chains, NodesOK, Alive, Took, Owned, Uncounted
  <2> QED BY <1>0, <1>3, <1>4, <1>5, <1>6, TakeChains DEF r
<1>8. LocksOK'
  <2>1. \A m \in Lists : lock[m] # t
    BY <1>0, <1>2 DEF LocksOK, LockPlaces
  <2>2. lock'[l] = t /\ at'[t] \in LockPlaces /\ call'[t].list = l
    BY <1>2 DEF LockPlaces
  <2> HIDE DEF LocksOK
  <2> QED BY <1>0, <1>2, <2>1, <2>2, LocksStay
<1>9. \A u \in Threads \ {t} : ThreadOK(r, u)'
  <2> HIDE DEF TypeOK, Alive, ThreadOK
  <2> QED BY <1>0, <1>2, <1>7, <1>r, TakeOthers
<1>10. ThreadOK(r, t)'
  <2>1. Alive(call[t].list)'
    BY <1>2, <1>7
  <2>2. c.left > 0 => Len(r[l]) >= c.left - 1
    <3>1. Len(s) = Len(q[l]) - 1 /\ Len(q[l]) \in Nat /\ c.left \in Nat
      BY DEF Took, CallRecord
    <3> QED BY <1>r, <3>1
  <2> HIDE DEF Alive
  <2> QED BY <1>2, <2>1, <2>2 DEF ThreadOK, LockPlaces, PopPlaces
<1>11. TypeOK'
  <2>1. /\ next' \in Ptr /\ prev' \in Ptr /\ home' \in [Nodes -> Lists \cup {None}]
        /\ allocated' = allocated \ {n} /\ item' = item
        /\ front' \in [Lists -> Nodes \cup {None}] /\ back' \in [Lists -> Nodes \cup {None}]
    BY DEF Took
  <2> QED BY <1>0, <1>2, <2>1 DEF TypeOK, Ptr, CallRecord
<1> QED BY <1>7, <1>8, <1>9, <1>10, <1>11 DEF ChainInv, r

\* A node on a list that nobody is pushing says so.
LEMMA HomeOfNode ==
  ASSUME NEW q \in Shape, ChainInv(q), NEW l \in Lists, lock[l] = None, NEW n, On(q[l], n)
  PROVE  home[n] = l
<1>1. ~Owned(n)
  <2> SUFFICES ASSUME NEW u \in Threads, at[u] = "own", call[u].node = n
               PROVE  FALSE
    BY DEF Owned
  <2>1. lock[call[u].list] = u /\ On(q[call[u].list], n) /\ call[u].list \in Lists /\ n \in Nodes
    BY DEF ChainInv, ThreadOK, LockPlaces
  <2>2. call[u].list = l
    BY <2>1 DEF ChainInv, NodesOK
  <2> QED BY <2>1, <2>2, NodesAssumption
<1>2. home[n] = IF Owned(n) THEN None ELSE l
  BY OnAlive DEF ChainInv
<1> HIDE DEF Owned
<1> QED BY <1>1, <1>2

\* IocpLLPop, up to its count.
LEMMA PopUnlinkStep ==
  ASSUME NEW q \in Shape, Shared = {}, OnePops, ChainInv(q), NEW t \in Threads, PopUnlink(t)
  PROVE  \E l \in Lists : \E k \in 1 .. Len(q[l]) :
           /\ ChainInv([q EXCEPT ![l] = RemoveAt(q[l], k)])'
           /\ q[l][k] \in Nodes /\ item' = item /\ got' = got
<1>0. /\ TypeOK /\ Chains(q) /\ ThreadOK(q, t) /\ call[t] \in CallRecord /\ DOMAIN call = Threads
      /\ got \in [Threads -> Nodes \cup {None}] /\ call \in [Threads -> CallRecord]
  BY DEF ChainInv, TypeOK, CallRecord
<1>1. /\ at[t] = "unlink" /\ call[t].list \in Lists /\ Alive(call[t].list)
      /\ Single(t, call[t].list) /\ call[t].node \in Nodes
      /\ On(q[call[t].list], call[t].node) /\ call[t].left = 0
  BY <1>0, PopsAreSingle DEF PopUnlink, ThreadOK, PopPlaces
<1>a. PICK l \in Lists, n \in Nodes, c \in CallRecord :
        c = call[t] /\ l = call[t].list /\ n = call[t].node
  BY <1>0, <1>1
<1>b. /\ Alive(l) /\ lock[l] = None /\ Single(t, l) /\ On(q[l], n) /\ c.left = 0 /\ c.list = l
  BY <1>1, <1>a DEF PopUnlink
<1>2. ~Nothing(l)
  BY <1>0, <1>b, OnAlive, EmptyIs
<1>3. /\ Unlink(n) /\ front' = FrontWithout(l, n) /\ back' = BackWithout(l, n)
      /\ lock' = [lock EXCEPT ![l] = t] /\ at' = [at EXCEPT ![t] = "count"] /\ call' = call
      /\ count' = count /\ life' = life /\ got' = got
  BY <1>2, <1>a DEF PopUnlink, Goto
<1>4. call' = [call EXCEPT ![t] = c]
  BY <1>0, <1>3, <1>a
<1>5. PICK k \in 1 .. Len(q[l]) : q[l][k] = n
  BY <1>b DEF On
<1> DEFINE s == RemoveAt(q[l], k)
<1>6. Took(q[l], l, n, s)
  <2>1. Unlink(q[l][k])
    BY <1>3, <1>5
  <2>2. Took(q[l], l, q[l][k], RemoveAt(q[l], k))
    BY <1>0, <1>5, <1>b, <2>1, TakeLinks
  <2> QED BY <1>5, <2>2
<1>8. s \in Seq(Nodes) /\ item' = item
  BY <1>6 DEF Took
<1> HIDE DEF s
<1>10. ChainInv([q EXCEPT ![l] = s])'
  <2>1. /\ at[t] \in {"idle", "unlink", "drain"} /\ got' \in [Threads -> Nodes \cup {None}]
        /\ c.left > 0 => Len(q[l]) >= c.left
    BY <1>0, <1>1, <1>3, <1>b
  <2>2. /\ front' = FrontWithout(l, n) /\ back' = BackWithout(l, n)
        /\ lock' = [lock EXCEPT ![l] = t] /\ at' = [at EXCEPT ![t] = "count"]
        /\ count' = count /\ life' = life
    BY <1>3
  <2> QED BY <1>4, <1>6, <1>8, <1>b, <2>1, <2>2, UnlinkStep
<1> QED BY <1>3, <1>5, <1>8, <1>10 DEF s

\* IocpLLPopFront and IocpLLPopBack of a list with something on it, up to the count.
LEMMA PopEndStep ==
  ASSUME NEW q \in Shape, Shared = {}, OnePops, ChainInv(q), NEW t \in Threads, NEW l \in Lists,
         Single(t, l), Alive(l), lock[l] = None, at[t] \in {"idle", "drain"},
         NEW k \in 1 .. Len(q[l]), NEW left \in Nat, PopEnd(t, l, q[l][k], left),
         left > 0 => Len(q[l]) >= left
  PROVE  /\ ChainInv([q EXCEPT ![l] = RemoveAt(q[l], k)])'
         /\ item' = item /\ got' = [got EXCEPT ![t] = q[l][k]]
<1> DEFINE n == q[l][k]
           c == [NoCall EXCEPT !.list = l, !.node = n, !.left = left]
           s == RemoveAt(q[l], k)
<1>0. TypeOK /\ Chains(q) /\ got \in [Threads -> Nodes \cup {None}]
  BY DEF ChainInv, TypeOK
<1>1. On(q[l], n)
  BY DEF On
<1>2. n \in Nodes /\ n # None /\ home[n] = l /\ l # None /\ ~Nothing(l)
  <2>1. n \in Nodes /\ n # None
    BY <1>1, ShapeFacts
  <2>2. home[n] = l
    BY <1>1, HomeOfNode
  <2>3. ~Nothing(l)
    BY <1>0, <1>1, OnAlive, EmptyIs
  <2> QED BY <2>1, <2>2, <2>3, NodesAssumption
<1>3. /\ Unlink(n) /\ front' = FrontWithout(l, n) /\ back' = BackWithout(l, n)
      /\ lock' = [lock EXCEPT ![l] = t] /\ at' = [at EXCEPT ![t] = "count"]
      /\ call' = [call EXCEPT ![t] = c]
      /\ count' = count /\ life' = life /\ got' = [got EXCEPT ![t] = n]
  BY <1>2 DEF PopEnd, Goto
<1>4. c \in CallRecord /\ c.list = l /\ c.left = left
  BY <1>2 DEF CallRecord, NoCall
<1>6. Took(q[l], l, n, s)
  <2> HIDE DEF TypeOK, Chains, Alive, Unlink
  <2> QED BY <1>0, <1>3, TakeLinks
<1>7. s \in Seq(Nodes) /\ item' = item
  BY <1>6 DEF Took
<1>8. /\ at[t] \in {"idle", "unlink", "drain"} /\ got' \in [Threads -> Nodes \cup {None}]
      /\ c.left > 0 => Len(q[l]) >= c.left
  BY <1>0, <1>2, <1>3, <1>4
<1> HIDE DEF n, c, s
<1>9. ChainInv([q EXCEPT ![l] = s])'
  <2> HIDE DEF ChainInv, Alive, Took, CallRecord
  <2> QED BY <1>3, <1>4, <1>6, <1>7, <1>8, UnlinkStep
<1> QED BY <1>3, <1>7, <1>9 DEF n, s

\* The counting half of a pop: nothing is taken, and the lock is given back.
LEMMA PopCountStep ==
  ASSUME NEW q \in Shape, Shared = {}, OnePops, ChainInv(q), NEW t \in Threads, PopCount(t)
  PROVE  ChainInv(q)'
<1>0. /\ TypeOK /\ Chains(q) /\ NodesOK(q) /\ LocksOK /\ ThreadOK(q, t)
      /\ call[t] \in CallRecord /\ \A u \in Threads : ThreadOK(q, u)
      /\ front \in [Lists -> Nodes \cup {None}] /\ back \in [Lists -> Nodes \cup {None}]
      /\ count \in [Lists -> Int]
  BY DEF ChainInv, TypeOK, CallRecord
<1>1. /\ at[t] = "count" /\ call[t].list \in Lists /\ Alive(call[t].list)
      /\ Single(t, call[t].list) /\ lock[call[t].list] = t
  BY <1>0, PopsAreSingle DEF PopCount, ThreadOK, PopPlaces, LockPlaces
<1>a. PICK l \in Lists, d \in CallRecord : d = call[t] /\ l = call[t].list
  BY <1>0, <1>1
<1>2. /\ Alive(l) /\ lock[l] = t /\ Single(t, l) /\ life[l] = "live"
      /\ Chain(l, q[l]) /\ q[l] \in Seq(Nodes) /\ Len(q[l]) \in Nat
  BY <1>0, <1>1, <1>a, ShapeFacts DEF Chains, Alive
<1>3. /\ Uncount(l, front, back) /\ lock' = [lock EXCEPT ![l] = None] /\ Popped(t, d.left)
      /\ UNCHANGED <<nodeVars, life, got>>
  BY <1>a DEF PopCount
<1>4. PICK p \in {"idle", "drain"}, c \in CallRecord :
        /\ at' = [at EXCEPT ![t] = p] /\ call' = [call EXCEPT ![t] = c]
        /\ p = "idle" => c = NoCall
        /\ p = "drain" => /\ c.list = l /\ c.node = None /\ c.left > 0
                          /\ Len(q[l]) >= c.left
  <2>1. CASE d.left > 1
    <3>1. /\ at' = [at EXCEPT ![t] = "drain"]
          /\ call' = [call EXCEPT ![t] = [@ EXCEPT !.node = None, !.left = d.left - 1]]
      BY <1>3, <2>1 DEF Popped, Goto
    <3> DEFINE c == [d EXCEPT !.node = None, !.left = d.left - 1]
    <3>2. call' = [call EXCEPT ![t] = c]
      BY <1>a, <3>1
    <3>a. d.left \in Nat /\ d.left - 1 \in Nat /\ d.list = l
      BY <1>a, <2>1 DEF CallRecord
    <3>3. c \in CallRecord /\ c.list = l /\ c.node = None /\ c.left = d.left - 1
      BY <1>a, <3>a DEF CallRecord
    <3>b. at[t] = "count" /\ call[t].left > 0
      BY <1>1, <1>a, <2>1, <3>a
    <3>c. Len(q[call[t].list]) >= call[t].left - 1
      BY <1>0, <3>b DEF ThreadOK
    <3>4. Len(q[l]) >= d.left - 1
      BY <1>a, <3>c
    <3> HIDE DEF c
    <3>5. c.left > 0 /\ Len(q[l]) >= c.left
      BY <2>1, <3>3, <3>4, <3>a
    <3> QED BY <3>1, <3>2, <3>3, <3>5
  <2>2. CASE ~(d.left > 1)
    <3>1. at' = [at EXCEPT ![t] = "idle"] /\ call' = [call EXCEPT ![t] = NoCall]
      BY <1>3, <2>2 DEF Popped, Return, Goto
    <3>2. NoCall \in CallRecord
      BY DEF NoCall, CallRecord
    <3> QED BY <3>1, <3>2
  <2> QED BY <2>1, <2>2
<1>5. p \in Places /\ None \in Threads \cup {None}
  BY <1>4 DEF Places
<1>6. /\ at' \in [Threads -> Places] /\ at'[t] = p
      /\ call' \in [Threads -> CallRecord] /\ call'[t] = c
      /\ \A u \in Threads \ {t} : at'[u] = at[u] /\ call'[u] = call[u]
      /\ lock' \in [Lists -> Threads \cup {None}] /\ lock'[l] = None
      /\ \A m \in Lists \ {l} : lock'[m] = lock[m]
      /\ t # None
  <2>1. /\ at \in [Threads -> Places] /\ call \in [Threads -> CallRecord]
        /\ lock \in [Lists -> Threads \cup {None}]
    BY <1>0 DEF TypeOK, CallRecord
  <2>2. at' \in [Threads -> Places] /\ at'[t] = p /\ \A u \in Threads \ {t} : at'[u] = at[u]
    BY <1>3, <1>4, <1>5, <2>1
  <2>3. /\ call' \in [Threads -> CallRecord] /\ call'[t] = c
        /\ \A u \in Threads \ {t} : call'[u] = call[u]
    BY <1>3, <1>4, <1>5, <2>1
  <2>4. /\ lock' \in [Lists -> Threads \cup {None}] /\ lock'[l] = None
        /\ \A m \in Lists \ {l} : lock'[m] = lock[m]
    BY <1>3, <1>4, <1>5, <2>1
  <2>5. t # None
    BY NodesAssumption
  <2> QED BY <2>2, <2>3, <2>4, <2>5
<1>7. \A x : Owned(x)' <=> Owned(x)
  BY <1>1, <1>4, <1>6 DEF Owned
<1>8. Uncounted(l) /\ ~Uncounted(l)'
  <2>1. Uncounted(l)
    BY <1>1, <1>a DEF Uncounted
  <2>2. \A u \in Threads : at[u] = "count" /\ call[u].list = l => u = t
    BY <1>0, <1>2 DEF ThreadOK, LockPlaces
  <2>3. ~Uncounted(l)'
    BY <1>4, <1>6, <2>2 DEF Uncounted
  <2> QED BY <2>1, <2>3
<1>9. \A m \in Lists \ {l} : Uncounted(m)' <=> Uncounted(m)
  BY <1>1, <1>4, <1>6, <1>a DEF Uncounted
<1>10. /\ front[l] = Nth(q[l], 1) /\ back[l] = Nth(q[l], Len(q[l]))
       /\ count[l] = Len(q[l]) + 1
  <2> HIDE DEF Uncounted
  <2> QED BY <1>2, <1>8 DEF Chain
<1>11. /\ count' = [count EXCEPT ![l] = @ - 1] /\ front' = front /\ back' = back
  <2>1. CASE count[l] - 1 <= 0
    <3>1. Len(q[l]) = 0
      BY <1>2, <1>10, <2>1
    <3>2. front[l] = None /\ back[l] = None
      BY <1>10, <3>1 DEF Nth
    <3>3. [front EXCEPT ![l] = None] = front /\ [back EXCEPT ![l] = None] = back
      BY <1>0, <3>2
    <3> QED BY <1>3, <2>1, <3>3 DEF Uncount
  <2>2. CASE ~(count[l] - 1 <= 0)
    BY <1>3, <2>2 DEF Uncount
  <2> QED BY <2>1, <2>2
<1>12. count'[l] = Len(q[l]) /\ (\A m \in Lists \ {l} : count'[m] = count[m])
       /\ count' \in [Lists -> Int]
  BY <1>0, <1>2, <1>10, <1>11
<1>13. /\ next' = next /\ prev' = prev /\ home' = home /\ allocated' = allocated
       /\ item' = item /\ life' = life /\ got' = got
  BY <1>3 DEF nodeVars
<1>14. \A m \in Lists : \A x : On(q[m], x) => x \in Stored(m) /\ x \in Stored(m)'
  <2>1. \A m \in Lists : \A x : On(q[m], x) => x \in Stored(m)
    BY <1>0, OnAlive
  <2> QED BY <1>13, <2>1 DEF Stored
<1>15. Chain(l, q[l])'
  <2>1. \A k \in 1 .. Len(q[l]) :
          q[l][k] \in Stored(l)' /\ home'[q[l][k]] = IF Owned(q[l][k])' THEN None ELSE l
    <3>1. \A k \in 1 .. Len(q[l]) :
            On(q[l], q[l][k]) /\ home[q[l][k]] = IF Owned(q[l][k]) THEN None ELSE l
      BY <1>2 DEF Chain, On
    <3>2. \A x : IF Owned(x)' THEN Owned(x) ELSE ~Owned(x)
      BY <1>7
    <3> HIDE DEF Stored, Owned, On
    <3> QED BY <1>13, <1>14, <3>1, <3>2
  <2>2. count'[l] = Len(q[l]) + IF Uncounted(l)' THEN 1 ELSE 0
    <3> HIDE DEF Uncounted
    <3> QED BY <1>2, <1>8, <1>12
  <2>3. /\ Distinct(q[l]) /\ Linked(q[l], next', prev')
        /\ front'[l] = Nth(q[l], 1) /\ back'[l] = Nth(q[l], Len(q[l]))
    BY <1>2, <1>11, <1>13 DEF Chain
  <2> HIDE DEF Stored, Owned, Uncounted
  <2> QED BY <2>1, <2>2, <2>3 DEF Chain
<1>16. Chains(q)' /\ \A m \in Lists : Alive(m) => Alive(m)'
  <2>1. [q EXCEPT ![l] = q[l]] = q
    BY DEF Shape
  <2>2. \A m \in Lists \ {l} :
          /\ front'[m] = front[m] /\ back'[m] = back[m] /\ count'[m] = count[m]
          /\ (Uncounted(m)' <=> Uncounted(m))
    BY <1>9, <1>11, <1>12
  <2>3. \A m \in Lists \ {l} : \A x : On(q[m], x) =>
          /\ next'[x] = next[x] /\ prev'[x] = prev[x] /\ home'[x] = home[x]
          /\ (Owned(x)' <=> Owned(x)) /\ x \in Stored(m)'
    BY <1>7, <1>13, <1>14
  <2>4. Chains([q EXCEPT ![l] = q[l]])' /\ \A m \in Lists : Alive(m) => Alive(m)'
    <3> HIDE DEF Owned, Uncounted, Stored, Chain, Alive, On, Chains
    <3> QED BY <1>0, <1>2, <1>13, <1>15, <2>2, <2>3, OneList
  <2> QED BY <2>1, <2>4
<1>17. NodesOK(q)'
  BY <1>0, <1>13 DEF NodesOK
<1>18. LocksOK'
  <2>1. \A m \in Lists \ {l} : lock[m] # t
    BY <1>0, <1>6, <1>a DEF LocksOK
  <2> HIDE DEF LocksOK
  <2> QED BY <1>0, <1>6, <2>1, LocksStay
<1>19. \A u \in Threads \ {t} : ThreadOK(q, u)'
  <2>1. lock[l] \in {None, t}
    BY <1>2
  <2> HIDE DEF TypeOK, Alive, ThreadOK
  <2> QED BY <1>0, <1>2, <1>6, <1>16, <2>1, TakeOthers
<1>20. ThreadOK(q, t)'
  <2>1. p = "drain" => Alive(call[t].list)'
    BY <1>2, <1>4, <1>6, <1>16
  <2> HIDE DEF Alive, On
  <2>2. CASE p = "idle"
    BY <1>4, <1>6, <2>2 DEF ThreadOK, LockPlaces, PopPlaces, NoCall
  <2>3. CASE p = "drain"
    BY <1>2, <1>4, <1>6, <2>1, <2>3 DEF ThreadOK, LockPlaces, PopPlaces
  <2> QED BY <1>4, <2>2, <2>3
<1>21. TypeOK'
  BY <1>0, <1>6, <1>11, <1>12, <1>13 DEF TypeOK, CallRecord
<1> QED BY <1>16, <1>17, <1>18, <1>19, <1>20, <1>21 DEF ChainInv

\* IocpLLPopAllCompare takes the node, and has read its successor before.
LEMMA CompareTakeStep ==
  ASSUME NEW q \in Shape, Shared = {}, OnePops, ChainInv(q), NEW t \in Threads, CompareOne(t),
         call[t].node # None, item[call[t].node] = call[t].item
  PROVE  \E l \in Lists : \E k \in 1 .. Len(q[l]) :
           /\ ChainInv([q EXCEPT ![l] = RemoveAt(q[l], k)])'
           /\ q[l][k] \in Nodes /\ item' = item /\ got' = got
<1>0. /\ TypeOK /\ Chains(q) /\ NodesOK(q) /\ LocksOK /\ ThreadOK(q, t)
      /\ call[t] \in CallRecord /\ \A u \in Threads : ThreadOK(q, u)
      /\ got \in [Threads -> Nodes \cup {None}] /\ count \in [Lists -> Int]
      /\ lock \in [Lists -> Threads \cup {None}] /\ at \in [Threads -> Places]
      /\ next \in Ptr
  BY DEF ChainInv, TypeOK, CallRecord, Ptr
<1>1. /\ at[t] = "compare" /\ call[t].list \in Lists /\ Alive(call[t].list)
      /\ Single(t, call[t].list) /\ lock[call[t].list] = t
      /\ On(q[call[t].list], call[t].node)
  BY <1>0, PopsAreSingle DEF CompareOne, ThreadOK, PopPlaces, LockPlaces
<1>n. call[t].node \in Nodes
  BY <1>0, <1>1, OnAlive
<1>a. PICK l \in Lists, n \in Nodes, d \in CallRecord :
        d = call[t] /\ l = call[t].list /\ n = call[t].node
  BY <1>0, <1>1, <1>n
<1>2. /\ Alive(l) /\ lock[l] = t /\ Single(t, l) /\ On(q[l], n) /\ Chain(l, q[l])
  BY <1>0, <1>1, <1>a DEF Chains
<1>3. /\ call' = [call EXCEPT ![t].node = next[n]] /\ Unlink(n)
      /\ Uncount(l, FrontWithout(l, n), BackWithout(l, n))
      /\ lock' = lock /\ at' = at /\ life' = life /\ got' = got
  BY <1>a DEF CompareOne
<1>5. PICK k \in 1 .. Len(q[l]) : q[l][k] = n
  BY <1>2 DEF On
<1> DEFINE s == RemoveAt(q[l], k)
           r == [q EXCEPT ![l] = s]
<1>6. Took(q[l], l, n, s)
  <2>1. Unlink(q[l][k])
    BY <1>3, <1>5
  <2>2. Took(q[l], l, q[l][k], RemoveAt(q[l], k))
    BY <1>0, <1>2, <1>5, <2>1, TakeLinks
  <2> QED BY <1>5, <2>2
<1> HIDE DEF s
<1>7. /\ s \in Seq(Nodes) /\ item' = item /\ Len(s) = Len(q[l]) - 1 /\ Len(q[l]) \in Nat
      /\ \A x : On(s, x) <=> On(q[l], x) /\ x # n
  BY <1>6 DEF Took
<1>r. r \in Shape /\ r[l] = s /\ \A m \in Lists \ {l} : r[m] = q[m]
  BY <1>7 DEF Shape
<1> HIDE DEF r
<1>8. next[n] \in Nodes \cup {None} /\ (next[n] # None => On(s, next[n]))
  <2>1. next[n] # None => next[n] # n /\ On(q[l], next[n])
    BY <1>2, <1>5, NextIs
  <2> HIDE DEF On
  <2> QED BY <1>0, <1>7, <2>1 DEF Ptr
<1> DEFINE c == [d EXCEPT !.node = next[n]]
<1>9. c \in CallRecord /\ c.list = l /\ c.node = next[n] /\ call' = [call EXCEPT ![t] = c]
  BY <1>3, <1>8, <1>a DEF CallRecord
<1>10. at' = [at EXCEPT ![t] = "compare"] /\ lock' = [lock EXCEPT ![l] = t] /\ "compare" \in Places
  BY <1>0, <1>1, <1>2, <1>3 DEF Places
<1> HIDE DEF c
<1>11. /\ at' \in [Threads -> Places] /\ at'[t] = "compare"
       /\ call' \in [Threads -> CallRecord] /\ call'[t] = c
       /\ \A u \in Threads \ {t} : at'[u] = at[u] /\ call'[u] = call[u]
       /\ lock' \in [Lists -> Threads \cup {None}] /\ lock'[l] = t
       /\ \A m \in Lists \ {l} : lock'[m] = lock[m]
       /\ t # None
  <2>1. /\ at \in [Threads -> Places] /\ call \in [Threads -> CallRecord]
        /\ lock \in [Lists -> Threads \cup {None}]
    BY <1>0 DEF TypeOK, CallRecord
  <2>2. at' \in [Threads -> Places] /\ at'[t] = "compare" /\ \A u \in Threads \ {t} : at'[u] = at[u]
    BY <1>9, <1>10, <2>1
  <2>3. /\ call' \in [Threads -> CallRecord] /\ call'[t] = c
        /\ \A u \in Threads \ {t} : call'[u] = call[u]
    BY <1>9, <1>10, <2>1
  <2>4. /\ lock' \in [Lists -> Threads \cup {None}] /\ lock'[l] = t
        /\ \A m \in Lists \ {l} : lock'[m] = lock[m]
    BY <1>9, <1>10, <2>1
  <2>5. t # None
    BY NodesAssumption
  <2> QED BY <2>2, <2>3, <2>4, <2>5
<1>12. \A x : Owned(x)' <=> Owned(x)
  BY <1>1, <1>11 DEF Owned
<1>13. \A m : Uncounted(m)' <=> Uncounted(m)
  BY <1>1, <1>11 DEF Uncounted
<1>14. count[l] = Len(q[l]) + 0 /\ ~Uncounted(l)'
  <2>1. ~Uncounted(l)
    BY <1>1, <1>2, NotUncounted
  <2>2. ~Uncounted(l)'
    BY <1>13, <2>1
  <2> HIDE DEF Uncounted
  <2> QED BY <1>2, <2>1, <2>2 DEF Chain
<1>15. count' = [count EXCEPT ![l] = @ - 1] /\ front' = FrontWithout(l, n) /\ back' = BackWithout(l, n)
  <2>1. /\ FrontWithout(l, n) \in [Lists -> Nodes \cup {None}]
        /\ BackWithout(l, n) \in [Lists -> Nodes \cup {None}]
        /\ FrontWithout(l, n)[l] = Nth(s, 1) /\ BackWithout(l, n)[l] = Nth(s, Len(s))
    BY <1>6 DEF Took
  <2> HIDE DEF FrontWithout, BackWithout
  <2>2. CASE count[l] - 1 <= 0
    <3>a. Len(q[l]) >= 1
      BY <1>5, <1>7
    <3>b. count[l] = Len(q[l])
      BY <1>7, <1>14
    <3>c. Len(q[l]) \in Nat /\ Len(s) = Len(q[l]) - 1
      BY <1>7
    <3>d. Len(q[l]) - 1 <= 0
      BY <2>2, <3>b
    <3>e. \A x \in Nat : x >= 1 /\ x - 1 <= 0 => x - 1 = 0
      OBVIOUS
    <3>f. Len(q[l]) - 1 = 0
      BY <3>a, <3>c, <3>d, <3>e
    <3>1. Len(s) = 0
      BY <3>c, <3>f
    <3>2. FrontWithout(l, n)[l] = None /\ BackWithout(l, n)[l] = None
      BY <2>1, <3>1 DEF Nth
    <3>3. [FrontWithout(l, n) EXCEPT ![l] = None] = FrontWithout(l, n)
      BY <2>1, <3>2
    <3>4. [BackWithout(l, n) EXCEPT ![l] = None] = BackWithout(l, n)
      BY <2>1, <3>2
    <3> QED BY <1>3, <2>2, <3>3, <3>4 DEF Uncount
  <2>3. CASE ~(count[l] - 1 <= 0)
    BY <1>3, <2>3 DEF Uncount
  <2> QED BY <2>2, <2>3
<1>16. /\ count' \in [Lists -> Int] /\ count'[l] = Len(s) + (IF Uncounted(l)' THEN 1 ELSE 0)
       /\ front'[l] = Nth(s, 1) /\ back'[l] = Nth(s, Len(s))
       /\ \A m \in Lists \ {l} :
            /\ front'[m] = front[m] /\ back'[m] = back[m] /\ count'[m] = count[m]
            /\ (Uncounted(m)' <=> Uncounted(m))
  <2>1. count' \in [Lists -> Int] /\ count'[l] = count[l] - 1
        /\ \A m \in Lists \ {l} : count'[m] = count[m]
    BY <1>0, <1>15
  <2>2. count'[l] = Len(s) + (IF Uncounted(l)' THEN 1 ELSE 0)
    <3> HIDE DEF Uncounted
    <3> QED BY <1>7, <1>14, <2>1
  <2> QED BY <1>6, <1>13, <1>15, <2>1, <2>2 DEF Took
<1>17. Chains(r)' /\ NodesOK(r)' /\ \A m \in Lists : Alive(m) => Alive(m)'
  <2> HIDE DEF TypeOK, Chains, NodesOK, Alive, Took, Owned, Uncounted
  <2> QED BY <1>0, <1>2, <1>3, <1>6, <1>12, <1>16, TakeChains DEF r
<1>18. LocksOK'
  <2>1. \A m \in Lists \ {l} : lock[m] # t
    BY <1>0, <1>11, <1>a DEF LocksOK
  <2>2. lock'[l] = t /\ at'[t] \in LockPlaces /\ call'[t].list = l
    BY <1>9, <1>11 DEF LockPlaces
  <2> HIDE DEF LocksOK
  <2> QED BY <1>0, <1>11, <2>1, <2>2, LocksStay
<1>19. \A u \in Threads \ {t} : ThreadOK(r, u)'
  <2>1. lock[l] \in {None, t}
    BY <1>2
  <2> HIDE DEF TypeOK, Alive, ThreadOK
  <2> QED BY <1>0, <1>2, <1>11, <1>17, <1>r, <2>1, TakeOthers
<1>20. ThreadOK(r, t)'
  <2>1. Alive(call[t].list)'
    BY <1>2, <1>9, <1>11, <1>17
  <2> HIDE DEF Alive, On
  <2>2. c.node = None \/ On(r[l], c.node)
    BY <1>8, <1>9, <1>r
  <2> QED BY <1>2, <1>9, <1>11, <2>1, <2>2 DEF ThreadOK, LockPlaces, PopPlaces
<1>21. TypeOK'
  <2>1. /\ next' \in Ptr /\ prev' \in Ptr /\ home' \in [Nodes -> Lists \cup {None}]
        /\ allocated' = allocated \ {n} /\ item' = item
        /\ front' \in [Lists -> Nodes \cup {None}] /\ back' \in [Lists -> Nodes \cup {None}]
    BY <1>6, <1>15 DEF Took
  <2> QED BY <1>0, <1>3, <1>11, <1>16, <2>1 DEF TypeOK, Ptr, CallRecord
<1>22. ChainInv(r)'
  BY <1>17, <1>18, <1>19, <1>20, <1>21 DEF ChainInv
<1> QED BY <1>3, <1>5, <1>7, <1>22 DEF r, s

-----------------------------------------------------------------------------
(* A list begins, is emptied at once, and ends                              *)

\* What a step leaves alone at the other lists.
LEMMA OtherLists ==
  ASSUME NEW q \in Shape, NEW l, Chains(q),
         \A m \in Lists \ {l} :
           /\ front'[m] = front[m] /\ back'[m] = back[m] /\ count'[m] = count[m]
           /\ life'[m] = life[m] /\ (Uncounted(m)' <=> Uncounted(m)),
         \A m \in Lists \ {l} : \A x : On(q[m], x) =>
           /\ next'[x] = next[x] /\ prev'[x] = prev[x] /\ home'[x] = home[x]
           /\ (Owned(x)' <=> Owned(x)) /\ x \in Stored(m)'
  PROVE  \A m \in Lists \ {l} :
           /\ Alive(m)' <=> Alive(m)
           /\ IF Alive(m)' THEN Chain(m, q[m])' ELSE q[m] = <<>> /\ count'[m] <= 0
<1> SUFFICES ASSUME NEW m \in Lists \ {l}
             PROVE  /\ Alive(m)' <=> Alive(m)
                    /\ IF Alive(m)' THEN Chain(m, q[m])' ELSE q[m] = <<>> /\ count'[m] <= 0
  OBVIOUS
<1>1. Alive(m)' <=> Alive(m)
  BY DEF Alive, Stale, Unlinked
<1>2. CASE Alive(m)
  <2>1. Chain(m, q[m]) /\ q[m] \in Seq(Nodes)
    BY <1>2, ShapeFacts DEF Chains
  <2>2. Chain(m, q[m])'
    BY <2>1, ChainStays
  <2> QED BY <1>1, <1>2, <2>2
<1>3. CASE ~Alive(m)
  BY <1>1, <1>3 DEF Chains
<1> QED BY <1>1, <1>2, <1>3

\* A new list is empty.
LEMMA CreateStep ==
  ASSUME NEW q \in Shape, ChainInv(q), NEW l \in Lists, Create(l)
  PROVE  ChainInv(q)' /\ q[l] = <<>>
<1>0. /\ TypeOK /\ Chains(q) /\ NodesOK(q) /\ LocksOK
      /\ \A u \in Threads : ThreadOK(q, u)
  BY DEF ChainInv
<1>1. /\ life[l] = "none" /\ life' = [life EXCEPT ![l] = "live"]
      /\ front' = [front EXCEPT ![l] = None] /\ back' = [back EXCEPT ![l] = None]
      /\ count' = [count EXCEPT ![l] = 0]
      /\ next' = next /\ prev' = prev /\ home' = home /\ item' = item /\ allocated' = allocated
      /\ lock' = lock /\ at' = at /\ call' = call /\ got' = got
  BY DEF Create, nodeVars
<1>2. /\ life'[l] = "live" /\ front'[l] = None /\ back'[l] = None /\ count'[l] = 0
      /\ \A m \in Lists \ {l} :
           front'[m] = front[m] /\ back'[m] = back[m] /\ count'[m] = count[m] /\ life'[m] = life[m]
  BY <1>0, <1>1 DEF TypeOK
<1>3. ~Alive(l) /\ q[l] = <<>>
  BY <1>0, <1>1 DEF Alive, Chains
<1>4. (\A x : Owned(x)' <=> Owned(x)) /\ (\A m : Uncounted(m)' <=> Uncounted(m))
  BY <1>1 DEF Owned, Uncounted
<1>5. ~Uncounted(l)'
  <2>1. ~Uncounted(l)
    BY <1>0, <1>3 DEF Uncounted, ThreadOK
  <2> QED BY <1>4, <2>1
<1>6. Chain(l, q[l])' /\ Alive(l)'
  <2>1. Alive(l)'
    BY <1>2 DEF Alive, Stale, Unlinked
  <2>2. Len(<<>>) = 0 /\ <<>> \in Seq(Nodes)
    OBVIOUS
  <2>3. Distinct(<<>>) /\ Linked(<<>>, next', prev') /\ Nth(<<>>, 1) = None /\ Nth(<<>>, 0) = None
    BY <2>2 DEF Distinct, Linked, Nth
  <2>4. Chain(l, <<>>)'
    <3>1. count'[l] = Len(<<>>) + IF Uncounted(l)' THEN 1 ELSE 0
      <4> HIDE DEF Uncounted
      <4> QED BY <1>2, <1>5, <2>2
    <3> HIDE DEF Uncounted
    <3> QED BY <1>2, <2>2, <2>3, <3>1 DEF Chain
  <2> QED BY <1>3, <2>1, <2>4
<1>7. \A m \in Lists \ {l} :
        /\ Alive(m)' <=> Alive(m)
        /\ IF Alive(m)' THEN Chain(m, q[m])' ELSE q[m] = <<>> /\ count'[m] <= 0
  <2>1. \A m \in Lists \ {l} : \A x : On(q[m], x) =>
          /\ next'[x] = next[x] /\ prev'[x] = prev[x] /\ home'[x] = home[x]
          /\ (Owned(x)' <=> Owned(x)) /\ x \in Stored(m)'
    <3>1. \A m \in Lists \ {l} : \A x : On(q[m], x) => x \in Stored(m)
      BY <1>0, OnAlive
    <3>2. \A m : Stored(m)' = Stored(m)
      BY <1>1 DEF Stored
    <3> QED BY <1>1, <1>4, <3>1, <3>2
  <2> HIDE DEF Chains, Alive, Chain, On, Owned, Uncounted, Stored
  <2> QED BY <1>0, <1>2, <1>4, <2>1, OtherLists
<1>8. Chains(q)' /\ \A m \in Lists : Alive(m) => Alive(m)'
  BY <1>6, <1>7 DEF Chains
<1>9. NodesOK(q)' /\ LocksOK'
  BY <1>0, <1>1 DEF NodesOK, LocksOK
<1>10. \A u \in Threads : ThreadOK(q, u)'
  <2> SUFFICES ASSUME NEW u \in Threads
               PROVE  ThreadOK(q, u)'
    OBVIOUS
  <2>1. at[u] \notin {"idle", "fault"} => Alive(call[u].list)'
    BY <1>0, <1>1, <1>8 DEF ThreadOK
  <2> HIDE DEF Alive, On
  <2> QED BY <1>0, <1>1, <2>1 DEF ThreadOK, LockPlaces, PopPlaces
<1>11. TypeOK'
  BY <1>0, <1>1 DEF TypeOK
<1> QED BY <1>3, <1>8, <1>9, <1>10, <1>11 DEF ChainInv

\* A list ends with nothing on it, and nobody at work on it.
LEMMA DestroyStep ==
  ASSUME NEW q \in Shape, ChainInv(q), NEW t \in Threads, NEW l \in Lists, Destroy(t, l)
  PROVE  ChainInv(q)' /\ q[l] = <<>>
<1>0. /\ TypeOK /\ Chains(q) /\ NodesOK(q) /\ LocksOK
      /\ \A u \in Threads : ThreadOK(q, u)
  BY DEF ChainInv
<1>1. /\ life[l] = "live" /\ Nothing(l) /\ lock[l] = None
      /\ \A u \in Threads : call[u].list # l
      /\ life' = [life EXCEPT ![l] = "gone"] /\ front' = front /\ back' = back /\ count' = count
      /\ next' = next /\ prev' = prev /\ home' = home /\ item' = item /\ allocated' = allocated
      /\ lock' = lock /\ at' = at /\ call' = call /\ got' = got
  BY DEF Destroy, nodeVars
<1>2. life'[l] = "gone" /\ \A m \in Lists \ {l} : life'[m] = life[m]
  BY <1>0, <1>1 DEF TypeOK
<1>3. q[l] = <<>> /\ count[l] <= 0
  <2>1. CASE Alive(l)
    <3>1. q[l] = <<>> /\ Chain(l, q[l])
      BY <1>0, <1>1, <2>1, EmptyIs
    <3>2. ~Uncounted(l)
      BY <1>1 DEF Uncounted
    <3> HIDE DEF Uncounted
    <3>3. count[l] = Len(q[l]) + 0
      BY <3>1, <3>2 DEF Chain
    <3> QED BY <3>1, <3>3
  <2>2. CASE ~Alive(l)
    BY <1>0, <2>2 DEF Chains
  <2> QED BY <2>1, <2>2
<1>4. (\A x : Owned(x)' <=> Owned(x)) /\ (\A m : Uncounted(m)' <=> Uncounted(m))
  BY <1>1 DEF Owned, Uncounted
<1>6. ~Alive(l)'
  BY <1>2 DEF Alive
<1>7. \A m \in Lists \ {l} :
        /\ Alive(m)' <=> Alive(m)
        /\ IF Alive(m)' THEN Chain(m, q[m])' ELSE q[m] = <<>> /\ count'[m] <= 0
  <2>1. \A m \in Lists \ {l} : \A x : On(q[m], x) =>
          /\ next'[x] = next[x] /\ prev'[x] = prev[x] /\ home'[x] = home[x]
          /\ (Owned(x)' <=> Owned(x)) /\ x \in Stored(m)'
    <3>1. \A m \in Lists \ {l} : \A x : On(q[m], x) => x \in Stored(m)
      BY <1>0, OnAlive
    <3>2. \A m : Stored(m)' = Stored(m)
      BY <1>1 DEF Stored
    <3> QED BY <1>1, <1>4, <3>1, <3>2
  <2>2. \A m \in Lists \ {l} :
          /\ front'[m] = front[m] /\ back'[m] = back[m] /\ count'[m] = count[m]
          /\ life'[m] = life[m] /\ (Uncounted(m)' <=> Uncounted(m))
    BY <1>1, <1>2, <1>4
  <2> HIDE DEF Chains, Alive, Chain, On, Owned, Uncounted, Stored
  <2> QED BY <1>0, <2>1, <2>2, OtherLists
<1>8. Chains(q)' /\ \A m \in Lists \ {l} : Alive(m) => Alive(m)'
  BY <1>1, <1>3, <1>6, <1>7 DEF Chains
<1>9. NodesOK(q)' /\ LocksOK'
  BY <1>0, <1>1 DEF NodesOK, LocksOK
<1>10. \A u \in Threads : ThreadOK(q, u)'
  <2> SUFFICES ASSUME NEW u \in Threads
               PROVE  ThreadOK(q, u)'
    OBVIOUS
  <2>1. at[u] \notin {"idle", "fault"} => Alive(call[u].list)'
    BY <1>0, <1>1, <1>8 DEF ThreadOK
  <2> HIDE DEF Alive, On
  <2> QED BY <1>0, <1>1, <2>1 DEF ThreadOK, LockPlaces, PopPlaces
<1>11. TypeOK'
  BY <1>0, <1>1 DEF TypeOK
<1> QED BY <1>3, <1>8, <1>9, <1>10, <1>11 DEF ChainInv

\* IocpLLPopAll: every node is off, nothing is counted, and the list is not used again.
LEMMA PopAllStep ==
  ASSUME NEW q \in Shape, Shared = {}, OnePops, ChainInv(q), NEW t \in Threads, NEW l \in Lists,
         PopAll(t, l)
  PROVE  /\ ChainInv([q EXCEPT ![l] = <<>>])' /\ q[l] # <<>>
         /\ item' = item /\ got' = got
<1> DEFINE r == [q EXCEPT ![l] = <<>>]
           gone == ToSet(q[l])
           blank(ptr) == [n \in Nodes |-> IF n \in gone \ allocated THEN None ELSE ptr[n]]
<1>r. r \in Shape /\ r[l] = <<>> /\ \A m \in Lists \ {l} : r[m] = q[m]
  BY DEF Shape
<1> HIDE DEF r
<1>0. /\ TypeOK /\ Chains(q) /\ NodesOK(q) /\ LocksOK
      /\ \A u \in Threads : ThreadOK(q, u)
  BY DEF ChainInv
<1>a. /\ at[t] = "idle" /\ lock[l] = None /\ Alive(l) /\ Single(t, l) /\ ~Nothing(l)
      /\ life' = life /\ item' = item /\ front' = front /\ back' = back /\ lock' = lock
      /\ at' = at /\ call' = call /\ got' = got
  BY PopsAreSingle DEF PopAll, Pops, Calls, Usable, Alive
<1>1. /\ Chain(l, q[l]) /\ q[l] # <<>> /\ q[l] \in Seq(Nodes) /\ life[l] = "live"
  BY <1>0, <1>a, EmptyIs, ShapeFacts DEF Nothing
<1>2. Walk(front[l], next) = q[l] /\ Cardinality(gone) = Len(q[l])
  <2>1. /\ Distinct(q[l]) /\ front[l] = Nth(q[l], 1)
        /\ \A k \in 1 .. Len(q[l]) : next[q[l][k]] = Nth(q[l], k + 1)
    BY <1>1 DEF Chain, Linked
  <2>2. Walk(Nth(q[l], 1), next) = q[l]
    BY <1>1, <2>1, WalkIs
  <2> QED BY <1>1, <2>1, <2>2, DistinctIsShort
<1>3. /\ next' = blank(next) /\ prev' = blank(prev) /\ home' = blank(home)
      /\ allocated' = allocated \ gone
      /\ count' = [count EXCEPT ![l] = @ - Cardinality(gone)]
  BY <1>2 DEF PopAll
<1>4. \A x : x \in gone <=> On(q[l], x)
  BY DEF ToSet, On
<1> HIDE DEF gone
<1>5. /\ \A x \in Nodes : x \notin gone => next'[x] = next[x] /\ prev'[x] = prev[x] /\ home'[x] = home[x]
      /\ \A x \in Nodes : x \in gone \ allocated => next'[x] = None /\ prev'[x] = None /\ home'[x] = None
      /\ next' \in [Nodes -> Nodes \cup {None}] /\ prev' \in [Nodes -> Nodes \cup {None}]
      /\ home' \in [Nodes -> Lists \cup {None}]
  BY <1>0, <1>3 DEF TypeOK
<1>6. (\A x : Owned(x)' <=> Owned(x)) /\ (\A m : Uncounted(m)' <=> Uncounted(m))
  BY <1>a DEF Owned, Uncounted
<1>7. /\ count' \in [Lists -> Int] /\ count'[l] = 0
      /\ \A m \in Lists \ {l} : count'[m] = count[m]
  <2>1. ~Uncounted(l)
    BY <1>a, NotUncounted
  <2>2. count[l] = Len(q[l]) + 0
    <3> HIDE DEF Uncounted
    <3> QED BY <1>1, <2>1 DEF Chain
  <2>3. Len(q[l]) \in Nat /\ count \in [Lists -> Int]
    BY <1>0, <1>1 DEF TypeOK
  <2>4. count' = [count EXCEPT ![l] = @ - Len(q[l])]
    BY <1>2, <1>3
  <2> QED BY <2>2, <2>3, <2>4
<1>8. ~Alive(l)'
  BY <1>a, <1>7 DEF Alive, Stale, Unlinked, Nothing
<1>9. \A m \in Lists \ {l} : \A x : On(q[m], x) =>
        /\ next'[x] = next[x] /\ prev'[x] = prev[x] /\ home'[x] = home[x]
        /\ (Owned(x)' <=> Owned(x)) /\ x \in Stored(m)' /\ x \notin gone
  <2> SUFFICES ASSUME NEW m \in Lists \ {l}, NEW x, On(q[m], x)
               PROVE  /\ next'[x] = next[x] /\ prev'[x] = prev[x] /\ home'[x] = home[x]
                      /\ (Owned(x)' <=> Owned(x)) /\ x \in Stored(m)' /\ x \notin gone
    OBVIOUS
  <2>1. x \in Nodes /\ x \in Stored(m)
    BY <1>0, OnAlive
  <2>2. x \notin gone
    BY <1>0, <1>4, <2>1 DEF NodesOK
  <2>3. x \in Stored(m)'
    BY <1>3, <2>1, <2>2 DEF Stored
  <2> QED BY <1>5, <1>6, <2>1, <2>2, <2>3
<1>10. \A m \in Lists \ {l} :
         /\ Alive(m)' <=> Alive(m)
         /\ IF Alive(m)' THEN Chain(m, q[m])' ELSE q[m] = <<>> /\ count'[m] <= 0
  <2>1. \A m \in Lists \ {l} :
          /\ front'[m] = front[m] /\ back'[m] = back[m] /\ count'[m] = count[m]
          /\ life'[m] = life[m] /\ (Uncounted(m)' <=> Uncounted(m))
    BY <1>6, <1>7, <1>a
  <2>2. \A m \in Lists \ {l} : \A x : On(q[m], x) =>
          /\ next'[x] = next[x] /\ prev'[x] = prev[x] /\ home'[x] = home[x]
          /\ (Owned(x)' <=> Owned(x)) /\ x \in Stored(m)'
    BY <1>9
  <2> HIDE DEF Chains, Alive, Chain, On, Owned, Uncounted, Stored
  <2> QED BY <1>0, <2>1, <2>2, OtherLists
<1>11. Chains(r)'
  <2> HIDE DEF Alive, Chain
  <2> QED BY <1>7, <1>8, <1>10, <1>r DEF Chains
<1>12. NodesOK(r)'
  <2>1. \A m \in Lists : \A x : On(r[m], x) <=> On(q[m], x) /\ m # l
    BY <1>r DEF On
  <2>2. \A x \in Nodes, m, p \in Lists : On(r[m], x) /\ On(r[p], x) => m = p
    BY <1>0, <2>1 DEF NodesOK
  <2>3. \A x \in allocated' : \E m \in Owning : On(r[m], x)
    <3> SUFFICES ASSUME NEW x \in allocated, x \notin gone
                 PROVE  \E m \in Owning : On(r[m], x)
      BY <1>3
    <3>1. PICK m \in Owning : On(q[m], x)
      BY <1>0 DEF NodesOK
    <3> QED BY <1>4, <2>1, <3>1, CallersAssumption
  <2>4. ASSUME NEW x \in Embedded, \A m \in Lists : ~On(r[m], x)
        PROVE  next'[x] = None /\ prev'[x] = None /\ home'[x] = None
    <3>1. x \in Nodes /\ x \notin allocated
      BY <1>0, CallersAssumption DEF TypeOK
    <3>2. CASE x \in gone
      BY <1>5, <3>1, <3>2
    <3>3. CASE x \notin gone
      <4>1. \A m \in Lists : ~On(q[m], x)
        BY <1>4, <2>1, <2>4, <3>3
      <4> QED BY <1>0, <1>5, <3>1, <3>3, <4>1 DEF NodesOK
    <3> QED BY <3>2, <3>3
  <2> QED BY <2>2, <2>3, <2>4 DEF NodesOK
<1>13. LocksOK'
  BY <1>0, <1>a DEF LocksOK
<1>14. \A u \in Threads \ {t} : ThreadOK(r, u)'
  <2>1. /\ lock[l] \in {None, t}
        /\ \A u \in Threads \ {t} : at'[u] = at[u] /\ call'[u] = call[u]
        /\ \A m \in Lists \ {l} : r[m] = q[m] /\ lock'[m] = lock[m] /\ (Alive(m) => Alive(m)')
    BY <1>10, <1>a, <1>r
  <2> HIDE DEF TypeOK, Alive, ThreadOK
  <2> QED BY <1>0, <1>a, <1>r, <2>1, TakeOthers
<1>15. ThreadOK(r, t)'
  BY <1>0, <1>a DEF ThreadOK, LockPlaces, PopPlaces
<1>16. TypeOK'
  <2>1. allocated' \subseteq Nodes \ Embedded
    BY <1>0, <1>3 DEF TypeOK
  <2> QED BY <1>0, <1>5, <1>7, <1>a, <2>1 DEF TypeOK
<1>17. ChainInv(r)'
  BY <1>11, <1>12, <1>13, <1>14, <1>15, <1>16 DEF ChainInv
<1> QED BY <1>1, <1>17, <1>a DEF r

-----------------------------------------------------------------------------
(* Every step                                                               *)

\* What a step makes of the lists: a node comes to one end of one, goes from it, or all go.
Joins(q, r, l) ==
  \E n \in Nodes, i \in Items :
    /\ r = [q EXCEPT ![l] = Append(q[l], n)] \/ r = [q EXCEPT ![l] = <<n>> \o q[l]]
    /\ item' = [item EXCEPT ![n] = i] /\ got' = got /\ \A m \in Lists : ~On(q[m], n)
Leaves(q, r, l) ==
  \E k \in 1 .. Len(q[l]) :
    r = [q EXCEPT ![l] = RemoveAt(q[l], k)] /\ item' = item /\ got' = got
IsHandedOut(q, r, l) ==
  \E t \in Threads, k \in {1, Len(q[l])} :
    /\ q[l] # <<>> /\ r = [q EXCEPT ![l] = RemoveAt(q[l], k)]
    /\ item' = item /\ got' = [got EXCEPT ![t] = q[l][k]]
AllLeave(q, r, l) ==
  q[l] # <<>> /\ r = [q EXCEPT ![l] = <<>>] /\ item' = item /\ got' = got
Moves(q, r) ==
  \/ r = q /\ item' = item /\ got' = got
  \/ \E l \in Lists :
       Joins(q, r, l) \/ Leaves(q, r, l) \/ IsHandedOut(q, r, l) \/ AllLeave(q, r, l)

Goes(q) == \E r \in Shape : ChainInv(r)' /\ Moves(q, r)

LEMMA StaysThere ==
  ASSUME NEW q \in Shape, ChainInv(q)', item' = item, got' = got
  PROVE  Goes(q)
BY DEF Goes, Moves

LEMMA JoinGoes ==
  ASSUME NEW q \in Shape, ChainInv(q), NEW t \in Threads, NEW l \in Lists, NEW n \in Nodes,
         NEW i \in Items, PushBack(t, l, n, i) \/ PushFront(t, l, n, i)
  PROVE  Goes(q)
<1>1. /\ item' = [item EXCEPT ![n] = i] /\ got' = got /\ Pushable(l, n)
  BY DEF PushBack, PushFront, PushBegin
<1>2. \A m \in Lists : ~On(q[m], n)
  BY <1>1, FreeNode
<1>3. /\ [q EXCEPT ![l] = Append(q[l], n)] \in Shape
      /\ [q EXCEPT ![l] = <<n>> \o q[l]] \in Shape
  <2>1. q[l] \in Seq(Nodes)
    BY ShapeFacts
  <2>2. Append(q[l], n) \in Seq(Nodes) /\ <<n>> \o q[l] \in Seq(Nodes)
    BY <2>1, AppendIs, ConsIs
  <2> HIDE DEF Shape
  <2> QED BY <2>2, ShapeFacts
<1>4. CASE PushBack(t, l, n, i)
  <2> DEFINE r == [q EXCEPT ![l] = Append(q[l], n)]
  <2>1. ChainInv(r)'
    BY <1>4, PushBackStep
  <2>2. Joins(q, r, l)
    BY <1>1, <1>2 DEF Joins
  <2>3. r \in Shape
    BY <1>3
  <2> HIDE DEF r
  <2> QED BY <2>1, <2>2, <2>3 DEF Goes, Moves
<1>5. CASE PushFront(t, l, n, i)
  <2> DEFINE r == [q EXCEPT ![l] = <<n>> \o q[l]]
  <2>1. ChainInv(r)'
    BY <1>5, PushFrontStep
  <2>2. Joins(q, r, l)
    BY <1>1, <1>2 DEF Joins
  <2>3. r \in Shape
    BY <1>3
  <2> HIDE DEF r
  <2> QED BY <2>1, <2>2, <2>3 DEF Goes, Moves
<1> QED BY <1>4, <1>5

LEMMA LessIsShape ==
  ASSUME NEW q \in Shape, NEW l \in Lists
  PROVE  /\ [q EXCEPT ![l] = <<>>] \in Shape
         /\ \A k \in 1 .. Len(q[l]) : [q EXCEPT ![l] = RemoveAt(q[l], k)] \in Shape
<1>1. q[l] \in Seq(Nodes) /\ <<>> \in Seq(Nodes)
  BY ShapeFacts
<1>2. \A k \in 1 .. Len(q[l]) : RemoveAt(q[l], k) \in Seq(Nodes)
  BY <1>1, RemoveAtIs
<1> QED BY <1>1, <1>2, ShapeFacts

LEMMA LeaveGoes ==
  ASSUME NEW q \in Shape, Shared = {}, OnePops, ChainInv(q), NEW t \in Threads,
         \/ PopUnlink(t)
         \/ CompareOne(t) /\ call[t].node # None /\ item[call[t].node] = call[t].item
  PROVE  Goes(q)
<1>a. PICK l \in Lists : \E k \in 1 .. Len(q[l]) :
        ChainInv([q EXCEPT ![l] = RemoveAt(q[l], k)])' /\ item' = item /\ got' = got
  <2>1. CASE PopUnlink(t)
    BY <2>1, PopUnlinkStep
  <2>2. CASE CompareOne(t) /\ call[t].node # None /\ item[call[t].node] = call[t].item
    BY <2>2, CompareTakeStep
  <2> QED BY <2>1, <2>2
<1>1. PICK k \in 1 .. Len(q[l]) :
        ChainInv([q EXCEPT ![l] = RemoveAt(q[l], k)])' /\ item' = item /\ got' = got
  BY <1>a
<1> DEFINE r == [q EXCEPT ![l] = RemoveAt(q[l], k)]
<1>2. r \in Shape
  BY <1>1, LessIsShape
<1>3. Leaves(q, r, l)
  BY <1>1 DEF Leaves
<1>4. ChainInv(r)'
  BY <1>1
<1> HIDE DEF r
<1> QED BY <1>2, <1>3, <1>4 DEF Goes, Moves

LEMMA HandOutGoes ==
  ASSUME NEW q \in Shape, Shared = {}, OnePops, ChainInv(q), NEW t \in Threads,
         \/ DrainOne(t)
         \/ \E l \in Lists : PopFront(t, l) \/ PopBack(t, l)
  PROVE  Goes(q)
<1>0. TypeOK /\ Chains(q) /\ ThreadOK(q, t)
  BY DEF ChainInv
<1>1. PICK l \in Lists, left \in Nat :
        /\ at[t] \in {"idle", "drain"} /\ Single(t, l) /\ Alive(l) /\ lock[l] = None
        /\ PopEnd(t, l, front[l], left) \/ PopEnd(t, l, back[l], left)
        /\ left > 0 => Len(q[l]) >= left
        /\ at[t] = "idle" => left = 0
        /\ at[t] = "drain" => left > 0
  <2>1. CASE DrainOne(t)
    <3>1. /\ at[t] = "drain" /\ lock[call[t].list] = None
          /\ PopEnd(t, call[t].list, front[call[t].list], call[t].left)
      BY <2>1 DEF DrainOne
    <3>2. /\ call[t].list \in Lists /\ Alive(call[t].list) /\ Single(t, call[t].list)
          /\ call[t].left > 0 /\ Len(q[call[t].list]) >= call[t].left /\ call[t].left \in Nat
      BY <1>0, <3>1, PopsAreSingle DEF ThreadOK, PopPlaces, TypeOK
    <3> HIDE DEF Alive, PopEnd
    <3> QED BY <3>1, <3>2
  <2>2. CASE \E l \in Lists : PopFront(t, l) \/ PopBack(t, l)
    <3>1. PICK l \in Lists : PopFront(t, l) \/ PopBack(t, l)
      BY <2>2
    <3>2. /\ at[t] = "idle" /\ Single(t, l) /\ Alive(l) /\ lock[l] = None
          /\ PopEnd(t, l, front[l], 0) \/ PopEnd(t, l, back[l], 0)
      BY <3>1, PopsAreSingle DEF PopFront, PopBack, Pops, Calls, Usable, Alive
    <3>3. 0 \in Nat /\ ~(0 > 0)
      OBVIOUS
    <3> HIDE DEF Alive, PopEnd
    <3> QED BY <3>2, <3>3
  <2> QED BY <2>1, <2>2
<1>2. /\ Chain(l, q[l]) /\ q[l] \in Seq(Nodes) /\ Len(q[l]) \in Nat
      /\ (q[l] = <<>> <=> Len(q[l]) = 0)
      /\ front[l] = Nth(q[l], 1) /\ back[l] = Nth(q[l], Len(q[l]))
  BY <1>0, <1>1, ShapeFacts DEF Chains, Chain
<1>3. CASE q[l] = <<>>
  <2>1. front[l] = None /\ back[l] = None
    BY <1>2, <1>3 DEF Nth
  <2>2. at[t] = "idle" /\ left = 0
    BY <1>1, <1>2, <1>3
  <2>3. PopEnd(t, l, None, 0)
    BY <1>1, <2>1, <2>2
  <2>4. ChainInv(q)'
    BY <2>2, <2>3, FaultStep
  <2>5. item' = item /\ got' = got
    BY <2>3 DEF PopEnd, nodeVars
  <2> QED BY <2>4, <2>5, StaysThere
<1>4. CASE q[l] # <<>>
  <2>1. 1 \in 1 .. Len(q[l]) /\ Len(q[l]) \in 1 .. Len(q[l])
    BY <1>2, <1>4
  <2>2. front[l] = q[l][1] /\ back[l] = q[l][Len(q[l])]
    BY <1>2, <2>1 DEF Nth
  <2>3. PICK k \in {1, Len(q[l])} : PopEnd(t, l, q[l][k], left) /\ k \in 1 .. Len(q[l])
    BY <1>1, <2>1, <2>2
  <2> DEFINE r == [q EXCEPT ![l] = RemoveAt(q[l], k)]
  <2>4. ChainInv(r)' /\ item' = item /\ got' = [got EXCEPT ![t] = q[l][k]]
    BY <1>1, <2>3, PopEndStep
  <2>5. r \in Shape
    BY <2>3, LessIsShape
  <2>6. IsHandedOut(q, r, l)
    BY <1>4, <2>4, <2>3 DEF IsHandedOut
  <2> HIDE DEF r
  <2> QED BY <2>4, <2>5, <2>6 DEF Goes, Moves
<1> QED BY <1>3, <1>4

\* Every step keeps the chains, and moves a node as the contract allows.
LEMMA ChainStep ==
  ASSUME NEW q \in Shape, Shared = {}, OnePops, ChainInv(q), [Next]_vars
  PROVE  Goes(q)
<1>1. CASE UNCHANGED vars
  <2>1. /\ next' = next /\ prev' = prev /\ home' = home /\ item' = item /\ front' = front
        /\ back' = back /\ count' = count /\ lock' = lock /\ life' = life
        /\ allocated' = allocated /\ at' = at /\ call' = call /\ got' = got
    BY <1>1 DEF vars
  <2>2. (\A x : Owned(x)' <=> Owned(x)) /\ (\A m : Uncounted(m)' <=> Uncounted(m))
    BY <2>1 DEF Owned, Uncounted
  <2>3. TypeOK' /\ NodesOK(q)' /\ LocksOK' /\ \A t \in Threads : ThreadOK(q, t)'
    BY <2>1 DEF ChainInv, TypeOK, NodesOK, LocksOK, ThreadOK, Alive, Stale, Unlinked
  <2>4. \A l \in Lists : Alive(l)' <=> Alive(l)
    BY <2>1 DEF Alive, Stale, Unlinked
  <2>5. \A l \in Lists : \A s : Chain(l, s) => Chain(l, s)'
    BY <2>1 DEF Chain, Stored, Owned, Uncounted
  <2>6. Chains(q)'
    BY <2>1, <2>4, <2>5 DEF ChainInv, Chains
  <2> QED BY <2>1, <2>3, <2>6, StaysThere DEF ChainInv
<1>2. CASE \E l \in Lists : Create(l)
  <2>1. PICK l \in Lists : Create(l)
    BY <1>2
  <2>2. item' = item /\ got' = got
    BY <2>1 DEF Create, nodeVars
  <2> QED BY <2>1, <2>2, CreateStep, StaysThere
<1>3. ASSUME NEW t \in Threads, Step(t)
      PROVE  Goes(q)
  <2>1. CASE PushOwn(t)
    <3>1. item' = item /\ got' = got
      BY <2>1 DEF PushOwn
    <3> QED BY <2>1, <3>1, PushOwnStep, StaysThere
  <2>2. CASE PopCount(t)
    <3>1. item' = item /\ got' = got
      BY <2>2 DEF PopCount, nodeVars
    <3> QED BY <2>2, <3>1, PopCountStep, StaysThere
  <2>3. CASE PopUnlink(t)
    BY <2>3, LeaveGoes
  <2>4. CASE DrainOne(t) \/ \E l \in Lists : PopFront(t, l) \/ PopBack(t, l)
    BY <2>4, HandOutGoes
  <2>5. CASE CompareOne(t)
    <3>1. CASE call[t].node # None /\ item[call[t].node] = call[t].item
      BY <2>5, <3>1, LeaveGoes
    <3>2. CASE call[t].node = None \/ item[call[t].node] # call[t].item
      <4>1. item' = item /\ got' = got
        BY <2>5, <3>2 DEF CompareOne, nodeVars
      <4> QED BY <2>5, <3>2, <4>1, ComparePassStep, StaysThere
    <3> QED BY <3>1, <3>2
  <2>6. ASSUME NEW n \in Nodes, PopTest(t, n)
        PROVE  Goes(q)
    <3>1. item' = item /\ got' = got
      BY <2>6 DEF PopTest, nodeVars
    <3> QED BY <2>6, <3>1, PopTestStep, StaysThere
  <2>7. ASSUME NEW l \in Lists, Destroy(t, l)
        PROVE  Goes(q)
    <3>1. item' = item /\ got' = got
      BY <2>7 DEF Destroy, nodeVars
    <3> QED BY <2>7, <3>1, DestroyStep, StaysThere
  <2>8. ASSUME NEW l \in Lists, GetCount(t, l)
        PROVE  Goes(q)
    <3>1. item' = item /\ got' = got
      BY <2>8 DEF GetCount, nodeVars
    <3> QED BY <2>8, <3>1, GetCountStep, StaysThere
  <2>9. ASSUME NEW l \in Lists, PopAll(t, l)
        PROVE  Goes(q)
    <3> DEFINE r == [q EXCEPT ![l] = <<>>]
    <3>1. ChainInv(r)' /\ q[l] # <<>> /\ item' = item /\ got' = got
      BY <2>9, PopAllStep
    <3>2. r \in Shape
      BY LessIsShape
    <3>3. AllLeave(q, r, l)
      BY <3>1 DEF AllLeave
    <3> HIDE DEF r
    <3> QED BY <3>1, <3>2, <3>3 DEF Goes, Moves
  <2>10. ASSUME NEW l \in Lists, NEW i \in Items, PopAllCompare(t, l, i)
         PROVE  Goes(q)
    <3>1. item' = item /\ got' = got
      BY <2>10 DEF PopAllCompare, nodeVars
    <3> QED BY <2>10, <3>1, PopAllCompareStep, StaysThere
  <2>11. ASSUME NEW l \in Lists, NEW n \in Nodes, NEW i \in Items,
                PushBack(t, l, n, i) \/ PushFront(t, l, n, i)
         PROVE  Goes(q)
    BY <2>11, JoinGoes
  <2> QED BY <1>3, <2>1, <2>2, <2>3, <2>4, <2>5, <2>6, <2>7, <2>8, <2>9, <2>10, <2>11 DEF Step
<1> QED BY <1>1, <1>2, <1>3 DEF Next

\* A thread starts on a pop of a list only when no other is at work on one of it.
Starts(t) ==
  /\ \A u \in Threads \ {t} : at'[u] = at[u] /\ call'[u] = call[u]
  /\ \A l \in Lists : Popping(t, l)' => Popping(t, l) \/ Single(t, l)

LEMMA StepStarts ==
  ASSUME TypeOK, Shared = {}, NEW t \in Threads, Step(t)
  PROVE  Starts(t)
<1>0. /\ at \in [Threads -> Places] /\ call \in [Threads -> CallRecord]
      /\ DOMAIN at = Threads /\ DOMAIN call = Threads
  BY DEF TypeOK, CallRecord
<1>a. ASSUME NEW p, Goto(t, p), p \notin PopPlaces, NEW c, call' = [call EXCEPT ![t] = c]
      PROVE  Starts(t)
  BY <1>0, <1>a DEF Starts, Goto, Popping
<1>b. ASSUME NEW p, Goto(t, p), NEW c, call' = [call EXCEPT ![t] = c],
             at[t] \in PopPlaces, c.list = call[t].list
      PROVE  Starts(t)
  BY <1>0, <1>b DEF Starts, Goto, Popping
<1>c. ASSUME NEW p, Goto(t, p), NEW c, call' = [call EXCEPT ![t] = c], NEW l \in Lists,
             c.list = l, MayPop(t, l)
      PROVE  Starts(t)
  <2>1. Single(t, l)
    BY <1>c, PopsAreSingle
  <2> QED BY <1>0, <1>c, <2>1 DEF Starts, Goto, Popping
<1>d. ASSUME Return(t) PROVE Starts(t)
  BY <1>a, <1>d DEF Return, PopPlaces
<1>e. ASSUME NEW left, Popped(t, left), ~(left > 1) \/ at[t] \in PopPlaces
      PROVE  Starts(t)
  <2>1. CASE left > 1
    <3>1. PICK c : c = [call[t] EXCEPT !.node = None, !.left = left - 1]
      OBVIOUS
    <3>2. c.list = call[t].list /\ call' = [call EXCEPT ![t] = c] /\ Goto(t, "drain")
      BY <1>0, <1>e, <2>1, <3>1 DEF Popped, CallRecord
    <3>3. at[t] \in PopPlaces
      BY <1>e, <2>1
    <3> QED BY <1>b, <3>2, <3>3
  <2>2. CASE ~(left > 1)
    BY <1>d, <1>e, <2>2 DEF Popped
  <2> QED BY <2>1, <2>2
<1>f. ASSUME NEW l, NEW n, NEW left, PopEnd(t, l, n, left),
             \/ l \in Lists /\ MayPop(t, l) /\ left = 0
             \/ at[t] \in PopPlaces /\ call[t].list = l
      PROVE  Starts(t)
  <2>1. CASE n = None
    <3>1. Goto(t, "fault")
          /\ call' = [call EXCEPT ![t] = [NoCall EXCEPT !.list = l, !.left = left]]
      BY <1>f, <2>1 DEF PopEnd
    <3> QED BY <1>a, <3>1 DEF PopPlaces
  <2>2. CASE n # None /\ (home[n] = None \/ Nothing(home[n]))
    <3>1. Popped(t, left)
      BY <1>f, <2>2 DEF PopEnd
    <3>2. left = 0 => ~(left > 1)
      OBVIOUS
    <3> QED BY <1>e, <1>f, <3>1, <3>2
  <2>3. CASE n # None /\ ~(home[n] = None \/ Nothing(home[n]))
    <3>1. PICK c : c = [NoCall EXCEPT !.list = l, !.node = n, !.left = left]
      OBVIOUS
    <3>2. c.list = l /\ call' = [call EXCEPT ![t] = c] /\ Goto(t, "count")
      BY <1>f, <2>3, <3>1 DEF PopEnd, NoCall
    <3>3. CASE l \in Lists /\ MayPop(t, l)
      BY <1>c, <3>2, <3>3
    <3>4. CASE at[t] \in PopPlaces /\ call[t].list = l
      BY <1>b, <3>2, <3>4
    <3> QED BY <1>f, <3>3, <3>4
  <2> QED BY <2>1, <2>2, <2>3
<1>1. CASE PushOwn(t)
  BY <1>1, <1>d DEF PushOwn
<1>2. CASE PopUnlink(t)
  <2>1. CASE Nothing(call[t].list)
    BY <1>2, <1>d, <2>1 DEF PopUnlink
  <2>2. CASE ~Nothing(call[t].list)
    <3>1. Goto(t, "count") /\ call' = call /\ at[t] = "unlink"
      BY <1>2, <2>2 DEF PopUnlink
    <3>2. call' = [call EXCEPT ![t] = call[t]]
      BY <1>0, <3>1
    <3> QED BY <1>b, <3>1, <3>2 DEF PopPlaces
  <2> QED BY <2>1, <2>2
<1>3. CASE PopCount(t)
  <2>1. at[t] \in PopPlaces /\ Popped(t, call[t].left)
    BY <1>3 DEF PopCount, PopPlaces
  <2> QED BY <1>e, <2>1
<1>4. CASE DrainOne(t)
  <2>1. at[t] \in PopPlaces /\ PopEnd(t, call[t].list, front[call[t].list], call[t].left)
    BY <1>4 DEF DrainOne, PopPlaces
  <2> QED BY <1>f, <2>1
<1>5. CASE CompareOne(t)
  <2>1. CASE call[t].node = None
    BY <1>5, <1>d, <2>1 DEF CompareOne
  <2>2. CASE call[t].node # None
    <3>1. call' = [call EXCEPT ![t].node = next[call[t].node]] /\ at' = at
      BY <1>5, <2>2 DEF CompareOne
    <3>2. call'[t].list = call[t].list /\ \A u \in Threads \ {t} : call'[u] = call[u]
      BY <1>0, <3>1 DEF CallRecord
    <3> QED BY <3>1, <3>2 DEF Starts, Popping
  <2> QED BY <2>1, <2>2
<1>6. ASSUME NEW n \in Nodes, PopTest(t, n)
      PROVE  Starts(t)
  <2>1. PICK c : c = [NoCall EXCEPT !.list = home[n], !.node = n]
    OBVIOUS
  <2>2. home[n] \in Lists
    BY <1>6 DEF PopTest, TypeOK
  <2>3. c.list = home[n] /\ call' = [call EXCEPT ![t] = c] /\ Goto(t, "unlink") /\ MayPop(t, home[n])
    BY <1>6, <2>1 DEF PopTest, NoCall
  <2> QED BY <1>c, <2>2, <2>3
<1>7. ASSUME NEW l \in Lists, Destroy(t, l) \/ PopAll(t, l)
      PROVE  Starts(t)
  BY <1>7 DEF Destroy, PopAll, Starts, Popping
<1>8. ASSUME NEW l \in Lists, GetCount(t, l)
      PROVE  Starts(t)
  <2>1. PICK c : c = [NoCall EXCEPT !.list = l, !.left = count[l]]
    OBVIOUS
  <2>2. c.list = l /\ call' = [call EXCEPT ![t] = c] /\ Goto(t, "drain") /\ MayPop(t, l)
    BY <1>8, <2>1 DEF GetCount, NoCall
  <2> QED BY <1>c, <2>2
<1>9. ASSUME NEW l \in Lists, PopFront(t, l) \/ PopBack(t, l)
      PROVE  Starts(t)
  <2>1. MayPop(t, l) /\ \E n : PopEnd(t, l, n, 0)
    BY <1>9 DEF PopFront, PopBack, Pops
  <2> QED BY <1>f, <2>1
<1>10. ASSUME NEW l \in Lists, NEW i \in Items, PopAllCompare(t, l, i)
       PROVE  Starts(t)
  <2>1. PICK c : c = [list |-> l, node |-> front[l], item |-> i, left |-> 0]
    OBVIOUS
  <2>2. c.list = l /\ call' = [call EXCEPT ![t] = c] /\ Goto(t, "compare") /\ MayPop(t, l)
    BY <1>10, <2>1 DEF PopAllCompare, Pops
  <2> QED BY <1>c, <2>2
<1>11. ASSUME NEW l \in Lists, NEW n \in Nodes, NEW i \in Items,
              PushBack(t, l, n, i) \/ PushFront(t, l, n, i)
       PROVE  Starts(t)
  <2>1. PushBegin(t, l, n, i)
    BY <1>11 DEF PushBack, PushFront
  <2> QED BY <1>a, <2>1 DEF PushBegin, PopPlaces
<1> QED BY <1>1, <1>2, <1>3, <1>4, <1>5, <1>6, <1>7, <1>8, <1>9, <1>10, <1>11 DEF Step

LEMMA OnePopsStays ==
  ASSUME TypeOK, Shared = {}, OnePops, [Next]_vars
  PROVE  OnePops'
<1>1. CASE at' = at /\ call' = call
  BY <1>1 DEF OnePops, Popping
<1>2. ASSUME NEW t \in Threads, Starts(t)
      PROVE  OnePops'
  <2> SUFFICES ASSUME NEW l \in Lists, NEW u \in Threads, NEW v \in Threads,
                      Popping(u, l)', Popping(v, l)'
               PROVE  u = v
    BY DEF OnePops
  <2>1. \A w \in Threads \ {t} : Popping(w, l)' <=> Popping(w, l)
    BY <1>2 DEF Starts, Popping
  <2>2. CASE u # t /\ v # t
    BY <2>1, <2>2 DEF OnePops
  <2>3. CASE u = t \/ v = t
    BY <1>2, <2>1, <2>3 DEF OnePops, Starts, Single
  <2> QED BY <2>2, <2>3
<1> QED BY <1>1, <1>2, StepStarts DEF Next, Create, vars

HasChains == \E q \in Shape : ChainInv(q)

\* Through every push, pop, drain, creation and end, the pointers of each list spell a
\* sequence of nodes (linkedlist.c), and one thread at a time is at work on a pop of it:
\* the invariant behind everything below.
THEOREM ChainsStay == ASSUME Shared = {} PROVE Spec => [](HasChains /\ OnePops)
<1>1. Init => HasChains /\ OnePops
  BY ChainInit DEF HasChains, Init, OnePops, Popping, PopPlaces
<1>2. HasChains /\ OnePops /\ [Next]_vars => (HasChains /\ OnePops)'
  <2> SUFFICES ASSUME HasChains, OnePops, [Next]_vars
               PROVE  HasChains' /\ OnePops'
    OBVIOUS
  <2>1. PICK q \in Shape : ChainInv(q)
    BY DEF HasChains
  <2>2. PICK r \in Shape : ChainInv(r)'
    BY <2>1, ChainStep DEF Goes
  <2>3. Shape' = Shape
    BY DEF Shape
  <2>4. HasChains'
    BY <2>2, <2>3 DEF HasChains
  <2>5. OnePops'
    BY <2>1, OnePopsStays DEF ChainInv
  <2> QED BY <2>4, <2>5
<1> QED BY <1>1, <1>2, PTL DEF Spec

-----------------------------------------------------------------------------
(* What follows                                                             *)

\* The chain of a list is what a walk from its front finds.
LEMMA MemberIs ==
  ASSUME NEW q \in Shape, NEW l \in Lists, ChainInv(q)
  PROVE  q[l] = Members(l) /\ (Alive(l) => Walk(front[l], next) = q[l])
<1>1. q[l] \in Seq(Nodes) /\ Len(q[l]) \in Nat /\ (q[l] = <<>> <=> Len(q[l]) = 0)
  BY ShapeFacts
<1>2. CASE Alive(l)
  <2>1. /\ Distinct(q[l]) /\ front[l] = Nth(q[l], 1)
        /\ \A k \in 1 .. Len(q[l]) : next[q[l][k]] = Nth(q[l], k + 1)
        /\ count[l] = Len(q[l]) \/ count[l] = Len(q[l]) + 1
    <3>1. Chain(l, q[l])
      BY <1>2 DEF ChainInv, Chains
    <3>2. count[l] = Len(q[l]) + 0 \/ count[l] = Len(q[l]) + 1
      BY <3>1 DEF Chain, Uncounted
    <3>3. count[l] = Len(q[l]) \/ count[l] = Len(q[l]) + 1
      BY <1>1, <3>2
    <3>4. Distinct(q[l]) /\ front[l] = Nth(q[l], 1) /\ Linked(q[l], next, prev)
      BY <3>1 DEF Chain
    <3> HIDE DEF Distinct, Nth
    <3> QED BY <3>3, <3>4 DEF Linked
  <2>2. Walk(Nth(q[l], 1), next) = q[l]
    BY <1>1, <2>1, WalkIs
  <2>3. count[l] <= 0 => q[l] = <<>>
    BY <1>1, <2>1
  <2> QED BY <2>1, <2>2, <2>3 DEF Members
<1>3. CASE ~Alive(l)
  BY <1>3 DEF ChainInv, Chains, Members
<1> QED BY <1>2, <1>3

\* A list read from its back is the list read from its front, turned round.
LEMMA BackwardIs ==
  ASSUME NEW s \in Seq(Nodes), Distinct(s), Linked(s, next, prev)
  PROVE  Walk(Nth(s, Len(s)), prev) = Reverse(s)
<1> DEFINE r == Reverse(s)
<1>1. Len(s) \in Nat /\ \A k \in 1 .. Len(s) : s[k] \in Nodes
  OBVIOUS
<1>2. /\ r \in Seq(Nodes) /\ Len(r) = Len(s)
      /\ \A k \in 1 .. Len(s) : r[k] = s[(Len(s) - k) + 1] /\ (Len(s) - k) + 1 \in 1 .. Len(s)
  <2>1. r = [k \in 1 .. Len(s) |-> s[(Len(s) - k) + 1]]
    BY DEF Reverse
  <2>2. \A k \in 1 .. Len(s) : (Len(s) - k) + 1 \in 1 .. Len(s)
    BY <1>1
  <2>3. r \in [1 .. Len(s) -> Nodes]
    BY <1>1, <2>1, <2>2
  <2>4. r \in Seq(Nodes) /\ Len(r) = Len(s)
    BY <1>1, <2>3
  <2> QED BY <2>1, <2>2, <2>4
<1> HIDE DEF r
<1>3. Distinct(r)
  <2> SUFFICES ASSUME NEW i \in 1 .. Len(s), NEW j \in 1 .. Len(s), r[i] = r[j]
               PROVE  i = j
    BY <1>2 DEF Distinct
  <2>1. (Len(s) - i) + 1 = (Len(s) - j) + 1
    BY <1>2 DEF Distinct
  <2> QED BY <1>1, <2>1
<1>4. ASSUME NEW k \in 1 .. Len(r)
      PROVE  prev[r[k]] = Nth(r, k + 1)
  <2> DEFINE j == (Len(s) - k) + 1
  <2>1. j \in 1 .. Len(s) /\ r[k] = s[j]
    BY <1>2
  <2>2. prev[s[j]] = Nth(s, j - 1)
    BY <2>1 DEF Linked
  <2>3. CASE k = Len(s)
    <3>1. j - 1 = 0
      BY <1>1, <2>3
    <3>2. Nth(s, j - 1) = None /\ Nth(r, k + 1) = None
      BY <1>1, <1>2, <2>3, <3>1 DEF Nth
    <3> QED BY <2>1, <2>2, <3>2
  <2>4. CASE k # Len(s)
    <3>1. k + 1 \in 1 .. Len(s) /\ j - 1 \in 1 .. Len(s) /\ j - 1 = (Len(s) - (k + 1)) + 1
      BY <1>1, <1>2, <2>4
    <3>2. r[k + 1] = s[j - 1]
      BY <1>2, <3>1
    <3>3. Nth(s, j - 1) = s[j - 1] /\ Nth(r, k + 1) = r[k + 1]
      BY <1>2, <3>1 DEF Nth
    <3> HIDE DEF j
    <3> QED BY <2>1, <2>2, <3>2, <3>3
  <2> QED BY <2>3, <2>4
<1>5. Walk(Nth(r, 1), prev) = r
  BY <1>2, <1>3, <1>4, WalkIs
<1>6. Nth(r, 1) = Nth(s, Len(s))
  <2>1. CASE Len(s) = 0
    BY <1>2, <2>1 DEF Nth
  <2>2. CASE Len(s) # 0
    <3>1. 1 \in 1 .. Len(s) /\ Len(s) \in 1 .. Len(s) /\ (Len(s) - 1) + 1 = Len(s)
      BY <1>1, <2>2
    <3>2. r[1] = s[Len(s)]
      BY <1>2, <3>1
    <3> QED BY <1>2, <3>1, <3>2 DEF Nth
  <2> QED BY <2>1, <2>2
<1> QED BY <1>5, <1>6 DEF r

LEMMA ChainsAreFormed == HasChains => WellFormed
<1> SUFFICES ASSUME NEW q \in Shape, ChainInv(q)
             PROVE  WellFormed
  BY DEF HasChains
<1>1. WellLinked
  <2> SUFFICES ASSUME NEW l \in Lists, life[l] = "live", lock[l] = None, ~Stale(l)
               PROVE  LET s == Walk(front[l], next) IN
                        /\ Walk(back[l], prev) = Reverse(s)
                        /\ count[l] = Len(s) /\ IsInjective(s)
                        /\ \A n \in ToSet(s) : home[n] = l
    BY DEF WellLinked
  <2>1. Alive(l)
    BY DEF Alive
  <2>2. Walk(front[l], next) = q[l] /\ Chain(l, q[l]) /\ q[l] \in Seq(Nodes) /\ Len(q[l]) \in Nat
    BY <2>1, MemberIs, ShapeFacts DEF ChainInv, Chains
  <2>3. /\ Distinct(q[l]) /\ Linked(q[l], next, prev) /\ back[l] = Nth(q[l], Len(q[l]))
    BY <2>2 DEF Chain
  <2>4. Walk(back[l], prev) = Reverse(q[l])
    BY <2>2, <2>3, BackwardIs
  <2>5. count[l] = Len(q[l])
    <3>1. ~Uncounted(l)
      BY NodesAssumption DEF Uncounted, ChainInv, ThreadOK, LockPlaces
    <3> HIDE DEF Uncounted
    <3>2. count[l] = Len(q[l]) + 0
      BY <2>2, <3>1 DEF Chain
    <3> QED BY <2>2, <3>2
  <2>6. IsInjective(q[l])
    BY <2>2, <2>3 DEF IsInjective, Distinct
  <2>7. \A n \in ToSet(q[l]) : home[n] = l
    <3>1. \A n \in ToSet(q[l]) : On(q[l], n)
      BY <2>2 DEF ToSet, On
    <3> QED BY <3>1, HomeOfNode
  <2> QED BY <2>2, <2>4, <2>5, <2>6, <2>7
<1>2. OffIsBlank
  <2> SUFFICES ASSUME NEW n \in Embedded, home[n] = None, ~InHand(n)
               PROVE  next[n] = None /\ prev[n] = None
    BY DEF OffIsBlank
  <2>1. ASSUME NEW l \in Lists, On(q[l], n)
        PROVE  FALSE
    <3>1. ~Owned(n)
      BY DEF InHand, Owned
    <3>2. home[n] = IF Owned(n) THEN None ELSE l
      BY <2>1, OnAlive DEF ChainInv
    <3> HIDE DEF Owned
    <3> QED BY <3>1, <3>2, NodesAssumption
  <2> QED BY <2>1 DEF ChainInv, NodesOK
<1> QED BY <1>1, <1>2 DEF WellFormed, ChainInv

LEMMA ChainsDoNotDangle == HasChains => NothingDangles
<1> SUFFICES ASSUME NEW q \in Shape, ChainInv(q)
             PROVE  NothingDangles
  BY DEF HasChains
<1> DEFINE Valid == Embedded \cup allocated
<1>0. Chains(q) /\ NodesOK(q)
  BY DEF ChainInv
<1>1. \A l \in Lists : \A x : On(q[l], x) => x \in Valid
  BY <1>0, OnAlive DEF Stored
<1>2. \A l \in Lists, k \in Int : Nth(q[l], k) \in Valid \cup {None}
  <2> HIDE DEF Valid
  <2> QED BY <1>1 DEF Nth, On
<1>3. ASSUME NEW l \in Lists, life[l] = "live", ~Stale(l)
      PROVE  {front[l], back[l]} \subseteq Valid \cup {None}
  <2>1. Chain(l, q[l]) /\ Len(q[l]) \in Int
    BY <1>0, <1>3, ShapeFacts DEF Chains, Alive
  <2>2. front[l] = Nth(q[l], 1) /\ back[l] = Nth(q[l], Len(q[l]))
    BY <2>1 DEF Chain
  <2> HIDE DEF Valid
  <2> QED BY <1>2, <2>1, <2>2
<1>4. ASSUME NEW n \in Valid
      PROVE  {next[n], prev[n]} \subseteq Valid \cup {None}
  <2>1. CASE \E l \in Lists : On(q[l], n)
    <3>1. PICK l \in Lists : On(q[l], n)
      BY <2>1
    <3>2. PICK k \in 1 .. Len(q[l]) : q[l][k] = n
      BY <3>1 DEF On
    <3>3. next[n] = Nth(q[l], k + 1) /\ prev[n] = Nth(q[l], k - 1)
      BY <1>0, <3>1, <3>2, OnAlive DEF Chain, Linked
    <3>4. k + 1 \in Int /\ k - 1 \in Int
      BY <3>2
    <3> HIDE DEF Valid
    <3> QED BY <1>2, <3>3, <3>4
  <2>2. CASE \A l \in Lists : ~On(q[l], n)
    <3>1. n \in Embedded
      BY <1>0, <2>2, CallersAssumption DEF NodesOK
    <3> QED BY <1>0, <2>2, <3>1 DEF NodesOK
  <2> QED BY <2>1, <2>2
<1>5. ASSUME NEW n \in Valid, home[n] # None
      PROVE  life[home[n]] = "live"
  <2>1. home[n] \in Lists /\ On(q[home[n]], n)
    BY <1>5, HomeIs
  <2> QED BY <1>0, <2>1, OnAlive DEF Alive
<1> QED BY <1>3, <1>4, <1>5 DEF NothingDangles

\* Types; whenever its lock is free, a list reads the same both ways, counts its nodes and is
\* where each of them says it is, by the unlinking of IocpLLPop alone (linkedlist.c:351-367); and
\* a caller's node that is on no list is blank, as the pushes rely on.
THEOREM ListIsWellFormed == ASSUME Shared = {} PROVE Spec => []WellFormed
BY ChainsStay, ChainsAreFormed, PTL

\* Nothing live points at a node that a pop has destroyed or at a list that
\* IocpLLDestroy has: IocpLLPop unlinks from both sides before it frees.
THEOREM ListDoesNotDangle == ASSUME Shared = {} PROVE Spec => []NothingDangles
BY ChainsStay, ChainsDoNotDangle, PTL

-----------------------------------------------------------------------------
(* The contract                                                             *)

\* The chains are the sequences of the contract.
LEMMA ChainsAreMembers ==
  \A q \in Shape : ChainInv(q) => q = [l \in Lists |-> Members(l)]
<1> SUFFICES ASSUME NEW q \in Shape, ChainInv(q)
             PROVE  q = [l \in Lists |-> Members(l)]
  OBVIOUS
<1>1. \A l \in Lists : q[l] = Members(l)
  BY MemberIs
<1> QED BY <1>1 DEF Shape

\* The ends, as sequences have them.
LEMMA EndsAre ==
  ASSUME NEW s \in Seq(Nodes), s # <<>>
  PROVE  /\ Head(s) = s[1] /\ Tail(s) = RemoveAt(s, 1)
         /\ Last(s) = s[Len(s)] /\ Front(s) = RemoveAt(s, Len(s))
<1>1. Len(s) \in Nat /\ Len(s) > 0 /\ 1 \in 1 .. Len(s) /\ Len(s) \in 1 .. Len(s)
  OBVIOUS
<1>2. Tail(s) = RemoveAt(s, 1)
  <2> DEFINE u == Tail(s)
             v == RemoveAt(s, 1)
  <2>1. u \in Seq(Nodes) /\ Len(u) = Len(s) - 1 /\ \A j \in 1 .. Len(s) - 1 : u[j] = s[j + 1]
    BY <1>1
  <2>2. v \in Seq(Nodes) /\ Len(v) = Len(s) - 1 /\ \A j \in 1 .. Len(s) - 1 : v[j] = s[j + 1]
    BY <1>1, RemoveAtIs
  <2>3. \A j \in 1 .. Len(u) : u[j] = v[j]
    BY <2>1, <2>2
  <2> HIDE DEF u, v
  <2>4. u = v
    BY <2>1, <2>2, <2>3, SeqEqual
  <2> QED BY <2>4 DEF u, v
<1>3. Front(s) = RemoveAt(s, Len(s))
  <2> DEFINE u == Front(s)
             v == RemoveAt(s, Len(s))
  <2>1. u \in Seq(Nodes) /\ Len(u) = Len(s) - 1 /\ \A j \in 1 .. Len(s) - 1 : u[j] = s[j]
    <3>1. /\ SubSeq(s, 1, Len(s) - 1) \in Seq(Nodes)
          /\ Len(SubSeq(s, 1, Len(s) - 1)) = IF 1 <= Len(s) - 1 THEN (Len(s) - 1) - 1 + 1 ELSE 0
          /\ \A j \in 1 .. (Len(s) - 1) - 1 + 1 : SubSeq(s, 1, Len(s) - 1)[j] = s[1 + j - 1]
      BY <1>1, SubSeqProperties
    <3>a. \A x \in Nat : \A j \in 1 .. x - 1 : j \in 1 .. (x - 1) - 1 + 1 /\ 1 + j - 1 = j
      OBVIOUS
    <3>b. \A x \in Nat : x > 0 => (IF 1 <= x - 1 THEN (x - 1) - 1 + 1 ELSE 0) = x - 1
      OBVIOUS
    <3>2. /\ Len(SubSeq(s, 1, Len(s) - 1)) = Len(s) - 1
          /\ \A j \in 1 .. Len(s) - 1 : j \in 1 .. (Len(s) - 1) - 1 + 1 /\ 1 + j - 1 = j
      BY <1>1, <3>1, <3>a, <3>b
    <3>3. \A j \in 1 .. Len(s) - 1 : SubSeq(s, 1, Len(s) - 1)[j] = s[j]
      BY <3>1, <3>2
    <3> QED BY <3>1, <3>2, <3>3 DEF Front
  <2>2. v \in Seq(Nodes) /\ Len(v) = Len(s) - 1 /\ \A j \in 1 .. Len(s) - 1 : v[j] = s[j]
    BY <1>1, RemoveAtIs
  <2>3. \A j \in 1 .. Len(u) : u[j] = v[j]
    BY <2>1, <2>2
  <2> HIDE DEF u, v
  <2>4. u = v
    BY <2>1, <2>2, <2>3, SeqEqual
  <2> QED BY <2>4 DEF u, v
<1> QED BY <1>1, <1>2, <1>3 DEF Last

Sequence == [l \in Lists |-> Members(l)]

LEMMA ContractInit == ASSUME Init PROVE Contract!Init
<1>1. \A l \in Lists : Members(l) = <<>>
  BY DEF Init, Members
<1> QED BY <1>1 DEF Init, Contract!Init

\* The contract's operators on sequences are the library's.
LEMMA SameOperators ==
  /\ \A s : Contract!ToSet(s) = ToSet(s)
  /\ \A s : Contract!Last(s) = Last(s)
  /\ \A s : Contract!Front(s) = Front(s)
  /\ \A s, k : Contract!RemoveAt(s, k) = RemoveAt(s, k)
BY DEF Contract!ToSet, Contract!Last, Contract!Front, Contract!RemoveAt,
       ToSet, Last, Front, RemoveAt

\* A move of the chains is a step of the contract.
LEMMA MoveIsContract ==
  ASSUME NEW q \in Shape, NEW r \in Shape, q = Sequence, r = Sequence', Moves(q, r)
  PROVE  Contract!Next \/ UNCHANGED Contract!vars
<1> DEFINE Q == [l \in Lists |-> Members(l)]
<1>0. Q = q /\ Q' = r
  BY DEF Sequence
<1> HIDE DEF Q
<1>1. CASE r = q /\ item' = item /\ got' = got
  <2>1. Q' = Q /\ item' = item /\ got' = got
    BY <1>0, <1>1
  <2> QED BY <2>1 DEF Contract!vars, Q
<1>2. ASSUME NEW l \in Lists, Joins(q, r, l)
      PROVE  Contract!Next
  <2>1. PICK n \in Nodes, i \in Items :
          /\ r = [q EXCEPT ![l] = Append(q[l], n)] \/ r = [q EXCEPT ![l] = <<n>> \o q[l]]
          /\ item' = [item EXCEPT ![n] = i] /\ got' = got /\ \A m \in Lists : ~On(q[m], n)
    BY <1>2 DEF Joins
  <2>2. q[l] \in Seq(Nodes) /\ Len(q[l]) \in Nat
    BY ShapeFacts
  <2>3. Q'[l] # Q[l]
    <3>1. r[l] = Append(q[l], n) \/ r[l] = <<n>> \o q[l]
      BY <2>1 DEF Shape
    <3>2. Len(r[l]) = Len(q[l]) + 1
      BY <2>2, <3>1, AppendIs, ConsIs
    <3>3. Len(r[l]) # Len(q[l])
      BY <2>2, <3>2
    <3> QED BY <1>0, <3>3
  <2>4. \A m \in Lists : n \notin ToSet(Q[m])
    BY <1>0, <2>1 DEF ToSet, On
  <2>5. \/ Q' = [Q EXCEPT ![l] = Append(Q[l], n)]
        \/ Q' = [Q EXCEPT ![l] = <<n>> \o Q[l]]
    BY <1>0, <2>1
  <2>6. Contract!Insert(l, n)
    <3>1. \A m \in Lists : n \notin Contract!On(m)
      BY <2>4, SameOperators DEF Contract!On, Q
    <3> QED BY <2>1, <2>5, <3>1 DEF Contract!Insert, Q
  <2> QED BY <2>3, <2>6 DEF Contract!Next, Q
<1>3. ASSUME NEW l \in Lists, NEW k \in 1 .. Len(q[l]), r = [q EXCEPT ![l] = RemoveAt(q[l], k)]
      PROVE  /\ Q'[l] # Q[l] /\ Q' = [Q EXCEPT ![l] = RemoveAt(Q[l], k)]
             /\ k \in DOMAIN Q[l] /\ Q[l][k] \in Nodes /\ Q[l] \in Seq(Nodes) /\ Q[l] # <<>>
  <2>1. q[l] \in Seq(Nodes) /\ Len(q[l]) \in Nat
    BY ShapeFacts
  <2>2. r[l] = RemoveAt(q[l], k) /\ Len(r[l]) = Len(q[l]) - 1
    BY <1>3, <2>1, RemoveAtIs DEF Shape
  <2>3. Len(r[l]) # Len(q[l])
    BY <2>1, <2>2
  <2>4. k \in DOMAIN q[l] /\ q[l][k] \in Nodes /\ q[l] # <<>>
    BY <2>1
  <2> QED BY <1>0, <1>3, <2>1, <2>3, <2>4
<1>4. ASSUME NEW l \in Lists, Leaves(q, r, l)
      PROVE  Contract!Next
  <2>1. PICK k \in 1 .. Len(q[l]) :
          r = [q EXCEPT ![l] = RemoveAt(q[l], k)] /\ item' = item /\ got' = got
    BY <1>4 DEF Leaves
  <2>2. /\ Q'[l] # Q[l] /\ Q' = [Q EXCEPT ![l] = RemoveAt(Q[l], k)]
        /\ k \in DOMAIN Q[l] /\ Q[l][k] \in Nodes
    BY <1>3, <2>1
  <2>3. Contract!TakeOut(l, Q[l][k])
    BY <2>1, <2>2, SameOperators DEF Contract!TakeOut, Q
  <2> QED BY <2>2, <2>3 DEF Contract!Next, Q
<1>5. ASSUME NEW l \in Lists, IsHandedOut(q, r, l)
      PROVE  Contract!Next
  <2>1. PICK t \in Threads, k \in {1, Len(q[l])} :
          /\ q[l] # <<>> /\ r = [q EXCEPT ![l] = RemoveAt(q[l], k)]
          /\ item' = item /\ got' = [got EXCEPT ![t] = q[l][k]]
    BY <1>5 DEF IsHandedOut
  <2>a. k \in 1 .. Len(q[l])
    <3>1. Len(q[l]) \in Nat /\ Len(q[l]) # 0
      BY <2>1, ShapeFacts
    <3> QED BY <2>1, <3>1
  <2>2. /\ Q'[l] # Q[l] /\ Q' = [Q EXCEPT ![l] = RemoveAt(Q[l], k)]
        /\ Q[l] \in Seq(Nodes) /\ Q[l] # <<>>
    BY <1>3, <2>1, <2>a
  <2>3. /\ Head(Q[l]) = Q[l][1] /\ Tail(Q[l]) = RemoveAt(Q[l], 1)
        /\ Last(Q[l]) = Q[l][Len(Q[l])] /\ Front(Q[l]) = RemoveAt(Q[l], Len(Q[l]))
    BY <2>2, EndsAre
  <2>4. got' = [got EXCEPT ![t] = Q[l][k]] /\ k \in {1, Len(Q[l])}
    BY <1>0, <2>1
  <2>5. \/ got' = [got EXCEPT ![t] = Head(Q[l])] /\ Q' = [Q EXCEPT ![l] = Tail(Q[l])]
        \/ got' = [got EXCEPT ![t] = Last(Q[l])] /\ Q' = [Q EXCEPT ![l] = Front(Q[l])]
    BY <2>2, <2>3, <2>4
  <2>6. Contract!Take(t, l)
    BY <2>1, <2>2, <2>5, SameOperators DEF Contract!Take, Q
  <2> QED BY <2>2, <2>6 DEF Contract!Next, Q
<1>6. ASSUME NEW l \in Lists, AllLeave(q, r, l)
      PROVE  Contract!Next
  <2>1. q[l] # <<>> /\ r = [q EXCEPT ![l] = <<>>] /\ item' = item /\ got' = got
    BY <1>6 DEF AllLeave
  <2>2. Q'[l] # Q[l] /\ Q' = [Q EXCEPT ![l] = <<>>]
    BY <1>0, <2>1 DEF Shape
  <2>3. Contract!Clear(l)
    BY <2>1, <2>2 DEF Contract!Clear, Q
  <2> QED BY <2>2, <2>3 DEF Contract!Next, Q
<1> QED BY <1>1, <1>2, <1>4, <1>5, <1>6 DEF Moves

\* linkedlist.c implements sequences: each push, IocpLLPop, IocpLLPopFront, IocpLLPopBack,
\* IocpLLPopAll and each node of IocpLLPopAllCompare is a step of ListContract.
THEOREM ListImplementsContract == ASSUME Shared = {} PROVE Spec => ImplementsContract
<1>1. Init => Contract!Init
  BY ContractInit
<1>2. HasChains /\ OnePops /\ [Next]_vars => [Contract!Next]_Contract!vars
  <2>1. (\A q \in Shape : ChainInv(q) => q = Sequence)
    BY ChainsAreMembers DEF Sequence
  <2>2. (\A q \in Shape : ChainInv(q) => q = Sequence)'
    BY <2>1, PTL
  <2> SUFFICES ASSUME HasChains, OnePops, [Next]_vars
               PROVE  Contract!Next \/ UNCHANGED Contract!vars
    OBVIOUS
  <2>3. PICK q \in Shape : ChainInv(q)
    BY DEF HasChains
  <2>4. PICK r \in Shape : ChainInv(r)' /\ Moves(q, r)
    BY <2>3, ChainStep DEF Goes
  <2>5. r = Sequence'
    <3>1. \A s \in Shape' : ChainInv(s)' => s = Sequence'
      BY <2>2
    <3>2. Shape' = Shape
      BY DEF Shape
    <3> QED BY <2>4, <3>1, <3>2
  <2> QED BY <2>1, <2>3, <2>4, <2>5, MoveIsContract
<1>3. Spec => [](HasChains /\ OnePops)
  BY ChainsStay
<1> QED BY <1>1, <1>2, <1>3, PTL DEF Spec, ImplementsContract, Contract!Spec

-----------------------------------------------------------------------------
(* The lock-free queue: arithmetic of the counters                             *)

LEMMA Sizes ==
  /\ W \in Nat \ {0} /\ W >= 2 * Cap /\ W >= Cap + Cap /\ Cap < W
<1>1. Laps \in Nat /\ Laps >= 2 /\ Cap \in Nat /\ Cap >= 1
  BY CapAssumption, LapsAssumption
<1>2. \A m, n \in Nat : m >= 2 => n * m >= n * 2
  OBVIOUS
<1>3. Cap * Laps >= Cap * 2
  BY <1>1, <1>2
<1>4. Cap * Laps \in Nat /\ Cap * 2 = Cap + Cap /\ 2 * Cap = Cap + Cap
  BY <1>1
<1>5. QED BY <1>1, <1>3, <1>4 DEF W

\* A remainder is what is left of a multiple.
LEMMA Divides ==
  ASSUME NEW x \in Int, NEW m \in Nat \ {0}
  PROVE  \E q \in Int : x = m * q + (x % m) /\ x % m \in 0 .. m - 1
<1>1. x = m * (x \div m) + (x % m) /\ x \div m \in Int /\ x % m \in 0 .. m - 1
  OBVIOUS
<1>2. QED BY <1>1

LEMMA NoMultipleBetween ==
  ASSUME NEW m \in Nat \ {0}, NEW q \in Int, m * q > -m, m * q < m
  PROVE  q = 0
<1>1. CASE q >= 1
  <2>1. m * q >= m
    BY <1>1
  <2>2. QED BY <2>1
<1>2. CASE q <= -1
  <2>1. m * q <= -m
    BY <1>2
  <2>2. QED BY <2>1
<1>3. QED BY <1>1, <1>2

LEMMA RemainderIs ==
  ASSUME NEW x \in Int, NEW m \in Nat \ {0}, NEW q \in Int, NEW r \in 0 .. m - 1, x = m * q + r
  PROVE  x % m = r
<1>1. PICK p \in Int : x = m * p + (x % m) /\ x % m \in 0 .. m - 1
  BY Divides
<1>2. m * (p - q) = r - (x % m)
  BY <1>1
<1>3. p - q = 0
  <2>1. r - (x % m) > -m /\ r - (x % m) < m
    BY <1>1
  <2>2. QED BY <1>2, <2>1, NoMultipleBetween, p - q \in Int
<1>4. QED BY <1>1, <1>3

LEMMA AheadIs ==
  ASSUME NEW a \in Counters, NEW b \in Counters
  PROVE  Ahead(a, b) = IF b >= a THEN b - a ELSE b - a + W
<1>1. CASE b >= a
  <2>1. b - a = W * 0 + (b - a) /\ b - a \in 0 .. W - 1
    BY <1>1, Sizes DEF Counters
  <2>2. QED BY <1>1, <2>1, Sizes, RemainderIs DEF Ahead
<1>2. CASE b < a
  <2>1. b - a = W * (-1) + (b - a + W) /\ b - a + W \in 0 .. W - 1
    BY <1>2, Sizes DEF Counters
  <2>2. QED BY <1>2, <2>1, Sizes, RemainderIs DEF Ahead, Counters
<1>3. QED BY <1>1, <1>2 DEF Counters

LEMMA CounterMoves ==
  ASSUME NEW a \in Counters
  PROVE  (a + 1) % W = (IF a = W - 1 THEN 0 ELSE a + 1) /\ (a + 1) % W \in Counters
<1>1. CASE a = W - 1
  <2>1. a + 1 = W * 1 + 0 /\ 0 \in 0 .. W - 1
    BY <1>1, Sizes
  <2>2. QED BY <1>1, <2>1, Sizes, RemainderIs DEF Counters
<1>2. CASE a # W - 1
  <2>1. a + 1 = W * 0 + (a + 1) /\ a + 1 \in 0 .. W - 1
    BY <1>2, Sizes DEF Counters
  <2>2. QED BY <1>2, <2>1, Sizes, RemainderIs DEF Counters
<1>3. QED BY <1>1, <1>2

LEMMA SlotIs ==
  ASSUME NEW a \in Counters
  PROVE  Slot(a) \in Slots
BY CapAssumption, Divides DEF Slot, Slots, Counters

\* Two counters less than a buffer apart are never in the same slot.
LEMMA SlotsDiffer ==
  ASSUME NEW a \in Counters, NEW b \in Counters, Ahead(a, b) \in 1 .. Cap - 1
  PROVE  Slot(a) # Slot(b)
<1> SUFFICES ASSUME Slot(a) = Slot(b) PROVE FALSE
  OBVIOUS
<1>0. a \in Int /\ b \in Int /\ Cap \in Nat \ {0}
  BY CapAssumption DEF Counters
<1>a. \E p \in Int : a = Cap * p + (a % Cap) /\ a % Cap \in 0 .. Cap - 1
  BY <1>0, Divides
<1>b. \E q \in Int : b = Cap * q + (b % Cap) /\ b % Cap \in 0 .. Cap - 1
  BY <1>0, Divides
<1>1. PICK p \in Int : a = Cap * p + Slot(a) /\ Slot(a) \in 0 .. Cap - 1
  BY <1>a DEF Slot
<1>2. PICK q \in Int : b = Cap * q + Slot(b) /\ Slot(b) \in 0 .. Cap - 1
  BY <1>b DEF Slot
<1>3. b - a = Cap * (q - p)
  BY <1>1, <1>2, CapAssumption
<1>4. b - a + W = Cap * (q - p + Laps)
  BY <1>3, CapAssumption, LapsAssumption DEF W
<1>5. PICK n \in Int : Ahead(a, b) = Cap * n
  BY <1>3, <1>4, AheadIs, LapsAssumption, q - p \in Int, q - p + Laps \in Int
<1>6. n = 0
  BY <1>5, NoMultipleBetween, CapAssumption
<1>7. QED BY <1>5, <1>6, CapAssumption

\* One counter moves on.
LEMMA TailMoves ==
  ASSUME NEW h \in Counters, NEW t \in Counters, Ahead(h, t) < W - 1
  PROVE  Ahead(h, (t + 1) % W) = Ahead(h, t) + 1
<1>1. (t + 1) % W \in Counters
  BY CounterMoves
<1>2. QED BY <1>1, CounterMoves, AheadIs, Sizes DEF Counters

LEMMA HeadMoves ==
  ASSUME NEW h \in Counters, NEW t \in Counters, Ahead(h, t) >= 1
  PROVE  Ahead((h + 1) % W, t) = Ahead(h, t) - 1
<1> DEFINE n == (h + 1) % W
<1>0. W \in Nat /\ W >= 2 /\ h \in 0 .. W - 1 /\ t \in 0 .. W - 1
  BY Sizes, CapAssumption DEF Counters
<1>1. n \in Counters /\ n = IF h = W - 1 THEN 0 ELSE h + 1
  BY CounterMoves
<1>2. Ahead(h, t) = IF t >= h THEN t - h ELSE t - h + W
  BY AheadIs
<1>3. Ahead(n, t) = IF t >= n THEN t - n ELSE t - n + W
  BY <1>1, AheadIs
<1>4. CASE h = W - 1
  <2>1. n = 0 /\ Ahead(n, t) = t
    BY <1>0, <1>1, <1>3, <1>4
  <2>2. t # h
    BY <1>0, <1>2
  <2>3. Ahead(h, t) = t - h + W
    BY <1>0, <1>2, <1>4, <2>2
  <2>4. QED BY <1>0, <1>4, <2>1, <2>3
<1>5. CASE h # W - 1
  <2>1. n = h + 1
    BY <1>1, <1>5
  <2>2. t # h
    BY <1>0, <1>2
  <2>3. CASE t >= h
    <3>1. t >= n /\ Ahead(n, t) = t - n
      BY <1>0, <1>3, <2>1, <2>2, <2>3
    <3>2. QED BY <1>0, <1>2, <2>1, <2>3, <3>1
  <2>4. CASE t < h
    <3>1. ~(t >= n) /\ Ahead(n, t) = t - n + W
      BY <1>0, <1>3, <2>1, <2>4
    <3>2. QED BY <1>0, <1>2, <2>1, <2>4, <3>1
  <2>5. QED BY <1>0, <2>3, <2>4
<1>6. QED BY <1>4, <1>5

LEMMA AheadRange ==
  ASSUME NEW a \in Counters, NEW b \in Counters
  PROVE  Ahead(a, b) \in 0 .. W - 1 /\ (Ahead(a, b) = 0 <=> a = b)
<1>0. W \in Nat /\ a \in 0 .. W - 1 /\ b \in 0 .. W - 1
  BY Sizes DEF Counters
<1>1. CASE b >= a
  <2>1. Ahead(a, b) = b - a
    BY <1>1, AheadIs
  <2>2. QED BY <1>0, <1>1, <2>1
<1>2. CASE b < a
  <2>1. Ahead(a, b) = b - a + W
    BY <1>0, <1>2, AheadIs
  <2>2. QED BY <1>0, <1>2, <2>1
<1>3. QED BY <1>0, <1>1, <1>2

\* The kth counter after h.
LEMMA StepsIs ==
  ASSUME NEW h \in Counters, NEW k \in 0 .. W - 1
  PROVE  /\ (h + k) % W \in Counters
         /\ (h + k) % W = IF h + k < W THEN h + k ELSE h + k - W
         /\ Ahead(h, (h + k) % W) = k
<1>1. CASE h + k < W
  <2>1. h + k = W * 0 + (h + k) /\ h + k \in 0 .. W - 1
    BY <1>1, Sizes DEF Counters
  <2>2. (h + k) % W = h + k
    BY <2>1, Sizes, RemainderIs
  <2>3. QED BY <1>1, <2>1, <2>2, AheadIs, Sizes DEF Counters
<1>2. CASE h + k >= W
  <2>1. h + k = W * 1 + (h + k - W) /\ h + k - W \in 0 .. W - 1
    BY <1>2, Sizes DEF Counters
  <2>2. (h + k) % W = h + k - W
    BY <2>1, Sizes, RemainderIs
  <2>3. QED BY <1>2, <2>1, <2>2, AheadIs, Sizes DEF Counters
<1>3. QED BY <1>1, <1>2, Sizes DEF Counters

LEMMA AheadOfAll ==
  ASSUME NEW h \in Counters, NEW t \in Counters, Ahead(h, t) < Cap,
         NEW k \in 0 .. Ahead(h, t) - 1
  PROVE  Slot((h + k) % W) # Slot(t)
<1>1. Ahead(h, t) \in 0 .. W - 1 /\ k \in 0 .. W - 1
  BY AheadRange, Sizes
<1>2. (h + k) % W \in Counters /\ Ahead(h, (h + k) % W) = k
  BY <1>1, StepsIs
<1>3. Ahead((h + k) % W, t) = Ahead(h, t) - k
  <2> DEFINE n == (h + k) % W
  <2>0. W \in Nat /\ h \in 0 .. W - 1 /\ t \in 0 .. W - 1
    BY Sizes DEF Counters
  <2>1. n = IF h + k < W THEN h + k ELSE h + k - W
    BY <1>1, StepsIs
  <2>2. Ahead(h, t) = IF t >= h THEN t - h ELSE t - h + W
    BY AheadIs
  <2>3. Ahead(n, t) = IF t >= n THEN t - n ELSE t - n + W
    BY <1>2, AheadIs
  <2>4. CASE t >= h
    <3>1. h + k < t /\ n = h + k
      BY <1>1, <2>0, <2>1, <2>2, <2>4
    <3>2. QED BY <1>1, <2>0, <2>2, <2>3, <2>4, <3>1
  <2>5. CASE t < h
    <3>1. Ahead(h, t) = t - h + W
      BY <2>0, <2>2, <2>5
    <3>2. CASE h + k < W
      <4>1. n = h + k /\ ~(t >= n)
        BY <1>1, <2>0, <2>1, <2>5, <3>2
      <4>2. QED BY <1>1, <2>0, <2>3, <3>1, <4>1
    <3>3. CASE h + k >= W
      <4>1. n = h + k - W /\ t >= n
        BY <1>1, <2>0, <2>1, <3>1, <3>3
      <4>2. QED BY <1>1, <2>0, <2>3, <3>1, <4>1
    <3>4. QED BY <1>1, <2>0, <3>2, <3>3
  <2>6. QED BY <2>0, <2>4, <2>5
<1>4. QED BY <1>1, <1>2, <1>3, SlotsDiffer, CapAssumption

-----------------------------------------------------------------------------
(* The inductive invariant                                                   *)

QueueBounded == Count <= Cap

\* What the producer knows: the head it read is at most as far on as head is.
PushKnows ==
  /\ push.at = "tail" => Count <= Ahead(push.head, tail) /\ Ahead(push.head, tail) <= Cap
  /\ push.at \in {"write", "publish"} => Count < Cap
  /\ push.at = "publish" => buffer[Slot(tail)] = push.item
  /\ push.at # "idle" => push.item \in QueueItems

\* What the consumer knows.
PopKnows ==
  /\ pop.at \in {"copy", "publish"} => Count >= 1
  /\ pop.at = "publish" => pop.out = buffer[Slot(head)]

QueueInv == QueueTypeOK /\ QueueBounded /\ PushKnows /\ PopKnows

LEMMA QueueStarts == QueueInit => QueueInv
<1> SUFFICES ASSUME QueueInit PROVE QueueInv
  OBVIOUS
<1>1. 0 \in Counters
  BY Sizes DEF Counters
<1>2. Count = 0
  BY <1>1, AheadRange DEF QueueInit, Count
<1>3. QED BY <1>1, <1>2, CapAssumption DEF QueueInit, QueueInv, QueueTypeOK, QueueBounded, PushKnows, PopKnows

LEMMA PushHeadKeeps ==
  ASSUME QueueInv, NEW i \in QueueItems, PushHead(i)
  PROVE  QueueInv'
<1>1. QueueTypeOK'
  BY DEF QueueInv, QueueTypeOK, PushHead
<1>2. Count' = Count /\ Ahead(push.head, tail)' = Count
  BY DEF Count, PushHead, Ahead
<1>3. Count \in Int
  BY AheadRange DEF Count, QueueInv, QueueTypeOK
<1>4. QED BY <1>1, <1>2, <1>3 DEF QueueInv, PushHead, QueueBounded, PushKnows, PopKnows

LEMMA PushTailKeeps ==
  ASSUME QueueInv, PushTail
  PROVE  QueueInv'
<1>1. QueueTypeOK' /\ push.head \in Counters
  BY DEF QueueInv, QueueTypeOK, PushTail
<1>2. Count' = Count /\ Count \in Int /\ Ahead(push.head, tail) \in Int
  BY <1>1, AheadRange DEF Count, PushTail, Ahead, QueueInv, QueueTypeOK
<1>3. push'.at = "write" => Count < Cap
  BY <1>2, CapAssumption DEF PushTail, QueueInv, PushKnows, QueueTypeOK
<1>4. push'.at \in {"idle", "write"} /\ push'.item = push.item
  BY DEF PushTail, QueueInv, QueueTypeOK
<1>5. QED BY <1>1, <1>2, <1>3, <1>4 DEF QueueInv, PushTail, QueueBounded, PushKnows, PopKnows

LEMMA PushWriteKeeps ==
  ASSUME QueueInv, PushWrite
  PROVE  QueueInv'
<1>1. Slot(tail) \in Slots /\ Slot(head) \in Slots /\ head \in Counters /\ tail \in Counters
  BY SlotIs DEF QueueInv, QueueTypeOK
<1>2. push.item \in QueueItems /\ Count < Cap /\ push.at = "write"
  BY DEF QueueInv, PushKnows, PushWrite
<1>3. QueueTypeOK'
  BY <1>1, <1>2 DEF QueueInv, QueueTypeOK, PushWrite
<1>4. Count' = Count /\ UNCHANGED <<head, tail, pop>>
  BY DEF Count, PushWrite, Ahead
<1>5. buffer'[Slot(tail)] = push.item /\ push'.at = "publish" /\ push'.item = push.item
  BY <1>1 DEF PushWrite, QueueInv, QueueTypeOK
<1>6. pop.at \in {"copy", "publish"} => Slot(tail) # Slot(head)
  <2>1. Count \in 0 .. W - 1
    BY <1>1, AheadRange DEF Count
  <2>2. QED BY <1>1, <1>2, <2>1, SlotsDiffer, CapAssumption DEF QueueInv, PopKnows, Count
<1>7. pop.at = "publish" => buffer'[Slot(head)] = buffer[Slot(head)]
  BY <1>1, <1>6 DEF PushWrite, QueueInv, QueueTypeOK
<1>8. PushKnows'
  BY <1>2, <1>4, <1>5 DEF PushKnows, Slot
<1>9. PopKnows'
  BY <1>4, <1>7 DEF PopKnows, QueueInv, Slot
<1>10. QED BY <1>3, <1>4, <1>8, <1>9 DEF QueueInv, QueueBounded

LEMMA PushPublishKeeps ==
  ASSUME QueueInv, PushPublish
  PROVE  QueueInv'
<1>1. head \in Counters /\ tail \in Counters /\ push.at = "publish" /\ Count < Cap
  BY DEF QueueInv, QueueTypeOK, PushPublish, PushKnows
<1>2. Count \in 0 .. W - 1
  BY <1>1, AheadRange DEF Count
<1>3. Count' = Count + 1
  <2>1. Count' = Ahead(head, (tail + 1) % W)
    BY DEF Count, PushPublish, Ahead
  <2>2. QED BY <1>1, <1>2, <2>1, TailMoves, Sizes, CapAssumption DEF Count
<1>4. QueueTypeOK'
  BY <1>1, CounterMoves DEF QueueInv, QueueTypeOK, PushPublish
<1>5. push'.at = "idle" /\ UNCHANGED <<head, buffer, pop>>
  BY DEF PushPublish, QueueInv, QueueTypeOK
<1>6. PushKnows'
  BY <1>5 DEF PushKnows
<1>7. PopKnows'
  BY <1>2, <1>3, <1>5 DEF PopKnows, QueueInv, Slot
<1>8. QueueBounded'
  BY <1>1, <1>2, <1>3, CapAssumption DEF QueueBounded
<1>9. QED BY <1>4, <1>6, <1>7, <1>8 DEF QueueInv

LEMMA PopReadsKeep ==
  ASSUME QueueInv, PopHead \/ PopTail
  PROVE  QueueInv'
<1>1. QueueTypeOK'
  BY DEF QueueInv, QueueTypeOK, PopHead, PopTail
<1>2. Count' = Count /\ Ahead(push.head, tail)' = Ahead(push.head, tail)
      /\ UNCHANGED <<head, tail, buffer, push>>
  BY DEF Count, PopHead, PopTail, Ahead
<1>3. pop'.at = "copy" => Count >= 1
  <2>1. Count \in 0 .. W - 1 /\ (Count = 0 <=> head = tail)
    BY AheadRange DEF QueueInv, QueueTypeOK, Count
  <2>2. QED BY <2>1 DEF PopHead, PopTail, QueueInv, QueueTypeOK
<1>4. pop'.at \in {"idle", "tail", "copy"}
  BY DEF PopHead, PopTail, QueueInv, QueueTypeOK
<1>5. PopKnows'
  BY <1>2, <1>3, <1>4 DEF PopKnows
<1>6. PushKnows'
  BY <1>2 DEF PushKnows, QueueInv, Slot
<1>7. QED BY <1>1, <1>2, <1>5, <1>6 DEF QueueInv, QueueBounded

LEMMA PopCopyKeeps ==
  ASSUME QueueInv, PopCopy
  PROVE  QueueInv'
<1>1. Slot(head) \in Slots
  BY SlotIs DEF QueueInv, QueueTypeOK
<1>2. QueueTypeOK'
  BY <1>1 DEF QueueInv, QueueTypeOK, PopCopy
<1>3. Count' = Count /\ Ahead(push.head, tail)' = Ahead(push.head, tail)
      /\ UNCHANGED <<head, tail, buffer, push>>
  BY DEF Count, PopCopy, Ahead
<1>4. pop' = [at |-> "publish", out |-> buffer[Slot(head)]] /\ Count >= 1
  BY DEF PopCopy, QueueInv, PopKnows
<1>5. PopKnows'
  BY <1>3, <1>4 DEF PopKnows, Slot
<1>6. PushKnows'
  BY <1>3 DEF PushKnows, QueueInv, Slot
<1>7. QED BY <1>2, <1>3, <1>5, <1>6 DEF QueueInv, QueueBounded

LEMMA PopPublishKeeps ==
  ASSUME QueueInv, PopPublish
  PROVE  QueueInv'
<1>1. head \in Counters /\ tail \in Counters /\ Count >= 1 /\ push.head \in Counters
  BY DEF QueueInv, QueueTypeOK, PopPublish, PopKnows
<1>2. Count \in 0 .. W - 1
  BY <1>1, AheadRange DEF Count
<1>3. Count' = Count - 1
  <2>1. Count' = Ahead((head + 1) % W, tail)
    BY DEF Count, PopPublish, Ahead
  <2>2. QED BY <1>1, <2>1, HeadMoves DEF Count
<1>4. QueueTypeOK'
  BY <1>1, CounterMoves DEF QueueInv, QueueTypeOK, PopPublish
<1>5. pop'.at = "idle" /\ UNCHANGED <<tail, buffer, push>>
  BY DEF PopPublish, QueueInv, QueueTypeOK
<1>6. Ahead(push.head, tail)' = Ahead(push.head, tail) /\ Ahead(push.head, tail) \in Int
  BY <1>1, <1>5, AheadRange DEF Ahead
<1>7. PushKnows'
  BY <1>2, <1>3, <1>5, <1>6, CapAssumption DEF PushKnows, QueueInv, Slot
<1>8. PopKnows'
  BY <1>5 DEF PopKnows
<1>9. QueueBounded'
  BY <1>2, <1>3, CapAssumption DEF QueueBounded, QueueInv
<1>10. QED BY <1>4, <1>7, <1>8, <1>9 DEF QueueInv

LEMMA QueueStutters ==
  ASSUME QueueInv, UNCHANGED queueVars
  PROVE  QueueInv'
BY DEF QueueInv, queueVars, QueueTypeOK, QueueBounded, Count, Ahead, Slot, PushKnows, PopKnows

LEMMA QueueKeeps == QueueInv /\ [QueueNext]_queueVars => QueueInv'
BY PushHeadKeeps, PushTailKeeps, PushWriteKeeps, PushPublishKeeps, PopReadsKeep, PopCopyKeeps,
   PopPublishKeeps, QueueStutters DEF QueueNext, Push, Pop

LEMMA QueueAlwaysInv == QueueSpec => []QueueInv
BY QueueStarts, QueueKeeps, PTL DEF QueueSpec

\* head and tail stay counters, and no more than Cap items are ever in the buffer.
THEOREM QueueTypeCorrect == QueueSpec => []QueueTypeOK
<1>1. QueueInv => QueueTypeOK
  BY DEF QueueInv
<1>2. QED BY <1>1, QueueAlwaysInv, PTL

LEMMA QueueSlotsApart == QueueInv => NoSharedSlot
<1> SUFFICES ASSUME QueueInv, push.at = "write", pop.at \in {"copy", "publish"}
             PROVE  Slot(tail) # Slot(head)
  BY DEF NoSharedSlot
<1>1. head \in Counters /\ tail \in Counters /\ Count >= 1 /\ Count < Cap
  BY DEF QueueInv, QueueTypeOK, PushKnows, PopKnows
<1>2. Ahead(head, tail) \in 1 .. Cap - 1
  BY <1>1, AheadRange, CapAssumption DEF Count
<1>3. QED BY <1>1, <1>2, SlotsDiffer

\* The two threads are never in the same slot.
THEOREM QueueNeverSharesSlot == QueueSpec => []NoSharedSlot
BY QueueAlwaysInv, QueueSlotsApart, PTL
-----------------------------------------------------------------------------
(* The refinement                                                            *)

\* Sequences, by what is at each place.
LEMMA QueueAppended ==
  ASSUME NEW S, NEW s \in Seq(S), NEW t \in Seq(S), NEW e \in S, NEW n \in Nat, Len(s) = n,
         Len(t) = n + 1, \A k \in 1 .. n : t[k] = s[k], t[n + 1] = e
  PROVE  t = Append(s, e)
<1>1. Append(s, e) \in Seq(S) /\ Len(Append(s, e)) = n + 1
  OBVIOUS
<1>2. \A k \in 1 .. n + 1 : Append(s, e)[k] = t[k]
  OBVIOUS
<1>3. QED BY <1>1, <1>2, SeqEqual

LEMMA TailIs ==
  ASSUME NEW S, NEW s \in Seq(S), NEW t \in Seq(S), NEW n \in Nat, Len(s) = n, s # <<>>,
         Len(t) = n - 1, \A k \in 1 .. n - 1 : t[k] = s[k + 1]
  PROVE  t = Tail(s)
<1>1. Tail(s) \in Seq(S) /\ Len(Tail(s)) = n - 1
  OBVIOUS
<1>2. \A k \in 1 .. n - 1 : Tail(s)[k] = t[k]
  OBVIOUS
<1>3. QED BY <1>1, <1>2, SeqEqual

\* The counter after the last item is the tail.
LEMMA LastIsTail ==
  ASSUME NEW h \in Counters, NEW t \in Counters
  PROVE  (h + Ahead(h, t)) % W = t
<1>0. W \in Nat /\ h \in 0 .. W - 1 /\ t \in 0 .. W - 1 /\ Ahead(h, t) \in 0 .. W - 1
  BY Sizes, AheadRange DEF Counters
<1>1. (h + Ahead(h, t)) % W = IF h + Ahead(h, t) < W THEN h + Ahead(h, t) ELSE h + Ahead(h, t) - W
  BY <1>0, StepsIs
<1>2. CASE t >= h
  <2>1. Ahead(h, t) = t - h
    BY <1>2, AheadIs
  <2>2. h + Ahead(h, t) = t
    BY <1>0, <2>1
  <2>3. QED BY <1>0, <1>1, <2>2
<1>3. CASE t < h
  <2>1. Ahead(h, t) = t - h + W
    BY <1>0, <1>3, AheadIs
  <2>2. h + Ahead(h, t) = t + W
    BY <1>0, <2>1
  <2>3. QED BY <1>0, <1>1, <2>2
<1>4. QED BY <1>0, <1>2, <1>3

\* One place on from the head is the place after it.
LEMMA OneOn ==
  ASSUME NEW h \in Counters, NEW k \in 1 .. W - 1
  PROVE  (((h + 1) % W) + k - 1) % W = (h + k) % W
<1> DEFINE n == (h + 1) % W
<1>0. W \in Nat /\ W >= 1 /\ h \in 0 .. W - 1
  BY Sizes DEF Counters
<1>1. n \in 0 .. W - 1 /\ n = IF h = W - 1 THEN 0 ELSE h + 1
  BY CounterMoves DEF Counters
<1>2. k - 1 \in 0 .. W - 1 /\ n + k - 1 = n + (k - 1)
  BY <1>0, <1>1
<1>3. (n + k - 1) % W = IF n + k - 1 < W THEN n + k - 1 ELSE n + k - 1 - W
  <2>1. (n + (k - 1)) % W = IF n + (k - 1) < W THEN n + (k - 1) ELSE n + (k - 1) - W
    BY <1>1, <1>2, StepsIs DEF Counters
  <2>2. QED BY <1>2, <2>1
<1>4. (h + k) % W = IF h + k < W THEN h + k ELSE h + k - W
  <2>1. k \in 0 .. W - 1
    BY <1>0
  <2>2. QED BY <2>1, StepsIs
<1>5. CASE h = W - 1
  <2>1. n = 0 /\ n + k - 1 = k - 1 /\ k - 1 < W /\ ~(h + k < W) /\ h + k - W = k - 1
    BY <1>0, <1>1, <1>5
  <2>2. QED BY <1>3, <1>4, <2>1
<1>6. CASE h # W - 1
  <2>1. n = h + 1 /\ n + k - 1 = h + k
    BY <1>0, <1>1, <1>6
  <2>2. QED BY <1>3, <1>4, <2>1
<1>7. QED BY <1>5, <1>6

LEMMA QueueIs ==
  ASSUME QueueInv
  PROVE  /\ head \in Counters /\ tail \in Counters /\ Count \in 0 .. W - 1 /\ Count \in Nat
         /\ Queue \in Seq(QueueItems \cup {NoItem}) /\ Len(Queue) = Count /\ DOMAIN Queue = 1 .. Count
<1>1. head \in Counters /\ tail \in Counters /\ buffer \in [Slots -> QueueItems \cup {NoItem}]
  BY DEF QueueInv, QueueTypeOK
<1>2. Count \in 0 .. W - 1 /\ Count \in Nat
  BY <1>1, AheadRange, Sizes DEF Count
<1>3. \A k \in 1 .. Count : buffer[Slot((head + k - 1) % W)] \in QueueItems \cup {NoItem}
  <2>1. TAKE k \in 1 .. Count
  <2>2. k - 1 \in 0 .. W - 1 /\ head + k - 1 = head + (k - 1)
    BY <1>1, <1>2, Sizes DEF Counters
  <2>3. (head + k - 1) % W \in Counters
    BY <1>1, <2>2, StepsIs
  <2>4. Slot((head + k - 1) % W) \in Slots
    BY <2>3, SlotIs
  <2>5. QED BY <1>1, <2>4
<1>4. Queue \in [1 .. Count -> QueueItems \cup {NoItem}]
  BY <1>3 DEF Queue
<1>5. QED BY <1>1, <1>2, <1>4 

LEMMA QueueIsSequence == QueueInv => Queue \in Seq(QueueItems \cup {NoItem}) /\ Len(Queue) = Count
BY QueueIs

\* The same after a step.
LEMMA QueueIsNext == QueueInv' => (Queue \in Seq(QueueItems \cup {NoItem}) /\ Len(Queue) = Count)'
BY QueueIsSequence, PTL

\* The item k places from the head.
LEMMA QueueAt ==
  ASSUME NEW k \in 1 .. Count
  PROVE  Queue[k] = buffer[Slot((head + k - 1) % W)]
BY DEF Queue

LEMMA EmptyAtFirst == QueueInit => Fifo!Init
<1> SUFFICES ASSUME QueueInit PROVE Fifo!Init
  OBVIOUS
<1>1. QueueInv
  BY QueueStarts
<1>2. 0 \in Counters
  BY Sizes DEF Counters
<1>3. Count = 0
  BY <1>2, AheadRange DEF QueueInit, Count
<1>4. Queue \in Seq(QueueItems \cup {NoItem}) /\ Len(Queue) = 0
  BY <1>1, <1>3, QueueIs
<1>5. Queue = <<>>
  BY <1>4, EmptySeq
<1>6. QED BY <1>5 DEF Fifo!Init, QueueInit

\* The steps that publish nothing.
LEMMA QueueStays ==
  ASSUME UNCHANGED <<head, tail, buffer>>
  PROVE  UNCHANGED Queue
BY DEF Queue, Count, Ahead, Slot

\* The slot the producer fills is of no item in the queue.
LEMMA WriteStays ==
  ASSUME QueueInv, PushWrite
  PROVE  UNCHANGED Queue
<1>1. head \in Counters /\ tail \in Counters /\ buffer \in [Slots -> QueueItems \cup {NoItem}]
      /\ Count < Cap /\ Count \in 0 .. W - 1
  BY QueueIs DEF QueueInv, QueueTypeOK, PushWrite, PushKnows
<1>2. Count' = Count /\ head' = head
  BY DEF PushWrite, Count, Ahead
<1>3. buffer' = [buffer EXCEPT ![Slot(tail)] = push.item]
  BY DEF PushWrite
<1>4. ASSUME NEW k \in 1 .. Count
      PROVE  buffer'[Slot((head + k - 1) % W)] = buffer[Slot((head + k - 1) % W)]
  <2>1. k - 1 \in 0 .. Count - 1 /\ k - 1 \in 0 .. W - 1 /\ head + k - 1 = head + (k - 1)
    BY <1>1, Sizes DEF Counters
  <2>2. (head + k - 1) % W \in Counters
    BY <1>1, <2>1, StepsIs
  <2>3. Slot((head + k - 1) % W) # Slot(tail)
    BY <1>1, <2>1, AheadOfAll DEF Count
  <2>4. Slot((head + k - 1) % W) \in Slots
    BY <2>2, SlotIs
  <2>5. QED BY <1>1, <1>3, <2>3, <2>4
<1>5. Queue' = [k \in 1 .. Count |-> buffer'[Slot((head + k - 1) % W)]]
  BY <1>2 DEF Queue, Slot
<1>6. QED BY <1>4, <1>5 DEF Queue

LEMMA PublishPuts ==
  ASSUME QueueInv, PushPublish
  PROVE  Fifo!Put(push.item)
<1>1. head \in Counters /\ tail \in Counters /\ Count < Cap /\ Count \in 0 .. W - 1
      /\ push.item \in QueueItems /\ buffer[Slot(tail)] = push.item
      /\ Queue \in Seq(QueueItems \cup {NoItem}) /\ Len(Queue) = Count
  BY QueueIs DEF QueueInv, QueueTypeOK, PushPublish, PushKnows
<1>2. Count' = Count + 1
  <2>1. Count' = Ahead(head, (tail + 1) % W)
    BY DEF Count, PushPublish, Ahead
  <2>2. QED BY <1>1, <2>1, TailMoves, Sizes, CapAssumption DEF Count
<1>3. UNCHANGED <<head, buffer, returned>>
  BY DEF PushPublish
<1>4. QueueInv'
  BY PushPublishKeeps
<1>5. Queue' \in Seq(QueueItems \cup {NoItem}) /\ Len(Queue') = Count + 1
  <2>1. (Queue \in Seq(QueueItems \cup {NoItem}) /\ Len(Queue) = Count)'
    BY <1>4, QueueIsNext
  <2>2. QED BY <1>2, <2>1
<1>6. ASSUME NEW k \in 1 .. Count
      PROVE  Queue'[k] = Queue[k]
  <2>1. k \in 1 .. Count + 1
    BY <1>1
  <2>2. Queue'[k] = buffer[Slot((head + k - 1) % W)]
    BY <1>2, <1>3, <2>1 DEF Queue, Slot
  <2>3. QED BY <2>2 DEF Queue
<1>7. Queue'[Count + 1] = push.item
  <2>1. Count + 1 \in 1 .. Count + 1
    BY <1>1
  <2>2. Queue'[Count + 1] = buffer[Slot((head + (Count + 1) - 1) % W)]
    BY <1>2, <1>3, <2>1 DEF Queue, Slot
  <2>3. head + (Count + 1) - 1 = head + Count
    BY <1>1 DEF Counters
  <2>4. (head + Count) % W = tail
    BY <1>1, LastIsTail DEF Count
  <2>5. QED BY <1>1, <2>2, <2>3, <2>4
<1>8. Queue' = Append(Queue, push.item)
  BY <1>1, <1>5, <1>6, <1>7, QueueAppended
<1>9. QED BY <1>1, <1>3, <1>8 DEF Fifo!Put

LEMMA PublishTakes ==
  ASSUME QueueInv, PopPublish
  PROVE  Fifo!Take
<1>1. head \in Counters /\ tail \in Counters /\ Count >= 1 /\ Count \in 0 .. W - 1
      /\ pop.out = buffer[Slot(head)] /\ returned' = pop.out
      /\ Queue \in Seq(QueueItems \cup {NoItem}) /\ Len(Queue) = Count
  BY QueueIs DEF QueueInv, QueueTypeOK, PopPublish, PopKnows
<1>2. Count' = Count - 1 /\ head' = (head + 1) % W /\ buffer' = buffer
  <2>1. Count' = Ahead((head + 1) % W, tail)
    BY DEF Count, PopPublish, Ahead
  <2>2. QED BY <1>1, <2>1, HeadMoves DEF Count, PopPublish
<1>3. Queue[1] = buffer[Slot(head)]
  <2>1. 1 \in 1 .. Count /\ 0 \in 0 .. W - 1 /\ head + 1 - 1 = head + 0 /\ head + 0 = head
    BY <1>1, Sizes DEF Counters
  <2>2. (head + 0) % W = head
    <3>1. (head + 0) % W = IF head + 0 < W THEN head + 0 ELSE head + 0 - W
      BY <1>1, <2>1, StepsIs
    <3>2. head + 0 < W
      BY <1>1, <2>1, Sizes DEF Counters
    <3>3. QED BY <2>1, <3>1, <3>2
  <2>3. QED BY <2>1, <2>2, QueueAt
<1>4. Queue # <<>> /\ Head(Queue) = pop.out
  <2>1. Queue # <<>>
    BY <1>1, EmptySeq
  <2>2. QED BY <1>1, <1>3, <2>1 
<1>5. QueueInv'
  BY PopPublishKeeps
<1>6. Queue' \in Seq(QueueItems \cup {NoItem}) /\ Len(Queue') = Count - 1
  <2>1. (Queue \in Seq(QueueItems \cup {NoItem}) /\ Len(Queue) = Count)'
    BY <1>5, QueueIsNext
  <2>2. QED BY <1>2, <2>1
<1>7. ASSUME NEW k \in 1 .. Count - 1
      PROVE  Queue'[k] = Queue[k + 1]
  <2>1. k + 1 \in 1 .. Count /\ k \in 0 .. W - 2 /\ head + (k + 1) - 1 = head + k
    BY <1>1, Sizes DEF Counters
  <2>2. Queue'[k] = buffer[Slot((((head + 1) % W) + k - 1) % W)]
    BY <1>2 DEF Queue, Slot
  <2>3. (((head + 1) % W) + k - 1) % W = (head + k) % W
    <3>1. k \in 1 .. W - 1
      BY <1>1, <1>7, Sizes
    <3>2. QED BY <1>1, <3>1, OneOn
  <2>4. Queue[k + 1] = buffer[Slot((head + (k + 1) - 1) % W)]
    BY <2>1, QueueAt
  <2>5. QED BY <2>1, <2>2, <2>3, <2>4
<1>8. Queue' = Tail(Queue)
  BY <1>1, <1>4, <1>6, <1>7, TailIs
<1>9. QED BY <1>1, <1>4, <1>8 DEF Fifo!Take

LEMMA QueueStepsImplement == QueueInv /\ [QueueNext]_queueVars => [Fifo!Next]_Fifo!fifoVars
<1> SUFFICES ASSUME QueueInv, [QueueNext]_queueVars PROVE [Fifo!Next]_Fifo!fifoVars
  OBVIOUS
<1>1. CASE PushPublish
  <2>1. push.item \in QueueItems
    BY <1>1 DEF PushPublish, QueueInv, PushKnows
  <2>2. QED BY <1>1, <2>1, PublishPuts DEF Fifo!Next
<1>2. CASE PopPublish
  BY <1>2, PublishTakes DEF Fifo!Next
<1>3. CASE PushWrite
  BY <1>3, WriteStays DEF Fifo!fifoVars, PushWrite
<1>4. CASE PushTail \/ (\E i \in QueueItems : PushHead(i)) \/ PopHead \/ PopTail \/ PopCopy
           \/ UNCHANGED queueVars
  <2>1. UNCHANGED <<head, tail, buffer, returned>>
    BY <1>4 DEF PushTail, PushHead, PopHead, PopTail, PopCopy, queueVars
  <2>2. QED BY <2>1, QueueStays DEF Fifo!fifoVars
<1>5. QED BY <1>1, <1>2, <1>3, <1>4 DEF QueueNext, Push, Pop

\* The queue is a bounded first-in first-out queue whatever its capacity, the width of
\* its counters and the items pushed.
THEOREM QueueImplementsFifo == QueueSpec => ImplementsFifo
<1>1. QueueInit => Fifo!Init
  BY EmptyAtFirst
<1>2. QueueInv /\ [QueueNext]_queueVars => [Fifo!Next]_Fifo!fifoVars
  BY QueueStepsImplement
<1>3. QED BY <1>1, <1>2, QueueAlwaysInv, PTL DEF QueueSpec, ImplementsFifo, Fifo!Spec

=============================================================================
