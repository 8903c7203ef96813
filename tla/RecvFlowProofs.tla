--------------------------- MODULE RecvFlowProofs ---------------------------
(***************************************************************************)
(* The receive path loses, repeats and reorders nothing, reports the end      *)
(* last, never blocks in its direct WSARecv and never goes deaf: for any       *)
(* number of units, any buffer and read sizes and any caps.                   *)
(*                                                                          *)
(* What a queue of buffers holds is a recursive function (Flat), so the proof *)
(* needs induction over the naturals; it is taken from the fact that every     *)
(* nonempty set of naturals has a least element (WFMin).                      *)
(***************************************************************************)
EXTENDS RecvFlow, SequenceTheorems, WellFoundedInduction, TLAPS

-----------------------------------------------------------------------------
(* Induction                                                                *)

\* Induction over the naturals, for a set.
LEMMA SetInduction ==
  ASSUME NEW S, 0 \in S, \A n \in Nat : n \in S => n + 1 \in S
  PROVE  \A n \in Nat : n \in S
<1> SUFFICES ASSUME NEW n \in Nat, n \notin S
             PROVE  FALSE
  OBVIOUS
<1> DEFINE T == {m \in Nat : m \notin S}
<1>1. IsWellFoundedOn(OpToRel(<, Nat), Nat)
  BY NatLessThanWellFounded, Zenon
<1>2. PICK x \in T : \A y \in T : ~ (<<y, x>> \in OpToRel(<, Nat))
  <2>1. T \subseteq Nat /\ T # {}
    OBVIOUS
  <2> QED BY <1>1, <2>1, WFMin, Zenon
<1>3. x # 0
  OBVIOUS
<1>4. x - 1 \in T
  BY <1>3
<1>5. <<x-1, x>> \in Nat \X Nat /\ x - 1 < x
  BY <1>3
<1>6. <<x-1, x>> \in OpToRel(<, Nat)
  BY <1>5 DEF OpToRel
<1>7. ~ (<<x-1, x>> \in OpToRel(<, Nat))
  BY <1>2, <1>4, Zenon
<1> QED BY <1>6, <1>7, Zenon

-----------------------------------------------------------------------------
(* Queues                                                                   *)

LEMMA AppendFacts ==
  ASSUME NEW S, NEW q \in Seq(S), NEW b \in S
  PROVE  /\ Append(q, b) \in Seq(S) /\ Append(q, b) # <<>>
         /\ Len(q) \in Nat /\ Len(Append(q, b)) = Len(q) + 1
         /\ DOMAIN q = 1 .. Len(q) /\ DOMAIN Append(q, b) = 1 .. Len(q) + 1
         /\ \A i \in 1 .. Len(q) : Append(q, b)[i] = q[i]
         /\ Append(q, b)[Len(q) + 1] = b
BY AppendProperties, LenProperties

LEMMA TailFacts ==
  ASSUME NEW S, NEW q \in Seq(S), q # <<>>
  PROVE  /\ Tail(q) \in Seq(S) /\ Head(q) \in S /\ Head(q) = q[1]
         /\ Len(q) \in Nat \ {0} /\ Len(Tail(q)) = Len(q) - 1
         /\ DOMAIN q = 1 .. Len(q) /\ DOMAIN Tail(q) = 1 .. Len(q) - 1
         /\ \A i \in 1 .. Len(q) - 1 : Tail(q)[i] = q[i + 1]
BY HeadTailProperties, LenProperties, EmptySeq

LEMMA ConsFacts ==
  ASSUME NEW S, NEW q \in Seq(S), NEW b \in S
  PROVE  /\ <<b>> \o q \in Seq(S) /\ <<b>> \o q # <<>>
         /\ Len(q) \in Nat /\ Len(<<b>> \o q) = Len(q) + 1
         /\ DOMAIN q = 1 .. Len(q) /\ DOMAIN (<<b>> \o q) = 1 .. Len(q) + 1
         /\ (<<b>> \o q)[1] = b
         /\ \A i \in 1 .. Len(q) : (<<b>> \o q)[i + 1] = q[i]
<1>1. <<b>> \in Seq(S) /\ Len(<<b>>) = 1 /\ <<b>>[1] = b
  OBVIOUS
<1>2. Len(q) \in Nat /\ DOMAIN q = 1 .. Len(q)
  BY LenProperties
<1>3. /\ <<b>> \o q \in Seq(S)
      /\ Len(<<b>> \o q) = Len(<<b>>) + Len(q)
      /\ \A i \in 1 .. Len(<<b>>) + Len(q) : (<<b>> \o q)[i] =
           IF i <= Len(<<b>>) THEN <<b>>[i] ELSE q[i - Len(<<b>>)]
  BY <1>1, ConcatProperties
<1>4. DOMAIN (<<b>> \o q) = 1 .. Len(q) + 1
  BY <1>1, <1>2, <1>3, LenProperties
<1>5. \A i \in 1 .. Len(q) : (<<b>> \o q)[i + 1] = q[i]
  BY <1>1, <1>2, <1>3
<1>6. <<b>> \o q # <<>>
  BY <1>1, <1>2, <1>3
<1> QED BY <1>1, <1>2, <1>3, <1>4, <1>5, <1>6

-----------------------------------------------------------------------------
(* Flat                                                                     *)

\* The partial sums of a queue of buffers.
IsSum(f, q) ==
  f = [n \in 0 .. Len(q) |-> IF n = 0 THEN <<>> ELSE f[n-1] \o q[n].data]

Sum(q) == CHOOSE f : IsSum(f, q)

Queue == Seq(Buffer)
Stream == Seq(Units)

\* Concatenation as an operator: the provers expand \o where they see it, and
\* then find no instance of associativity.
Cat(x, y) == x \o y

LEMMA Concat ==
  /\ \A x, y \in Stream : Cat(x, y) \in Stream
  /\ \A x, y, z \in Stream : Cat(Cat(x, y), z) = Cat(x, Cat(y, z))
  /\ \A x \in Stream : Cat(x, <<>>) = x /\ Cat(<<>>, x) = x
  /\ <<>> \in Stream
<1>1. \A x, y, z \in Seq(Units) : (x \o y) \o z = x \o (y \o z)
  OBVIOUS
<1>2. \A x, y \in Seq(Units) : x \o y \in Seq(Units)
  BY ConcatProperties
<1>3. \A x \in Seq(Units) : x \o <<>> = x /\ <<>> \o x = x
  BY ConcatEmptySeq
<1>4. <<>> \in Seq(Units)
  BY EmptySeq
<1> QED BY <1>1, <1>2, <1>3, <1>4 DEF Stream, Cat

\* Two pieces of a stream may be cut elsewhere.
LEMMA Lengths ==
  /\ \A x \in Stream : Len(x) \in Nat /\ (x = <<>> <=> Len(x) = 0)
  /\ \A x, y \in Stream : Len(Cat(x, y)) = Len(x) + Len(y)
<1>1. \A x \in Seq(Units) : Len(x) \in Nat /\ (x = <<>> <=> Len(x) = 0)
  BY LenProperties, EmptySeq
<1>2. ASSUME NEW x \in Seq(Units), NEW y \in Seq(Units)
      PROVE  Len(x \o y) = Len(x) + Len(y)
  BY ConcatProperties
<1> QED BY <1>1, <1>2 DEF Stream, Cat

LEMMA FlatIsSum == ASSUME NEW q PROVE Flat(q) = Sum(q)[Len(q)]
BY DEF Flat, Sum, IsSum

\* There are such sums ...
LEMMA SumExists ==
  ASSUME NEW q \in Queue
  PROVE  \E f \in [0 .. Len(q) -> Seq(Units)] : IsSum(f, q)
<1> DEFINE Upto(f, n) == /\ f[0] = <<>>
                         /\ \A k \in 1 .. n : f[k] = f[k-1] \o q[k].data
           Sums(n) == n <= Len(q) => \E f \in [0 .. n -> Seq(Units)] : Upto(f, n)
           S == {n \in Nat : Sums(n)}
<1>0. Len(q) \in Nat /\ \A i \in 1 .. Len(q) : q[i].data \in Seq(Units)
  <2>1. Len(q) \in Nat /\ \A i \in 1 .. Len(q) : q[i] \in Buffer
    BY LenProperties, ElementOfSeq DEF Queue
  <2> QED BY <2>1 DEF Buffer
<1>1. Sums(0)
  <2>1. [i \in 0 .. 0 |-> <<>>] \in [0 .. 0 -> Seq(Units)]
    OBVIOUS
  <2>2. Upto([i \in 0 .. 0 |-> <<>>], 0)
    OBVIOUS
  <2> QED BY <2>1, <2>2
<1>2. ASSUME NEW n \in Nat, Sums(n), n + 1 <= Len(q)
      PROVE  \E f \in [0 .. n+1 -> Seq(Units)] : Upto(f, n+1)
  <2>0. n <= Len(q)
    BY <1>0, <1>2
  <2>1. PICK f \in [0 .. n -> Seq(Units)] : Upto(f, n)
    BY <1>2, <2>0
  <2> DEFINE g == [k \in 0 .. n+1 |-> IF k = n+1 THEN f[n] \o q[n+1].data ELSE f[k]]
  <2>2. f[n] \o q[n+1].data \in Seq(Units)
    <3>0. n \in 0 .. n /\ n + 1 \in 1 .. Len(q)
      BY <1>0, <1>2
    <3>1. f[n] \in Seq(Units) /\ q[n+1].data \in Seq(Units)
      BY <1>0, <3>0
    <3> QED BY <3>1, ConcatProperties
  <2>3. g \in [0 .. n+1 -> Seq(Units)]
    BY <2>2
  <2>4. g[0] = <<>>
    BY <2>1
  <2>5. ASSUME NEW k \in 1 .. n+1
        PROVE  g[k] = g[k-1] \o q[k].data
    <3>1. CASE k = n+1
      <4>1. k - 1 = n /\ n \in 0 .. n+1 /\ n # n+1 /\ n+1 \in 0 .. n+1
        BY <3>1
      <4>2. g[n+1] = f[n] \o q[n+1].data /\ g[n] = f[n]
        BY <4>1
      <4> QED BY <3>1, <4>1, <4>2
    <3>2. CASE k # n+1
      <4>1. k \in 1 .. n /\ k - 1 \in 0 .. n
        BY <3>2
      <4>2. g[k] = f[k] /\ g[k-1] = f[k-1]
        BY <4>1
      <4> QED BY <2>1, <4>1, <4>2
    <3> QED BY <3>1, <3>2
  <2> QED BY <2>3, <2>4, <2>5
<1>3. Sums(Len(q))
  <2>1. 0 \in S /\ \A n \in Nat : n \in S => n + 1 \in S
    <3>1. \A n \in Nat : Sums(n) => Sums(n + 1)
      BY <1>2
    <3> HIDE DEF Sums
    <3> QED BY <1>1, <3>1
  <2>2. Len(q) \in S
    <3> HIDE DEF S
    <3> QED BY <1>0, <2>1, SetInduction
  <2> HIDE DEF Sums
  <2> QED BY <2>2
<1>4. PICK f \in [0 .. Len(q) -> Seq(Units)] : Upto(f, Len(q))
  <2>1. Len(q) <= Len(q)
    BY <1>0
  <2> QED BY <1>3, <2>1
<1>5. IsSum(f, q)
  <2>1. ASSUME NEW n \in 0 .. Len(q)
        PROVE  f[n] = IF n = 0 THEN <<>> ELSE f[n-1] \o q[n].data
    <3>1. CASE n = 0
      BY <1>4, <3>1
    <3>2. CASE n # 0
      <4>1. n \in 1 .. Len(q)
        BY <1>0, <3>2
      <4> QED BY <1>4, <3>2, <4>1
    <3> QED BY <3>1, <3>2
  <2> QED BY <1>0, <2>1 DEF IsSum
<1> QED BY <1>5

\* ... and two of them agree as long as the queues do.
LEMMA SumsAgree ==
  ASSUME NEW q \in Queue, NEW r \in Queue, NEW f, NEW g, IsSum(f, q), IsSum(g, r),
         NEW m \in Nat, m <= Len(q), m <= Len(r), \A i \in 1 .. m : q[i] = r[i]
  PROVE  f[m] = g[m]
<1> DEFINE S == {n \in Nat : n <= m => f[n] = g[n]}
<1>0. Len(q) \in Nat /\ Len(r) \in Nat
  BY LenProperties DEF Queue
<1>1. /\ \A n \in 0 .. Len(q) : f[n] = IF n = 0 THEN <<>> ELSE f[n-1] \o q[n].data
      /\ \A n \in 0 .. Len(r) : g[n] = IF n = 0 THEN <<>> ELSE g[n-1] \o r[n].data
  BY DEF IsSum
<1>2. 0 \in S
  BY <1>0, <1>1
<1>3. ASSUME NEW n \in Nat, n \in S
      PROVE  n + 1 \in S
  <2> SUFFICES ASSUME n + 1 <= m
               PROVE  f[n+1] = g[n+1]
    OBVIOUS
  <2>1. f[n] = g[n] /\ q[n+1] = r[n+1]
    BY <1>3
  <2>2. f[n+1] = f[n] \o q[n+1].data /\ g[n+1] = g[n] \o r[n+1].data
    <3>1. n + 1 \in 0 .. Len(q) /\ n + 1 \in 0 .. Len(r) /\ n + 1 # 0 /\ (n + 1) - 1 = n
      BY <1>0
    <3> QED BY <1>1, <3>1
  <2> QED BY <2>1, <2>2
<1>4. m \in S
  <2> HIDE DEF S
  <2> QED BY <1>2, <1>3, SetInduction
<1> QED BY <1>4

LEMMA SumFacts ==
  ASSUME NEW q \in Queue
  PROVE  /\ IsSum(Sum(q), q)
         /\ Len(q) \in Nat
         /\ Sum(q) \in [0 .. Len(q) -> Seq(Units)]
         /\ Sum(q)[0] = <<>>
         /\ \A n \in 1 .. Len(q) : Sum(q)[n] = Sum(q)[n-1] \o q[n].data
<1>1. PICK f \in [0 .. Len(q) -> Seq(Units)] : IsSum(f, q)
  BY SumExists
<1>2. IsSum(Sum(q), q)
  BY <1>1 DEF Sum
<1>3. Len(q) \in Nat
  BY LenProperties DEF Queue
<1>4. \A n \in 0 .. Len(q) : Sum(q)[n] =
        IF n = 0 THEN <<>> ELSE Sum(q)[n-1] \o q[n].data
  BY <1>2 DEF IsSum
<1>5. \A n \in 0 .. Len(q) : Sum(q)[n] = f[n]
  BY <1>1, <1>2, <1>3, SumsAgree
<1>6. Sum(q) \in [0 .. Len(q) -> Seq(Units)]
  <2>1. Sum(q) = [n \in 0 .. Len(q) |-> IF n = 0 THEN <<>> ELSE Sum(q)[n-1] \o q[n].data]
    BY <1>2 DEF IsSum
  <2>2. DOMAIN Sum(q) = 0 .. Len(q) /\ Sum(q) = [n \in 0 .. Len(q) |-> Sum(q)[n]]
    BY <2>1
  <2> QED BY <1>5, <2>2
<1>7. Sum(q)[0] = <<>>
  BY <1>3, <1>4
<1>8. ASSUME NEW n \in 1 .. Len(q)
      PROVE  Sum(q)[n] = Sum(q)[n-1] \o q[n].data
  <2>1. n \in 0 .. Len(q) /\ n # 0
    BY <1>3
  <2> QED BY <1>4, <2>1
<1> QED BY <1>2, <1>3, <1>6, <1>7, <1>8

LEMMA FlatType == ASSUME NEW q \in Queue PROVE Flat(q) \in Stream
<1>1. Sum(q) \in [0 .. Len(q) -> Seq(Units)] /\ Len(q) \in Nat
  BY SumFacts
<1>2. Sum(q)[Len(q)] \in Seq(Units)
  BY <1>1
<1> QED BY <1>2, FlatIsSum DEF Stream

LEMMA FlatEmpty == /\ <<>> \in Queue /\ Flat(<<>>) = <<>>
<1>1. <<>> \in Queue /\ Len(<<>>) = 0
  BY EmptySeq DEF Queue
<1> QED BY <1>1, FlatIsSum, SumFacts

LEMMA FlatAppend ==
  ASSUME NEW q \in Queue, NEW b \in Buffer
  PROVE  Append(q, b) \in Queue /\ Flat(Append(q, b)) = Cat(Flat(q), b.data)
<1> DEFINE r == Append(q, b)
<1>1. /\ r \in Queue /\ Len(q) \in Nat /\ Len(r) = Len(q) + 1
      /\ \A i \in 1 .. Len(q) : q[i] = r[i]
      /\ r[Len(q) + 1] = b
  BY AppendFacts DEF Queue
<1> HIDE DEF r
<1>2. Sum(q)[Len(q)] = Sum(r)[Len(q)]
  <2>1. IsSum(Sum(q), q) /\ IsSum(Sum(r), r)
    BY <1>1, SumFacts
  <2>2. Len(q) <= Len(q) /\ Len(q) <= Len(r)
    BY <1>1
  <2> QED BY <1>1, <2>1, <2>2, SumsAgree
<1>3. Sum(r)[Len(r)] = Sum(r)[Len(q)] \o b.data
  <2>1. \A n \in 1 .. Len(r) : Sum(r)[n] = Sum(r)[n-1] \o r[n].data
    BY <1>1, SumFacts
  <2>2. Len(r) \in 1 .. Len(r) /\ Len(r) - 1 = Len(q)
    BY <1>1
  <2> QED BY <1>1, <2>1, <2>2
<1>4. Flat(r) = Flat(q) \o b.data
  BY <1>2, <1>3, FlatIsSum
<1> QED BY <1>1, <1>4 DEF r, Cat

LEMMA FlatCons ==
  ASSUME NEW q \in Queue, NEW b \in Buffer
  PROVE  <<b>> \o q \in Queue /\ Flat(<<b>> \o q) = Cat(b.data, Flat(q))
<1> DEFINE r == <<b>> \o q
           Shifted(n) == n <= Len(q) => Sum(r)[n+1] = b.data \o Sum(q)[n]
           S == {n \in Nat : Shifted(n)}
<1>1. /\ r \in Queue /\ Len(q) \in Nat /\ Len(r) = Len(q) + 1 /\ r[1] = b
      /\ \A i \in 1 .. Len(q) : r[i + 1] = q[i]
  BY ConsFacts DEF Queue
<1> HIDE DEF r
<1>2. /\ Sum(r)[0] = <<>> /\ Sum(q)[0] = <<>>
      /\ \A n \in 1 .. Len(r) : Sum(r)[n] = Sum(r)[n-1] \o r[n].data
      /\ \A n \in 1 .. Len(q) : Sum(q)[n] = Sum(q)[n-1] \o q[n].data
      /\ Sum(q) \in [0 .. Len(q) -> Seq(Units)]
  BY <1>1, SumFacts
<1>d. b.data \in Seq(Units) /\ \A i \in 1 .. Len(q) : q[i].data \in Seq(Units)
  <2>1. \A i \in 1 .. Len(q) : q[i] \in Buffer
    BY ElementOfSeq DEF Queue
  <2> QED BY <2>1 DEF Buffer
<1>3. Shifted(0)
  <2>1. 1 \in 1 .. Len(r)
    BY <1>1
  <2>2. Sum(r)[1] = Sum(r)[0] \o r[1].data
    <3>1. 1 - 1 = 0
      OBVIOUS
    <3> QED BY <1>2, <2>1, <3>1
  <2>3. <<>> \o b.data = b.data \o <<>>
    BY <1>d, ConcatEmptySeq
  <2> QED BY <1>1, <1>2, <2>2, <2>3
<1>4. ASSUME NEW n \in Nat, Shifted(n), n + 1 <= Len(q)
      PROVE  Sum(r)[n+2] = b.data \o Sum(q)[n+1]
  <2>0. /\ n <= Len(q) /\ n + 1 \in 1 .. Len(q) /\ n + 2 \in 1 .. Len(r)
        /\ n \in 0 .. Len(q) /\ (n + 2) - 1 = n + 1 /\ (n + 1) + 1 = n + 2
        /\ (n + 1) - 1 = n
    BY <1>1, <1>4
  <2>1. Sum(r)[n+1] = b.data \o Sum(q)[n]
    BY <1>4, <2>0
  <2>2. Sum(r)[n+2] = (b.data \o Sum(q)[n]) \o q[n+1].data
    <3>1. Sum(r)[n+2] = Sum(r)[n+1] \o r[n+2].data
      BY <1>2, <2>0
    <3>2. r[n+2] = q[n+1]
      BY <1>1, <2>0
    <3> QED BY <2>1, <3>1, <3>2
  <2>3. Sum(q)[n+1] = Sum(q)[n] \o q[n+1].data
    BY <1>2, <2>0
  <2>4. Sum(q)[n] \in Seq(Units) /\ q[n+1].data \in Seq(Units)
    BY <1>2, <1>d, <2>0
  <2>5. (b.data \o Sum(q)[n]) \o q[n+1].data = b.data \o (Sum(q)[n] \o q[n+1].data)
    <3>1. /\ b.data \in Stream /\ Sum(q)[n] \in Stream /\ q[n+1].data \in Stream
      BY <1>d, <2>4 DEF Stream
    <3> QED BY <3>1, Concat DEF Cat
  <2> QED BY <2>2, <2>3, <2>5
<1>5. Shifted(Len(q))
  <2>1. 0 \in S /\ \A n \in Nat : n \in S => n + 1 \in S
    <3>1. ASSUME NEW n \in Nat, Shifted(n)
          PROVE  Shifted(n + 1)
      <4>1. (n + 1) + 1 = n + 2
        OBVIOUS
      <4> QED BY <1>4, <3>1, <4>1
    <3> HIDE DEF Shifted
    <3> QED BY <1>3, <3>1
  <2>2. Len(q) \in S
    <3> HIDE DEF S
    <3> QED BY <1>1, <2>1, SetInduction
  <2> HIDE DEF Shifted
  <2> QED BY <2>2
<1>6. Flat(r) = b.data \o Flat(q)
  <2>0. Len(q) <= Len(q)
    BY <1>1
  <2>1. Sum(r)[Len(q) + 1] = b.data \o Sum(q)[Len(q)]
    BY <1>5, <2>0
  <2>2. Flat(r) = Sum(r)[Len(q) + 1] /\ Flat(q) = Sum(q)[Len(q)]
    BY <1>1, FlatIsSum
  <2> QED BY <2>1, <2>2
<1> QED BY <1>1, <1>6 DEF r, Cat

LEMMA HeadThenTail ==
  ASSUME NEW q \in Queue, q # <<>>
  PROVE  /\ Head(q) \in Buffer /\ Tail(q) \in Queue /\ Len(q) = Len(Tail(q)) + 1
         /\ q = <<Head(q)>> \o Tail(q)
<1>1. Tail(q) \in Queue /\ Head(q) \in Buffer /\ Len(q) = Len(Tail(q)) + 1
  BY TailFacts DEF Queue
<1>2. q = <<Head(q)>> \o Tail(q)
  <2>1. /\ <<Head(q)>> \o Tail(q) \in Seq(Buffer)
        /\ Len(<<Head(q)>> \o Tail(q)) = Len(Tail(q)) + 1
        /\ (<<Head(q)>> \o Tail(q))[1] = Head(q)
        /\ \A i \in 1 .. Len(Tail(q)) : (<<Head(q)>> \o Tail(q))[i + 1] = Tail(q)[i]
    BY <1>1, ConsFacts DEF Queue
  <2>2. /\ Head(q) = q[1] /\ Len(q) \in Nat \ {0} /\ Len(Tail(q)) = Len(q) - 1
        /\ \A i \in 1 .. Len(q) - 1 : Tail(q)[i] = q[i + 1]
    BY TailFacts DEF Queue
  <2>3. ASSUME NEW j \in 1 .. Len(q)
        PROVE  q[j] = (<<Head(q)>> \o Tail(q))[j]
    <3>1. CASE j = 1
      BY <2>1, <2>2, <3>1
    <3>2. CASE j # 1
      <4>1. j - 1 \in 1 .. Len(Tail(q)) /\ (j - 1) + 1 = j
        BY <2>2, <3>2
      <4> QED BY <2>1, <2>2, <4>1
    <3> QED BY <3>1, <3>2
  <2>4. Len(q) = Len(<<Head(q)>> \o Tail(q))
    BY <2>1, <2>2
  <2> QED BY <2>1, <2>3, <2>4, SeqEqual DEF Queue
<1> QED BY <1>1, <1>2

LEMMA FlatTail ==
  ASSUME NEW q \in Queue, q # <<>>
  PROVE  Tail(q) \in Queue /\ Flat(q) = Cat(Head(q).data, Flat(Tail(q)))
BY HeadThenTail, FlatCons

-----------------------------------------------------------------------------
(* Pieces of the stream                                                     *)

LEMMA Cuts ==
  ASSUME NEW x \in Stream, NEW k \in Nat
  PROVE  /\ First(x, k) \in Stream /\ Rest(x, k) \in Stream
         /\ Cat(First(x, k), Rest(x, k)) = x
         /\ k = 0 => First(x, k) = <<>> /\ Rest(x, k) = x
         /\ k >= Len(x) => First(x, k) = x /\ Rest(x, k) = <<>>
         /\ k > 0 /\ x # <<>> => First(x, k) # <<>>
         /\ k < Len(x) => Rest(x, k) # <<>> /\ Len(First(x, k)) = k
<1> DEFINE m == Smaller(k, Len(x))
<1>0. x \in Seq(Units) /\ Len(x) \in Nat /\ m \in 0 .. Len(x) /\ m <= k
      /\ \A i \in 1 .. Len(x) : x[i] \in Units
  BY LenProperties, ElementOfSeq DEF Stream, Smaller
<1>1. /\ First(x, k) \in Seq(Units) /\ Len(First(x, k)) = m
      /\ \A i \in 1 .. m : First(x, k)[i] = x[i]
  BY <1>0, SubSeqProperties DEF First
<1>2. /\ Rest(x, k) \in Seq(Units) /\ Len(Rest(x, k)) = Len(x) - m
      /\ \A i \in 1 .. Len(x) - m : Rest(x, k)[i] = x[k + i]
  <2>1. k + 1 \in Int /\ Len(x) \in Int /\ \A i \in k + 1 .. Len(x) : x[i] \in Units
    BY <1>0
  <2>2. /\ SubSeq(x, k + 1, Len(x)) \in Seq(Units)
        /\ Len(SubSeq(x, k + 1, Len(x))) =
             IF k + 1 <= Len(x) THEN Len(x) - (k + 1) + 1 ELSE 0
        /\ \A i \in 1 .. Len(x) - (k + 1) + 1 :
             SubSeq(x, k + 1, Len(x))[i] = x[(k + 1) + i - 1]
    BY <2>1, SubSeqProperties
  <2>3. Len(x) - m = IF k + 1 <= Len(x) THEN Len(x) - (k + 1) + 1 ELSE 0
    <3>1. CASE k < Len(x)
      <4>1. m = k
        BY <3>1 DEF Smaller
      <4>2. k + 1 <= Len(x) /\ Len(x) - k = Len(x) - (k + 1) + 1
        BY <1>0, <3>1
      <4> QED BY <4>1, <4>2
    <3>2. CASE ~(k < Len(x))
      <4>1. m = Len(x)
        BY <3>2 DEF Smaller
      <4>2. ~(k + 1 <= Len(x)) /\ Len(x) - Len(x) = 0
        BY <1>0, <3>2
      <4> QED BY <4>1, <4>2
    <3> QED BY <3>1, <3>2
  <2>4. ASSUME NEW i \in 1 .. Len(x) - m
        PROVE  Rest(x, k)[i] = x[k + i]
    <3>1. i \in 1 .. Len(x) - (k + 1) + 1 /\ (k + 1) + i - 1 = k + i
      BY <1>0, <2>3
    <3> QED BY <2>2, <3>1 DEF Rest
  <2> QED BY <2>2, <2>3, <2>4 DEF Rest
<1>3. First(x, k) \o Rest(x, k) = x
  <2>1. /\ First(x, k) \o Rest(x, k) \in Seq(Units)
        /\ Len(First(x, k) \o Rest(x, k)) = Len(First(x, k)) + Len(Rest(x, k))
        /\ \A i \in 1 .. Len(First(x, k)) + Len(Rest(x, k)) :
             (First(x, k) \o Rest(x, k))[i] =
               IF i <= Len(First(x, k)) THEN First(x, k)[i]
                                        ELSE Rest(x, k)[i - Len(First(x, k))]
    BY <1>1, <1>2, ConcatProperties
  <2>2. Len(First(x, k) \o Rest(x, k)) = Len(x)
    BY <1>0, <1>1, <1>2, <2>1
  <2>3. ASSUME NEW i \in 1 .. Len(x)
        PROVE  (First(x, k) \o Rest(x, k))[i] = x[i]
    <3>1. CASE i <= m
      BY <1>0, <1>1, <1>2, <2>1, <3>1
    <3>2. CASE i > m
      <4>1. m = k /\ i - m \in 1 .. Len(x) - m /\ k + (i - m) = i
        BY <1>0, <3>2 DEF Smaller
      <4>2. (First(x, k) \o Rest(x, k))[i] = Rest(x, k)[i - m]
        BY <1>0, <1>1, <1>2, <2>1, <3>2
      <4> QED BY <1>2, <4>1, <4>2
    <3>3. i <= m \/ i > m
      BY <1>0
    <3> QED BY <3>1, <3>2, <3>3
  <2> QED BY <1>0, <2>1, <2>2, <2>3, SeqEqual
<1>4. k = 0 => First(x, k) = <<>> /\ Rest(x, k) = x
  <2> SUFFICES ASSUME k = 0
               PROVE  First(x, k) = <<>> /\ Rest(x, k) = x
    OBVIOUS
  <2>1. First(x, k) = <<>>
    BY <1>0, <1>1, EmptySeq
  <2> QED BY <1>2, <1>3, <2>1, ConcatEmptySeq
<1>5. k >= Len(x) => First(x, k) = x /\ Rest(x, k) = <<>>
  <2> SUFFICES ASSUME k >= Len(x)
               PROVE  First(x, k) = x /\ Rest(x, k) = <<>>
    OBVIOUS
  <2>1. m = Len(x)
    BY <1>0 DEF Smaller
  <2>2. Rest(x, k) = <<>>
    BY <1>0, <1>2, <2>1, EmptySeq
  <2> QED BY <1>1, <1>3, <2>2, ConcatEmptySeq
<1>6. k > 0 /\ x # <<>> => First(x, k) # <<>>
  BY <1>0, <1>1, EmptySeq DEF Smaller
<1>7. k < Len(x) => Rest(x, k) # <<>> /\ Len(First(x, k)) = k
  BY <1>0, <1>1, <1>2, EmptySeq DEF Smaller
<1> QED BY <1>1, <1>2, <1>3, <1>4, <1>5, <1>6, <1>7 DEF Stream, Cat

-----------------------------------------------------------------------------
(* The invariant                                                            *)

\* A script never goes back to the zero-byte mode ("flow" to "zero" would lose
\* data: the direct WSARecv assigns *bytesRead, lolevel:831); it may also never
\* leave the burst mode (its receives would exceed the cap of the new mode).
NeverBackToZero  == \A sw \in Switches : sw[2] = "zero" => sw[1] = "zero"
NeverLeavesBurst == \A sw \in Switches : sw[1] = "burst" => sw[2] = "burst"

\* IocpLLPopFront has not met an empty list.
Ready == pc["tcl"] # "fault"

PostPlaces == {"count", "back", "call"}
One(b) == IF b THEN 1 ELSE 0

\* Everything that is posted, on its way, queued or in the hands of a thread, and
\* what the Tcl thread is about to post.
Total == Len(posted) + Len(port) + Len(pending) + One(pc["ct"] # "idle")
           + One(pc["tcl"] \in PostPlaces \cup {"merge"})

\* What the threads are about to post is counted.
Counted == Ready => recvs = Len(posted) + Len(port) + One(pc["tcl"] \in {"call", "back"})
                              + One(pc["ct"] \in {"call", "back"})

\* Where the Tcl thread is in IocpInputProc, and what the call has gathered.
TclPlace ==
  /\ pc["tcl"] \in {"idle", "setCaps", "pop", "merge", "repost", "clear"} \cup PostPlaces
  /\ pc["tcl"] \in {"idle", "setCaps"} => call = NoCall
  /\ pc["tcl"] \in {"pop", "merge"} =>
       /\ Len(call.buf) = call.n /\ call.n <= call.want
       /\ call.off = call.n \/ (pc["tcl"] = "pop" /\ Total = 0)
  /\ pc["tcl"] \notin {"idle", "setCaps"} => call.want > 0
  /\ pc["tcl"] \in PostPlaces \cup {"clear"} /\ call.burst => mode = "burst"
  /\ pc["tcl"] # "merge" => held["tcl"] = NoBuf

\* Where the completion thread is in HandleIo.
CtPlace ==
  /\ pc["ct"] \in {"idle", "decide", "push"} \cup PostPlaces
  /\ pc["ct"] = "idle" => held["ct"] = NoBuf
  /\ pc["ct"] \in PostPlaces => held["ct"].data # <<>>

Places == /\ Ready => TclPlace /\ CtPlace
          /\ ~Ready => pc["ct"] = "fault"

\* Data comes without an error, and not in a zero-byte receive.
Sound(b) == b.data # <<>> => b.err = "none" /\ b.size > 0
AllSound(q) == \A i \in DOMAIN q : Sound(q[i])
SoundBuffers ==
  /\ AllSound(port) /\ AllSound(pending)
  /\ Sound(held["tcl"]) /\ Sound(held["ct"])
  /\ peer = "reset" => net = <<>>

\* A receive that completed without data is the end: the peer has closed, Winsock
\* has nothing, and no buffer behind it has data.
IsEnd(b)    == b.data = <<>> /\ b.size > 0 /\ b.err = "none"
NoData(q)   == \A i \in DOMAIN q : q[i].data = <<>>
HasEnd(q)   == \E i \in DOMAIN q : IsEnd(q[i])
EndsLast(q) == \A i \in DOMAIN q : IsEnd(q[i]) =>
                 \A j \in DOMAIN q : i < j => q[j].data = <<>>
EndIsLast ==
  /\ IsEnd(held["tcl"]) \/ HasEnd(pending) \/ IsEnd(held["ct"]) \/ HasEnd(port) =>
       peer = "closed" /\ net = <<>>
  /\ EndsLast(pending) /\ EndsLast(port)
  /\ IsEnd(held["tcl"]) => NoData(pending)
  /\ IsEnd(held["tcl"]) \/ HasEnd(pending) => held["ct"].data = <<>>
  /\ IsEnd(held["tcl"]) \/ HasEnd(pending) \/ IsEnd(held["ct"]) => NoData(port)

\* A zero-byte receive is the only one, wherever it is, and in the zero-byte mode
\* there is no other.
ZeroIn(q)   == \E i \in DOMAIN q : q[i].size = 0
OnlyZero(q) == \A i \in DOMAIN q : q[i].size = 0
ZeroPosted(q)     == \E i \in DOMAIN q : q[i] = 0
OnlyZeroPosted(q) == \A i \in DOMAIN q : q[i] = 0
HasZero ==
  \/ ZeroPosted(posted)
  \/ ZeroIn(port) \/ ZeroIn(pending)
  \/ pc["ct"] # "idle" /\ held["ct"].size = 0
  \/ pc["tcl"] = "merge" /\ held["tcl"].size = 0
AllZero ==
  /\ OnlyZeroPosted(posted) /\ OnlyZero(port) /\ OnlyZero(pending)
  /\ held["ct"].size = 0 /\ held["tcl"].size = 0
Alone ==
  /\ Total <= 1
  /\ pc["tcl"] = "repost" => Total = 0
  /\ pc["tcl"] \in {"pop", "merge"} /\ call.n > 0 => Total = 0
  /\ pc["tcl"] = "pop" /\ call.async /\ call.n = 0 => pending # <<>>
ZeroIsAlone ==
  /\ mode = "zero" => AllZero
  /\ Ready /\ (mode = "zero" \/ HasZero) => Alone

\* An alert has something behind it.
AlertIn(q) == \E i \in DOMAIN q : IsAlert(q[i])
HasAlert ==
  \/ AlertIn(port) \/ AlertIn(pending)
  \/ pc["ct"] # "idle" /\ IsAlert(held["ct"])
  \/ pc["tcl"] = "merge" /\ IsAlert(held["tcl"])
AlertsAreReady == Ready /\ HasAlert => net # <<>> \/ peer # "open"

FlowInv == /\ TypeOK /\ Counted /\ Places /\ SoundBuffers /\ EndIsLast
           /\ ZeroIsAlone /\ AlertsAreReady /\ NothingLost /\ EofIsLast

\* The cap, and what keeps a socket in a mode without burst receiving.
Capped ==
  /\ cap <= CapOf(mode)
  /\ Len(posted) + Len(port) + One(pc["tcl"] = "call") + One(pc["ct"] = "call")
       <= CapOf(mode)

Something == posted # <<>> \/ port # <<>> \/ pending # <<>> \/ pc["ct"] # "idle"
Fed ==
  mode # "burst" =>
    /\ Ready => pc["ct"] \in {"idle", "decide", "push"}
    /\ ~starved => cap = 1
    /\ ~starved /\ ~eof /\ ~failed =>
         \/ Something
         \/ pc["tcl"] \in {"merge", "repost", "count", "call"}
         \/ pc["tcl"] = "pop" /\ call.async

CapInv == FlowInv /\ Capped /\ Fed

-----------------------------------------------------------------------------
(* What every step keeps                                                    *)

\* The types of the parts.
Typed ==
  /\ sent \in Nat /\ sent <= MaxSent /\ MaxSent \in Nat
  /\ net \in Stream /\ delivered \in Stream
  /\ posted \in Seq(Nat) /\ port \in Queue /\ pending \in Queue
  /\ Len(posted) \in Nat /\ Len(port) \in Nat /\ Len(pending) \in Nat
  /\ posted = <<>> <=> Len(posted) = 0
  /\ port = <<>> <=> Len(port) = 0
  /\ pending = <<>> <=> Len(pending) = 0
  /\ peer \in {"open", "closed", "reset"} /\ recvs \in Nat /\ cap \in Int
  /\ pc \in [Threads -> At] /\ pc["tcl"] \in At /\ pc["ct"] \in At
  /\ held \in [Threads -> Buffer] /\ held["tcl"] \in Buffer /\ held["ct"] \in Buffer
  /\ held["tcl"].data \in Stream /\ held["ct"].data \in Stream
  /\ held["tcl"].size \in Nat /\ held["ct"].size \in Nat
  /\ call \in [want : Nat, buf : Seq(Units), off : Nat, n : Nat,
               async : BOOLEAN, burst : BOOLEAN]
  /\ call.buf \in Stream /\ First(call.buf, call.n) \in Stream
  /\ Flat(pending) \in Stream /\ Flat(port) \in Stream
  /\ BufSize \in Nat \ {0} /\ ChanSize \in Nat \ {0}

LEMMA TypeFacts == TypeOK => Typed
<1> SUFFICES ASSUME TypeOK PROVE Typed
  OBVIOUS
<1>1. /\ sent \in Nat /\ sent <= MaxSent /\ MaxSent \in Nat
      /\ BufSize \in Nat \ {0} /\ ChanSize \in Nat \ {0}
      /\ recvs \in Nat /\ cap \in Int /\ peer \in {"open", "closed", "reset"}
  BY SizesAssumption DEF TypeOK
<1>2. net \in Stream /\ delivered \in Stream
  BY DEF TypeOK, Stream
<1>3. /\ posted \in Seq(Nat)
      /\ Len(posted) \in Nat /\ DOMAIN posted = 1 .. Len(posted)
      /\ \A i \in 1 .. Len(posted) : posted[i] \in Nat
      /\ posted = <<>> <=> Len(posted) = 0
  <2>1. posted \in Seq(Nat)
    BY DEF TypeOK
  <2> QED BY <2>1, LenProperties, ElementOfSeq, EmptySeq
<1>4. /\ port \in Queue
      /\ Len(port) \in Nat /\ DOMAIN port = 1 .. Len(port)
      /\ \A i \in 1 .. Len(port) : port[i] \in Buffer
      /\ port = <<>> <=> Len(port) = 0
  <2>1. port \in Seq(Buffer)
    BY DEF TypeOK
  <2> HIDE DEF Buffer
  <2> QED BY <2>1, LenProperties, ElementOfSeq, EmptySeq DEF Queue
<1>5. /\ pending \in Queue
      /\ Len(pending) \in Nat /\ DOMAIN pending = 1 .. Len(pending)
      /\ \A i \in 1 .. Len(pending) : pending[i] \in Buffer
      /\ pending = <<>> <=> Len(pending) = 0
  <2>1. pending \in Seq(Buffer)
    BY DEF TypeOK
  <2> QED BY <2>1, LenProperties, ElementOfSeq, EmptySeq DEF Queue
<1>6. /\ pc \in [Threads -> At] /\ pc["tcl"] \in At /\ pc["ct"] \in At
      /\ held \in [Threads -> Buffer] /\ held["tcl"] \in Buffer /\ held["ct"] \in Buffer
  BY DEF TypeOK, Threads
<1>7. /\ held["tcl"].data \in Stream /\ held["ct"].data \in Stream
      /\ held["tcl"].size \in Nat /\ held["ct"].size \in Nat
  BY <1>6 DEF Buffer, Stream
<1>8. /\ call \in [want : Nat, buf : Seq(Units), off : Nat, n : Nat,
                   async : BOOLEAN, burst : BOOLEAN]
      /\ call.buf \in Stream /\ call.n \in Nat
  BY DEF TypeOK, Stream
<1>9. First(call.buf, call.n) \in Stream
  BY <1>8, Cuts
<1>10. Flat(pending) \in Stream /\ Flat(port) \in Stream
  BY <1>4, <1>5, FlatType
<1> QED BY <1>1, <1>2, <1>3, <1>4, <1>5, <1>6, <1>7, <1>8, <1>9, <1>10 DEF Typed

\* What the parts of the invariant say of a queue that grows or shrinks.
Both(q, b, r) ==
  /\ AllSound(r) <=> AllSound(q) /\ Sound(b)
  /\ NoData(r) <=> NoData(q) /\ b.data = <<>>
  /\ HasEnd(r) <=> HasEnd(q) \/ IsEnd(b)
  /\ ZeroIn(r) <=> ZeroIn(q) \/ b.size = 0
  /\ OnlyZero(r) <=> OnlyZero(q) /\ b.size = 0
  /\ AlertIn(r) <=> AlertIn(q) \/ IsAlert(b)

LEMMA OfAppend ==
  ASSUME NEW q \in Queue, NEW b \in Buffer
  PROVE  /\ Append(q, b) \in Queue /\ Append(q, b) # <<>>
         /\ Len(Append(q, b)) = Len(q) + 1
         /\ Flat(Append(q, b)) = Cat(Flat(q), b.data)
         /\ Both(q, b, Append(q, b))
         /\ EndsLast(Append(q, b)) <=> EndsLast(q) /\ (HasEnd(q) => b.data = <<>>)
<1> DEFINE r == Append(q, b)
           n == Len(q) + 1
<1>1. /\ r \in Queue /\ r # <<>> /\ Len(q) \in Nat /\ Len(r) = n
      /\ DOMAIN q = 1 .. Len(q) /\ DOMAIN r = 1 .. n
      /\ \A i \in DOMAIN q : i \in DOMAIN r /\ r[i] = q[i] /\ i < n
      /\ n \in DOMAIN r /\ r[n] = b
      /\ \A i \in DOMAIN r : i # n => i \in DOMAIN q
  BY AppendFacts DEF Queue
<1>2. Flat(r) = Cat(Flat(q), b.data)
  BY FlatAppend
<1> HIDE DEF r, n
<1>3. AllSound(r) <=> AllSound(q) /\ Sound(b)
  BY <1>1 DEF AllSound
<1>4. NoData(r) <=> NoData(q) /\ b.data = <<>>
  BY <1>1 DEF NoData
<1>5. HasEnd(r) <=> HasEnd(q) \/ IsEnd(b)
  BY <1>1 DEF HasEnd
<1>6. ZeroIn(r) <=> ZeroIn(q) \/ b.size = 0
  BY <1>1 DEF ZeroIn
<1>7. OnlyZero(r) <=> OnlyZero(q) /\ b.size = 0
  BY <1>1 DEF OnlyZero
<1>8. AlertIn(r) <=> AlertIn(q) \/ IsAlert(b)
  BY <1>1 DEF AlertIn
<1>9. EndsLast(r) <=> EndsLast(q) /\ (HasEnd(q) => b.data = <<>>)
  <2>1. ASSUME EndsLast(r)
        PROVE  EndsLast(q) /\ (HasEnd(q) => b.data = <<>>)
    BY <1>1, <2>1 DEF EndsLast, HasEnd
  <2>2. ASSUME EndsLast(q), HasEnd(q) => b.data = <<>>,
               NEW i \in DOMAIN r, IsEnd(r[i]), NEW j \in DOMAIN r, i < j
        PROVE  r[j].data = <<>>
    <3>1. i # n /\ i \in DOMAIN q
      <4>1. ~(n < j)
        BY <1>1, <2>2
      <4> QED BY <1>1, <2>2, <4>1
    <3>2. HasEnd(q)
      BY <1>1, <2>2, <3>1 DEF HasEnd
    <3> QED BY <1>1, <2>2, <3>1, <3>2 DEF EndsLast
  <2> QED BY <2>1, <2>2 DEF EndsLast
<1> QED BY <1>1, <1>2, <1>3, <1>4, <1>5, <1>6, <1>7, <1>8, <1>9 DEF r, n, Both

LEMMA OfCons ==
  ASSUME NEW q \in Queue, NEW b \in Buffer
  PROVE  /\ <<b>> \o q \in Queue /\ <<b>> \o q # <<>>
         /\ Len(<<b>> \o q) = Len(q) + 1
         /\ Flat(<<b>> \o q) = Cat(b.data, Flat(q))
         /\ Both(q, b, <<b>> \o q)
         /\ EndsLast(<<b>> \o q) <=> EndsLast(q) /\ (IsEnd(b) => NoData(q))
<1> DEFINE r == <<b>> \o q
<1>1. /\ r \in Queue /\ r # <<>> /\ Len(q) \in Nat /\ Len(r) = Len(q) + 1
      /\ DOMAIN q = 1 .. Len(q) /\ DOMAIN r = 1 .. Len(q) + 1 /\ r[1] = b
      /\ \A i \in 1 .. Len(q) : r[i + 1] = q[i]
  BY ConsFacts DEF Queue
<1>2. Flat(r) = Cat(b.data, Flat(q))
  BY FlatCons
<1> HIDE DEF r
<1>0. /\ \A i \in DOMAIN q : i \in Nat /\ i + 1 \in DOMAIN r /\ r[i + 1] = q[i] /\ 1 < i + 1
      /\ 1 \in DOMAIN r /\ r[1] = b
      /\ \A i \in DOMAIN r : i # 1 => i - 1 \in DOMAIN q /\ r[i] = q[i - 1]
      /\ \A i \in DOMAIN r : i \in Nat
  <2>1. \A i \in DOMAIN q : i \in Nat /\ i + 1 \in DOMAIN r /\ r[i + 1] = q[i] /\ 1 < i + 1
    BY <1>1
  <2>2. 1 \in DOMAIN r /\ r[1] = b /\ \A i \in DOMAIN r : i \in Nat
    BY <1>1
  <2>3. ASSUME NEW i \in DOMAIN r, i # 1
        PROVE  i - 1 \in DOMAIN q /\ r[i] = q[i - 1]
    <3>1. i - 1 \in DOMAIN q /\ (i - 1) + 1 = i
      BY <1>1, <2>3
    <3> QED BY <1>1, <3>1
  <2> QED BY <2>1, <2>2, <2>3
<1>3. AllSound(r) <=> AllSound(q) /\ Sound(b)
  BY <1>0 DEF AllSound
<1>4. NoData(r) <=> NoData(q) /\ b.data = <<>>
  BY <1>0 DEF NoData
<1>5. HasEnd(r) <=> HasEnd(q) \/ IsEnd(b)
  BY <1>0 DEF HasEnd
<1>6. ZeroIn(r) <=> ZeroIn(q) \/ b.size = 0
  BY <1>0 DEF ZeroIn
<1>7. OnlyZero(r) <=> OnlyZero(q) /\ b.size = 0
  BY <1>0 DEF OnlyZero
<1>8. AlertIn(r) <=> AlertIn(q) \/ IsAlert(b)
  BY <1>0 DEF AlertIn
<1>9. EndsLast(r) <=> EndsLast(q) /\ (IsEnd(b) => NoData(q))
  <2>1. ASSUME EndsLast(r)
        PROVE  EndsLast(q) /\ (IsEnd(b) => NoData(q))
    <3>1. ASSUME NEW i \in DOMAIN q, IsEnd(q[i]), NEW j \in DOMAIN q, i < j
          PROVE  q[j].data = <<>>
      <4>1. /\ i + 1 \in DOMAIN r /\ IsEnd(r[i + 1]) /\ j + 1 \in DOMAIN r
            /\ i + 1 < j + 1 /\ r[j + 1] = q[j]
        BY <1>0, <3>1
      <4> QED BY <2>1, <4>1 DEF EndsLast
    <3>2. IsEnd(b) => NoData(q)
      BY <1>0, <2>1 DEF EndsLast, NoData
    <3> QED BY <3>1, <3>2 DEF EndsLast
  <2>2. ASSUME EndsLast(q), IsEnd(b) => NoData(q),
               NEW i \in DOMAIN r, IsEnd(r[i]), NEW j \in DOMAIN r, i < j
        PROVE  r[j].data = <<>>
    <3>1. j # 1 /\ j - 1 \in DOMAIN q /\ r[j] = q[j - 1]
      <4>1. j # 1
        BY <1>1, <2>2
      <4> QED BY <1>0, <4>1
    <3>2. CASE i = 1
      BY <1>0, <2>2, <3>1, <3>2 DEF NoData
    <3>3. CASE i # 1
      <4>1. i - 1 \in DOMAIN q /\ r[i] = q[i - 1] /\ i - 1 < j - 1
        BY <1>0, <2>2, <3>3
      <4> QED BY <2>2, <3>1, <4>1 DEF EndsLast
    <3> QED BY <3>2, <3>3
  <2> QED BY <2>1, <2>2 DEF EndsLast
<1> QED BY <1>1, <1>2, <1>3, <1>4, <1>5, <1>6, <1>7, <1>8, <1>9 DEF r, Both

LEMMA OfTail ==
  ASSUME NEW q \in Queue, q # <<>>
  PROVE  /\ Tail(q) \in Queue /\ Head(q) \in Buffer
         /\ Head(q).data \in Stream /\ Flat(Tail(q)) \in Stream
         /\ Len(q) = Len(Tail(q)) + 1 /\ Len(Tail(q)) \in Nat
         /\ Flat(q) = Cat(Head(q).data, Flat(Tail(q)))
         /\ Both(Tail(q), Head(q), q)
         /\ EndsLast(q) <=> EndsLast(Tail(q)) /\ (IsEnd(Head(q)) => NoData(Tail(q)))
<1>1. /\ Head(q) \in Buffer /\ Tail(q) \in Queue /\ Len(q) = Len(Tail(q)) + 1
      /\ q = <<Head(q)>> \o Tail(q)
  BY HeadThenTail
<1>2. Len(Tail(q)) \in Nat /\ Head(q).data \in Stream /\ Flat(Tail(q)) \in Stream
  BY <1>1, LenProperties, FlatType DEF Queue, Buffer, Stream
<1> DEFINE h == Head(q)
           t == Tail(q)
<1>3. /\ Flat(<<h>> \o t) = Cat(h.data, Flat(t))
      /\ Both(t, h, <<h>> \o t)
      /\ EndsLast(<<h>> \o t) <=> EndsLast(t) /\ (IsEnd(h) => NoData(t))
  BY <1>1, OfCons
<1>4. <<h>> \o t = q
  BY <1>1
<1> HIDE DEF h, t
<1>5. /\ Flat(q) = Cat(h.data, Flat(t)) /\ Both(t, h, q)
      /\ EndsLast(q) <=> EndsLast(t) /\ (IsEnd(h) => NoData(t))
  BY <1>3, <1>4
<1> QED BY <1>1, <1>2, <1>5 DEF h, t

\* The same of the receives that are posted.
LEMMA OfPosted ==
  ASSUME NEW q \in Seq(Nat)
  PROVE  /\ \A k \in Nat :
              /\ Append(q, k) \in Seq(Nat) /\ Append(q, k) # <<>>
              /\ Len(Append(q, k)) = Len(q) + 1
              /\ ZeroPosted(Append(q, k)) <=> ZeroPosted(q) \/ k = 0
              /\ OnlyZeroPosted(Append(q, k)) <=> OnlyZeroPosted(q) /\ k = 0
         /\ q # <<>> =>
              /\ Tail(q) \in Seq(Nat) /\ Head(q) \in Nat
              /\ Len(q) = Len(Tail(q)) + 1 /\ Len(Tail(q)) \in Nat
              /\ ZeroPosted(q) <=> ZeroPosted(Tail(q)) \/ Head(q) = 0
              /\ OnlyZeroPosted(q) <=> OnlyZeroPosted(Tail(q)) /\ Head(q) = 0
<1>1. ASSUME NEW k \in Nat
      PROVE  /\ Append(q, k) \in Seq(Nat) /\ Append(q, k) # <<>>
             /\ Len(Append(q, k)) = Len(q) + 1
             /\ ZeroPosted(Append(q, k)) <=> ZeroPosted(q) \/ k = 0
             /\ OnlyZeroPosted(Append(q, k)) <=> OnlyZeroPosted(q) /\ k = 0
  <2> DEFINE r == Append(q, k)
             n == Len(q) + 1
  <2>1. /\ r \in Seq(Nat) /\ r # <<>> /\ Len(r) = n
        /\ \A i \in DOMAIN q : i \in DOMAIN r /\ r[i] = q[i]
        /\ n \in DOMAIN r /\ r[n] = k
        /\ \A i \in DOMAIN r : i # n => i \in DOMAIN q
    BY AppendFacts
  <2> HIDE DEF r, n
  <2>2. ZeroPosted(r) <=> ZeroPosted(q) \/ k = 0
    BY <2>1 DEF ZeroPosted
  <2>3. OnlyZeroPosted(r) <=> OnlyZeroPosted(q) /\ k = 0
    BY <2>1 DEF OnlyZeroPosted
  <2> QED BY <2>1, <2>2, <2>3 DEF r, n
<1>2. ASSUME q # <<>>
      PROVE  /\ Tail(q) \in Seq(Nat) /\ Head(q) \in Nat
             /\ Len(q) = Len(Tail(q)) + 1 /\ Len(Tail(q)) \in Nat
             /\ ZeroPosted(q) <=> ZeroPosted(Tail(q)) \/ Head(q) = 0
             /\ OnlyZeroPosted(q) <=> OnlyZeroPosted(Tail(q)) /\ Head(q) = 0
  <2> DEFINE t == Tail(q)
             h == Head(q)
  <2>1. /\ t \in Seq(Nat) /\ h \in Nat /\ Len(q) = Len(t) + 1 /\ Len(t) \in Nat
        /\ DOMAIN q = 1 .. Len(q) /\ DOMAIN t = 1 .. Len(q) - 1 /\ h = q[1]
        /\ \A i \in 1 .. Len(q) - 1 : t[i] = q[i + 1]
    BY <1>2, TailFacts
  <2> HIDE DEF t, h
  <2>2. /\ \A i \in DOMAIN t : i + 1 \in DOMAIN q /\ t[i] = q[i + 1]
        /\ 1 \in DOMAIN q /\ q[1] = h
    BY <2>1
  <2>3. ASSUME NEW i \in DOMAIN q, i # 1
        PROVE  i - 1 \in DOMAIN t /\ q[i] = t[i - 1]
    <3>1. i - 1 \in 1 .. Len(q) - 1 /\ (i - 1) + 1 = i
      BY <2>1, <2>3
    <3> QED BY <2>1, <3>1
  <2>4. ZeroPosted(q) <=> ZeroPosted(t) \/ h = 0
    BY <2>2, <2>3 DEF ZeroPosted
  <2>5. OnlyZeroPosted(q) <=> OnlyZeroPosted(t) /\ h = 0
    BY <2>2, <2>3 DEF OnlyZeroPosted
  <2> QED BY <2>1, <2>4, <2>5 DEF t, h
<1> QED BY <1>1, <1>2

LEMMA OfEmpty ==
  /\ ~ZeroPosted(<<>>) /\ OnlyZeroPosted(<<>>)
  /\ ~ZeroIn(<<>>) /\ OnlyZero(<<>>) /\ ~AlertIn(<<>>) /\ ~HasEnd(<<>>)
  /\ NoData(<<>>) /\ AllSound(<<>>) /\ EndsLast(<<>>)
BY DEF ZeroPosted, OnlyZeroPosted, ZeroIn, OnlyZero, AlertIn, HasEnd, NoData, AllSound,
       EndsLast

\* The stream, piece by piece.
Whole(d, c, h, p, k, q, n) == Cat(d, Cat(c, Cat(h, Cat(p, Cat(k, Cat(q, n))))))

Streams(d, c, h, p, k, q, n) ==
  /\ d \in Stream /\ c \in Stream /\ h \in Stream /\ p \in Stream /\ k \in Stream
  /\ q \in Stream /\ n \in Stream

Pieces == Whole(delivered, First(call.buf, call.n), held["tcl"].data, Flat(pending),
                held["ct"].data, Flat(port), net)

LEMMA Regroup ==
  ASSUME NEW d, NEW c, NEW h, NEW p, NEW k, NEW q, NEW n, Streams(d, c, h, p, k, q, n)
  PROVE  Whole(d, c, h, p, k, q, n) = Cat(Cat(Cat(Cat(Cat(Cat(d, c), h), p), k), q), n)
<1> DEFINE t1 == Cat(q, n)
           t2 == Cat(k, t1)
           t3 == Cat(p, t2)
           t4 == Cat(h, t3)
           d1 == Cat(d, c)
           d2 == Cat(d1, h)
           d3 == Cat(d2, p)
           d4 == Cat(d3, k)
           d5 == Cat(d4, q)
<1>1. /\ t1 \in Stream /\ t2 \in Stream /\ t3 \in Stream /\ t4 \in Stream
      /\ d1 \in Stream /\ d2 \in Stream /\ d3 \in Stream /\ d4 \in Stream /\ d5 \in Stream
  BY Concat DEF Streams
<1>2. Cat(d, Cat(c, t4)) = Cat(d1, t4)
  <2> HIDE DEF t4
  <2> QED BY <1>1, Concat DEF Streams
<1>3. Cat(d1, Cat(h, t3)) = Cat(d2, t3)
  <2> HIDE DEF t3, d1
  <2> QED BY <1>1, Concat DEF Streams
<1>4. Cat(d2, Cat(p, t2)) = Cat(d3, t2)
  <2> HIDE DEF t2, d2
  <2> QED BY <1>1, Concat DEF Streams
<1>5. Cat(d3, Cat(k, t1)) = Cat(d4, t1)
  <2> HIDE DEF t1, d3
  <2> QED BY <1>1, Concat DEF Streams
<1>6. Cat(d4, Cat(q, n)) = Cat(d5, n)
  <2> HIDE DEF d4
  <2> QED BY <1>1, Concat DEF Streams
<1> QED BY <1>2, <1>3, <1>4, <1>5, <1>6 DEF Whole

LEMMA Longer ==
  ASSUME NEW d, NEW c, NEW h, NEW p, NEW k, NEW q, NEW n, NEW s \in Stream,
         Streams(d, c, h, p, k, q, n)
  PROVE  Whole(d, c, h, p, k, q, Cat(n, s)) = Cat(Whole(d, c, h, p, k, q, n), s)
<1> DEFINE x == Cat(Cat(Cat(Cat(Cat(d, c), h), p), k), q)
<1>1. x \in Stream /\ n \in Stream /\ Streams(d, c, h, p, k, q, Cat(n, s))
  BY Concat DEF Streams
<1>2. Whole(d, c, h, p, k, q, n) = Cat(x, n)
  BY Regroup
<1>3. Whole(d, c, h, p, k, q, Cat(n, s)) = Cat(x, Cat(n, s))
  BY <1>1, Regroup
<1> HIDE DEF x
<1> QED BY <1>1, <1>2, <1>3, Concat

InPieces == Pieces = [i \in 1 .. sent |-> i]

LEMMA LostMeansPieces == Typed => (NothingLost <=> InPieces)
<1> SUFFICES ASSUME Typed PROVE NothingLost <=> InPieces
  OBVIOUS
<1> DEFINE c == First(call.buf, call.n)
           h == held["tcl"].data
           p == Flat(pending)
           k == held["ct"].data
           q == Flat(port)
<1>1. /\ delivered \in Stream /\ c \in Stream /\ h \in Stream /\ p \in Stream
      /\ k \in Stream /\ q \in Stream /\ net \in Stream
  BY DEF Typed
<1>2. Pieces = Cat(Cat(Cat(Cat(Cat(Cat(delivered, c), h), p), k), q), net)
  <2> HIDE DEF c, h, p, k, q
  <2>1. Pieces = Whole(delivered, c, h, p, k, q, net)
    BY DEF Pieces, c, h, p, k, q
  <2>2. Whole(delivered, c, h, p, k, q, net)
          = Cat(Cat(Cat(Cat(Cat(Cat(delivered, c), h), p), k), q), net)
    BY <1>1, Regroup DEF Streams
  <2> QED BY <2>1, <2>2
<1> QED BY <1>2 DEF NothingLost, InPieces, Cat

LEMMA CompletionFacts ==
  ASSUME Typed, SoundBuffers, NEW k \in Nat, net # <<>> \/ peer # "open"
  PROVE  /\ Completion(k) \in Buffer
         /\ Completion(k).data = First(net, k) /\ Completion(k).size = k
         /\ First(net, k) \in Stream /\ Rest(net, k) \in Stream
         /\ Cat(First(net, k), Rest(net, k)) = net
         /\ Sound(Completion(k))
         /\ IsEnd(Completion(k)) => peer = "closed" /\ net = <<>>
         /\ k = 0 => Completion(k).data = <<>> /\ Rest(net, k) = net
         /\ net = <<>> => First(net, k) = <<>> /\ Rest(net, k) = <<>>
<1>1. /\ First(net, k) \in Stream /\ Rest(net, k) \in Stream
      /\ Cat(First(net, k), Rest(net, k)) = net
      /\ k = 0 => First(net, k) = <<>> /\ Rest(net, k) = net
      /\ k > 0 /\ net # <<>> => First(net, k) # <<>>
      /\ k >= Len(net) => First(net, k) = net /\ Rest(net, k) = <<>>
  BY Cuts DEF Typed
<1>2. /\ Completion(k).data = First(net, k) /\ Completion(k).size = k
      /\ Completion(k).err = IF peer = "reset" THEN "reset" ELSE "none"
  BY DEF Completion
<1>3. Completion(k) \in Buffer
  BY <1>1 DEF Completion, Buffer, Stream
<1>4. net = <<>> => First(net, k) = <<>> /\ Rest(net, k) = <<>>
  BY <1>1, EmptySeq DEF Typed
<1>5. Sound(Completion(k))
  BY <1>1, <1>2, <1>4 DEF Sound, SoundBuffers
<1>6. IsEnd(Completion(k)) => peer = "closed" /\ net = <<>>
  BY <1>1, <1>2 DEF IsEnd, Typed
<1> QED BY <1>1, <1>2, <1>3, <1>4, <1>5, <1>6

LEMMA NoBufFacts ==
  /\ NoBuf \in Buffer /\ NoBuf.data = <<>> /\ NoBuf.size = 0 /\ NoBuf.err = "none"
  /\ Sound(NoBuf) /\ ~IsEnd(NoBuf)
BY EmptySeq DEF NoBuf, Buffer, Sound, IsEnd


\* What an alert, or an empty queue, says of the parts.
LEMMA AlertIsZero ==
  ASSUME Typed, HasAlert
  PROVE  /\ HasZero
         /\ Len(port) + Len(pending) + One(pc["ct"] # "idle") + One(pc["tcl"] = "merge") >= 1
<1>1. AlertIn(port) => ZeroIn(port) /\ port # <<>>
  BY OfEmpty DEF AlertIn, ZeroIn, IsAlert
<1>2. AlertIn(pending) => ZeroIn(pending) /\ pending # <<>>
  BY OfEmpty DEF AlertIn, ZeroIn, IsAlert
<1> QED BY <1>1, <1>2 DEF HasAlert, HasZero, IsAlert, One, Typed
-----------------------------------------------------------------------------
(* Winsock and the completion thread                                        *)

LEMMA SendKeeps ==
  ASSUME FlowInv, Send
  PROVE  FlowInv'
<1>0. Typed
  BY TypeFacts DEF FlowInv
<1>1. /\ sent' = sent + 1
      /\ net' = Append(net, sent + 1)
      /\ peer = "open"
      /\ sent < MaxSent
      /\ peer' = peer /\ posted' = posted /\ port' = port
      /\ pending' = pending /\ recvs' = recvs /\ mode' = mode /\ cap' = cap
      /\ unreadCap' = unreadCap /\ need' = need /\ eof' = eof
      /\ delivered' = delivered /\ failed' = failed /\ starved' = starved
      /\ call' = call /\ pc'["tcl"] = pc["tcl"] /\ pc'["ct"] = pc["ct"]
      /\ held'["tcl"] = held["tcl"] /\ held'["ct"] = held["ct"]
  BY <1>0 DEF Send, Typed, Threads, Goto, netVars, modeVars, outVars
<1>2. /\ Append(net, sent + 1) \in Stream /\ Append(net, sent + 1) # <<>>
      /\ Append(net, sent + 1) = Cat(net, <<sent + 1>>) /\ <<sent + 1>> \in Stream
  <2>1. net \in Seq(Units) /\ sent + 1 \in Units
    BY <1>0, <1>1 DEF Typed, Stream, Units
  <2>2. <<sent + 1>> \in Seq(Units)
    BY <2>1
  <2> QED BY <2>1, <2>2, AppendFacts, AppendIsConcat DEF Stream, Cat
<1>10. pc' \in [Threads -> At] /\ held' \in [Threads -> Buffer]
  BY <1>0, <1>2 DEF Send, Goto, netVars, modeVars, outVars, Typed, Threads, At
<1>11. TypeOK'
  <2>1. sent' \in 0 .. MaxSent
    BY <1>0, <1>1 DEF Typed
  <2>2. net' \in Seq(Units)
    BY <1>1, <1>2 DEF Stream
  <2> QED BY <1>1, <1>10, <2>1, <2>2 DEF FlowInv, TypeOK
<1>20. Typed'
  BY <1>11, TypeFacts, PTL
<1>12. Counted'
  BY <1>0, <1>1, <1>2 DEF FlowInv, Counted, Ready, One, Typed
<1>13. Places'
  BY <1>0, <1>1, <1>2
     DEF FlowInv, Places, TclPlace, CtPlace, Total, PostPlaces, One, Ready, Typed
<1>14. SoundBuffers'
  BY <1>0, <1>1, <1>2, NoBufFacts DEF FlowInv, SoundBuffers, Both, Typed
<1>15. EndIsLast'
  BY <1>0, <1>1, <1>2, NoBufFacts DEF FlowInv, EndIsLast, Both, Typed
<1>16. ZeroIsAlone'
  BY <1>0, <1>1, <1>2, NoBufFacts
     DEF FlowInv, ZeroIsAlone, AllZero, HasZero, Alone, Total, Ready, One, PostPlaces,
         Places, TclPlace, CtPlace, Both, Typed
<1>17. AlertsAreReady'
  BY <1>0, <1>1, <1>2, NoBufFacts
     DEF FlowInv, AlertsAreReady, HasAlert, Ready, Both, Typed
<1>18. NothingLost'
  <2>1. Pieces = [i \in 1 .. sent |-> i]
    BY <1>0, LostMeansPieces DEF FlowInv, InPieces
  <2>2. Pieces' = Cat(Pieces, <<sent + 1>>)
    <3> DEFINE c == First(call.buf, call.n)
               h == held["tcl"].data
               p == Flat(pending)
               k == held["ct"].data
               q == Flat(port)
    <3>1. Streams(delivered, c, h, p, k, q, net)
      BY <1>0 DEF Streams, Typed
    <3>2. Pieces' = Whole(delivered, c, h, p, k, q, Cat(net, <<sent + 1>>))
      BY <1>1, <1>2 DEF Pieces
    <3>3. Pieces = Whole(delivered, c, h, p, k, q, net)
      BY DEF Pieces
    <3> HIDE DEF c, h, p, k, q
    <3> QED BY <1>2, <3>1, <3>2, <3>3, Longer
  <2>3. Cat([i \in 1 .. sent |-> i], <<sent + 1>>) = [i \in 1 .. sent + 1 |-> i]
    BY <1>0 DEF Typed, Cat
  <2>4. InPieces'
    BY <1>1, <2>1, <2>2, <2>3 DEF InPieces
  <2> QED BY <1>20, <2>4, LostMeansPieces, PTL
<1>19. EofIsLast'
  BY <1>1 DEF FlowInv, EofIsLast
<1> QED BY <1>11, <1>12, <1>13, <1>14, <1>15, <1>16, <1>17, <1>18, <1>19 DEF FlowInv

LEMMA HangupKeeps ==
  ASSUME FlowInv, Hangup
  PROVE  FlowInv'
<1>0. Typed
  BY TypeFacts DEF FlowInv
<1>1. /\ peer = "open"
      /\ peer' \in {"closed", "reset"}
      /\ peer' = "reset" => net = <<>>
      /\ sent' = sent /\ net' = net /\ posted' = posted /\ port' = port
      /\ pending' = pending /\ recvs' = recvs /\ mode' = mode /\ cap' = cap
      /\ unreadCap' = unreadCap /\ need' = need /\ eof' = eof
      /\ delivered' = delivered /\ failed' = failed /\ starved' = starved
      /\ call' = call /\ pc'["tcl"] = pc["tcl"] /\ pc'["ct"] = pc["ct"]
      /\ held'["tcl"] = held["tcl"] /\ held'["ct"] = held["ct"]
  BY <1>0 DEF Hangup, Typed, Threads, Goto, netVars, modeVars, outVars
<1>10. pc' \in [Threads -> At] /\ held' \in [Threads -> Buffer]
  BY <1>0 DEF Hangup, Goto, netVars, modeVars, outVars, Typed, Threads, At
<1>11. TypeOK'
  BY <1>0, <1>1, <1>10 DEF FlowInv, TypeOK, Typed, Stream, Queue
<1>20. Typed'
  BY <1>11, TypeFacts, PTL
<1>12. Counted'
  BY <1>0, <1>1 DEF FlowInv, Counted, Ready, One, Typed
<1>13. Places'
  BY <1>0, <1>1
     DEF FlowInv, Places, TclPlace, CtPlace, Total, PostPlaces, One, Ready, Typed
<1>14. SoundBuffers'
  BY <1>0, <1>1, NoBufFacts DEF FlowInv, SoundBuffers, Typed
<1>15. EndIsLast'
  BY <1>0, <1>1, NoBufFacts DEF FlowInv, EndIsLast, Typed
<1>16. ZeroIsAlone'
  BY <1>0, <1>1, NoBufFacts
     DEF FlowInv, ZeroIsAlone, AllZero, HasZero, Alone, Total, Ready, One, PostPlaces,
         Places, TclPlace, CtPlace, Typed
<1>17. AlertsAreReady'
  BY <1>0, <1>1, NoBufFacts DEF FlowInv, AlertsAreReady, HasAlert, Ready, Typed
<1>18. NothingLost'
  BY <1>1 DEF FlowInv, NothingLost
<1>19. EofIsLast'
  BY <1>1 DEF FlowInv, EofIsLast
<1> QED BY <1>11, <1>12, <1>13, <1>14, <1>15, <1>16, <1>17, <1>18, <1>19 DEF FlowInv

LEMMA CompleteKeeps ==
  ASSUME FlowInv, Complete
  PROVE  FlowInv'
<1>0. Typed
  BY TypeFacts DEF FlowInv
<1>1. /\ net' = Rest(net, Head(posted))
      /\ posted' = Tail(posted)
      /\ port' = Append(port, Completion(Head(posted)))
      /\ posted # <<>>
      /\ net # <<>> \/ peer # "open"
      /\ sent' = sent /\ peer' = peer /\ pending' = pending /\ recvs' = recvs
      /\ mode' = mode /\ cap' = cap /\ unreadCap' = unreadCap /\ need' = need
      /\ eof' = eof /\ delivered' = delivered /\ failed' = failed
      /\ starved' = starved /\ call' = call /\ pc'["tcl"] = pc["tcl"]
      /\ pc'["ct"] = pc["ct"] /\ held'["tcl"] = held["tcl"]
      /\ held'["ct"] = held["ct"]
  BY <1>0 DEF Complete, Typed, Threads, Goto, netVars, modeVars, outVars
<1>2. /\ Tail(posted) \in Seq(Nat) /\ Head(posted) \in Nat
      /\ Len(posted) = Len(Tail(posted)) + 1 /\ Len(Tail(posted)) \in Nat
      /\ ZeroPosted(posted) <=> ZeroPosted(Tail(posted)) \/ Head(posted) = 0
      /\ OnlyZeroPosted(posted) <=> OnlyZeroPosted(Tail(posted)) /\ Head(posted) = 0
  BY <1>0, <1>1, OfPosted DEF Typed
<1>3. PICK b \in Buffer :
        /\ port' = Append(port, b)
        /\ b.data = First(net, Head(posted)) /\ b.size = Head(posted)
        /\ b.data \in Stream /\ net' \in Stream /\ Cat(b.data, net') = net
        /\ Sound(b) /\ (IsEnd(b) => peer = "closed" /\ net = <<>>)
        /\ (Head(posted) = 0 => net' = net)
        /\ (net = <<>> => b.data = <<>> /\ net' = <<>>)
  BY <1>0, <1>1, <1>2, CompletionFacts DEF FlowInv
<1>4. /\ Append(port, b) \in Queue /\ Append(port, b) # <<>>
      /\ Len(Append(port, b)) = Len(port) + 1
      /\ Flat(Append(port, b)) = Cat(Flat(port), b.data)
      /\ Both(port, b, Append(port, b))
      /\ EndsLast(Append(port, b)) <=> EndsLast(port) /\ (HasEnd(port) => b.data = <<>>)
  BY <1>0, <1>3, OfAppend DEF Typed
<1>5. Len(posted') + Len(port') = Len(posted) + Len(port)
  BY <1>0, <1>1, <1>2, <1>3, <1>4 DEF Typed
<1>10. pc' \in [Threads -> At] /\ held' \in [Threads -> Buffer]
  BY <1>0, <1>2, <1>3, <1>4
     DEF Complete, Goto, netVars, modeVars, outVars, Typed, Threads, At
<1>11. TypeOK'
  BY <1>0, <1>1, <1>2, <1>3, <1>4, <1>10 DEF FlowInv, TypeOK, Typed, Stream, Queue
<1>20. Typed'
  BY <1>11, TypeFacts, PTL
<1>12. Counted'
  BY <1>1, <1>5 DEF FlowInv, Counted, Ready
<1>13. Places'
  <2>1. Total' = Total
    BY <1>0, <1>1, <1>5 DEF Total
  <2> QED BY <1>1, <2>1 DEF FlowInv, Places, TclPlace, CtPlace, Ready
<1>14. SoundBuffers'
  BY <1>0, <1>1, <1>2, <1>3, <1>4, NoBufFacts DEF FlowInv, SoundBuffers, Both, Typed
<1>15. EndIsLast'
  BY <1>0, <1>1, <1>2, <1>3, <1>4, NoBufFacts DEF FlowInv, EndIsLast, Both, Typed
<1>16. ZeroIsAlone'
  <2>1. Total' = Total
    BY <1>0, <1>1, <1>5 DEF Total
  <2>2. HasZero' => HasZero
    BY <1>0, <1>1, <1>2, <1>3, <1>4 DEF HasZero, Both
  <2>3. AllZero => AllZero'
    BY <1>0, <1>1, <1>2, <1>3, <1>4 DEF AllZero, Both
  <2> QED BY <1>1, <2>1, <2>2, <2>3 DEF FlowInv, ZeroIsAlone, Alone, Ready
<1>17. AlertsAreReady'
  <2>1. CASE Head(posted) = 0
    BY <1>1, <1>3, <2>1 DEF AlertsAreReady
  <2>2. CASE Head(posted) # 0
    <3>1. ~HasAlert' \/ ~Ready'
      <4> SUFFICES ASSUME HasAlert', Ready'
                   PROVE  FALSE
        OBVIOUS
      <4>1. ~IsAlert(b)
        BY <1>3, <2>2 DEF IsAlert
      <4>2. HasAlert /\ Ready
        BY <1>1, <1>3, <1>4, <4>1 DEF HasAlert, Ready, Both
      <4>3. Total >= 2
        <5> DEFINE m == pc["tcl"] = "merge"
                   p == pc["tcl"] \in PostPlaces \cup {"merge"}
                   c == pc["ct"] # "idle"
        <5>1. /\ Total = Len(posted) + Len(port) + Len(pending) + One(c) + One(p)
              /\ Len(port) + Len(pending) + One(c) + One(m) >= 1
          BY <1>0, <4>2, AlertIsZero DEF Total
        <5>2. /\ Len(posted) \in Nat /\ Len(port) \in Nat /\ Len(pending) \in Nat
              /\ Len(posted) >= 1
          BY <1>0, <1>2 DEF Typed
        <5>3. m => p
          OBVIOUS
        <5> HIDE DEF m, p, c
        <5> QED BY <5>1, <5>2, <5>3 DEF One
      <4>4. Total <= 1
        BY <1>0, <4>2, AlertIsZero DEF FlowInv, ZeroIsAlone, Alone
      <4>5. Total \in Nat
        BY <1>0 DEF Total, One, Typed
      <4> QED BY <4>3, <4>4, <4>5
    <3> QED BY <3>1 DEF AlertsAreReady
  <2> QED BY <2>1, <2>2
<1>18. NothingLost'
  <2>1. Cat(Flat(port'), net') = Cat(Flat(port), net)
    BY <1>0, <1>3, <1>4, Concat DEF Typed
  <2>2. Pieces' = Pieces
    BY <1>1, <1>3, <1>4, <2>1 DEF Pieces, Whole
  <2>3. InPieces
    BY <1>0, LostMeansPieces DEF FlowInv
  <2>4. InPieces'
    BY <1>1, <2>2, <2>3 DEF InPieces
  <2> QED BY <1>20, <2>4, LostMeansPieces, PTL
<1>19. EofIsLast'
  BY <1>0, <1>1, <1>2, <1>3, <1>4 DEF FlowInv, EofIsLast, Typed
<1> QED BY <1>11, <1>12, <1>13, <1>14, <1>15, <1>16, <1>17, <1>18, <1>19 DEF FlowInv

LEMMA NoBufsKeeps ==
  ASSUME FlowInv, NoBufs
  PROVE  FlowInv'
<1>0. Typed
  BY TypeFacts DEF FlowInv
<1>1. /\ posted' = Tail(posted)
      /\ port' = Append(port, [data |-> <<>>, size |-> Head(posted), err |-> "noBufs"])
      /\ posted # <<>>
      /\ peer = "open"
      /\ sent' = sent /\ peer' = peer /\ net' = net /\ pending' = pending
      /\ recvs' = recvs /\ mode' = mode /\ cap' = cap
      /\ unreadCap' = unreadCap /\ need' = need /\ eof' = eof
      /\ delivered' = delivered /\ failed' = failed /\ starved' = starved
      /\ call' = call /\ pc'["tcl"] = pc["tcl"] /\ pc'["ct"] = pc["ct"]
      /\ held'["tcl"] = held["tcl"] /\ held'["ct"] = held["ct"]
  BY <1>0 DEF NoBufs, Typed, Threads, Goto, netVars, modeVars, outVars
<1>2. /\ Tail(posted) \in Seq(Nat) /\ Head(posted) \in Nat
      /\ Len(posted) = Len(Tail(posted)) + 1 /\ Len(Tail(posted)) \in Nat
      /\ ZeroPosted(posted) <=> ZeroPosted(Tail(posted)) \/ Head(posted) = 0
      /\ OnlyZeroPosted(posted) <=> OnlyZeroPosted(Tail(posted)) /\ Head(posted) = 0
  BY <1>0, <1>1, OfPosted DEF Typed
<1>3. PICK b \in Buffer :
        /\ port' = Append(port, b)
        /\ b.data = <<>> /\ b.size = Head(posted) /\ b.err = "noBufs"
        /\ Sound(b) /\ ~IsEnd(b) /\ ~IsAlert(b)
  <2> DEFINE c == [data |-> <<>>, size |-> Head(posted), err |-> "noBufs"]
  <2>1. port' = Append(port, c)
    BY <1>1
  <2>2. c \in Buffer
    BY <1>2, EmptySeq DEF Buffer
  <2>3. c.data = <<>> /\ c.size = Head(posted) /\ c.err = "noBufs"
    OBVIOUS
  <2> HIDE DEF c
  <2> QED BY <1>1, <2>1, <2>2, <2>3 DEF Sound, IsEnd, IsAlert
<1>4. /\ Append(port, b) \in Queue /\ Append(port, b) # <<>>
      /\ Len(Append(port, b)) = Len(port) + 1
      /\ Flat(Append(port, b)) = Cat(Flat(port), b.data)
      /\ Both(port, b, Append(port, b))
      /\ EndsLast(Append(port, b)) <=> EndsLast(port) /\ (HasEnd(port) => b.data = <<>>)
  BY <1>0, <1>3, OfAppend DEF Typed
<1>5. Len(posted') + Len(port') = Len(posted) + Len(port)
  BY <1>0, <1>1, <1>2, <1>3, <1>4 DEF Typed
<1>10. pc' \in [Threads -> At] /\ held' \in [Threads -> Buffer]
  BY <1>0, <1>2, <1>3, <1>4
     DEF NoBufs, Goto, netVars, modeVars, outVars, Typed, Threads, At
<1>11. TypeOK'
  BY <1>0, <1>1, <1>2, <1>3, <1>4, <1>10 DEF FlowInv, TypeOK, Typed, Stream, Queue
<1>20. Typed'
  BY <1>11, TypeFacts, PTL
<1>12. Counted'
  BY <1>1, <1>5 DEF FlowInv, Counted, Ready
<1>13. Places'
  <2>1. Total' = Total
    BY <1>0, <1>1, <1>5 DEF Total
  <2> QED BY <1>1, <2>1 DEF FlowInv, Places, TclPlace, CtPlace, Ready
<1>14. SoundBuffers'
  BY <1>0, <1>1, <1>2, <1>3, <1>4, NoBufFacts DEF FlowInv, SoundBuffers, Both, Typed
<1>15. EndIsLast'
  BY <1>0, <1>1, <1>2, <1>3, <1>4, NoBufFacts DEF FlowInv, EndIsLast, Both, Typed
<1>16. ZeroIsAlone'
  <2>1. Total' = Total
    BY <1>0, <1>1, <1>5 DEF Total
  <2>2. HasZero' => HasZero
    BY <1>0, <1>1, <1>2, <1>3, <1>4 DEF HasZero, Both
  <2>3. AllZero => AllZero'
    BY <1>0, <1>1, <1>2, <1>3, <1>4 DEF AllZero, Both
  <2> QED BY <1>1, <2>1, <2>2, <2>3 DEF FlowInv, ZeroIsAlone, Alone, Ready
<1>17. AlertsAreReady'
  BY <1>0, <1>1, <1>2, <1>3, <1>4, NoBufFacts
     DEF FlowInv, AlertsAreReady, HasAlert, Ready, Both, Typed
<1>18. NothingLost'
  <2>0. Flat(port') = Cat(Flat(port), <<>>) /\ Flat(port) \in Stream
    BY <1>0, <1>3, <1>4 DEF Typed
  <2>1. Cat(Flat(port'), net') = Cat(Flat(port), net)
    BY <1>1, <2>0, Concat
  <2>2. Pieces' = Pieces
    BY <1>1, <1>3, <1>4, <2>1 DEF Pieces, Whole
  <2>3. InPieces
    BY <1>0, LostMeansPieces DEF FlowInv
  <2>4. InPieces'
    BY <1>1, <2>2, <2>3 DEF InPieces
  <2> QED BY <1>20, <2>4, LostMeansPieces, PTL
<1>19. EofIsLast'
  BY <1>0, <1>1, <1>2, <1>3, <1>4 DEF FlowInv, EofIsLast, Typed
<1> QED BY <1>11, <1>12, <1>13, <1>14, <1>15, <1>16, <1>17, <1>18, <1>19 DEF FlowInv

LEMMA TakeKeeps ==
  ASSUME FlowInv, Take
  PROVE  FlowInv'
<1>0. Typed
  BY TypeFacts DEF FlowInv
<1>1. /\ port' = Tail(port)
      /\ recvs' = recvs - 1
      /\ pc'["ct"] = "decide"
      /\ held'["ct"] = Head(port)
      /\ pc["ct"] = "idle"
      /\ port # <<>>
      /\ held["ct"] = NoBuf /\ Ready
      /\ sent' = sent /\ peer' = peer /\ net' = net /\ posted' = posted
      /\ pending' = pending /\ mode' = mode /\ cap' = cap
      /\ unreadCap' = unreadCap /\ need' = need /\ eof' = eof
      /\ delivered' = delivered /\ failed' = failed /\ starved' = starved
      /\ call' = call /\ pc'["tcl"] = pc["tcl"] /\ held'["tcl"] = held["tcl"]
  BY <1>0
     DEF FlowInv, Places, CtPlace, Take, Typed, Threads, Goto, netVars, modeVars, outVars
<1>2. /\ Tail(port) \in Queue /\ Head(port) \in Buffer
      /\ Head(port).data \in Stream /\ Flat(Tail(port)) \in Stream
      /\ Len(port) = Len(Tail(port)) + 1 /\ Len(Tail(port)) \in Nat
      /\ Flat(port) = Cat(Head(port).data, Flat(Tail(port)))
      /\ Both(Tail(port), Head(port), port)
      /\ EndsLast(port) <=>
            EndsLast(Tail(port)) /\ (IsEnd(Head(port)) => NoData(Tail(port)))
  BY <1>0, <1>1, OfTail DEF Typed
<1>10. pc' \in [Threads -> At] /\ held' \in [Threads -> Buffer]
  BY <1>0, <1>2 DEF Take, Goto, netVars, modeVars, outVars, Typed, Threads, At
<1>11. TypeOK'
  <2>1. recvs - 1 \in Nat
    BY <1>0, <1>1, <1>2 DEF FlowInv, Counted, One, Typed
  <2> QED BY <1>0, <1>1, <1>2, <1>10, <2>1 DEF FlowInv, TypeOK, Typed, Stream, Queue
<1>20. Typed'
  BY <1>11, TypeFacts, PTL
<1>12. Counted'
  BY <1>0, <1>1, <1>2 DEF FlowInv, Counted, Ready, One, Typed
<1>13. Places'
  BY <1>0, <1>1, <1>2
     DEF FlowInv, Places, TclPlace, CtPlace, Total, PostPlaces, One, Ready, Typed
<1>14. SoundBuffers'
  BY <1>0, <1>1, <1>2, NoBufFacts DEF FlowInv, SoundBuffers, Both, Typed
<1>15. EndIsLast'
  BY <1>0, <1>1, <1>2, NoBufFacts DEF FlowInv, EndIsLast, Both, Typed
<1>16. ZeroIsAlone'
  BY <1>0, <1>1, <1>2, NoBufFacts
     DEF FlowInv, ZeroIsAlone, AllZero, HasZero, Alone, Total, Ready, One, PostPlaces,
         Places, TclPlace, CtPlace, Both, Typed
<1>17. AlertsAreReady'
  BY <1>0, <1>1, <1>2, NoBufFacts
     DEF FlowInv, AlertsAreReady, HasAlert, Ready, Both, Typed
<1>18. NothingLost'
  <2>0. /\ net \in Stream /\ Head(port).data \in Stream /\ Flat(Tail(port)) \in Stream
        /\ Cat(Flat(Tail(port)), net) \in Stream /\ held["ct"].data = <<>>
    BY <1>0, <1>1, <1>2, NoBufFacts, Concat DEF Typed
  <2>1. Cat(held'["ct"].data, Cat(Flat(port'), net))
          = Cat(held["ct"].data, Cat(Flat(port), net))
    <3>1. Cat(<<>>, Cat(Flat(port), net)) = Cat(Flat(port), net)
      BY <1>0, Concat DEF Typed
    <3>2. Cat(Cat(Head(port).data, Flat(Tail(port))), net)
            = Cat(Head(port).data, Cat(Flat(Tail(port)), net))
      BY <2>0, Concat
    <3> QED BY <1>1, <1>2, <2>0, <3>1, <3>2
  <2>2. Pieces' = Pieces
    BY <1>1, <1>2, NoBufFacts, <2>1 DEF Pieces, Whole
  <2>3. InPieces
    BY <1>0, LostMeansPieces DEF FlowInv
  <2>4. InPieces'
    BY <1>1, <2>2, <2>3 DEF InPieces
  <2> QED BY <1>20, <2>4, LostMeansPieces, PTL
<1>19. EofIsLast'
  BY <1>0, <1>1, <1>2 DEF FlowInv, EofIsLast, Typed
<1> QED BY <1>11, <1>12, <1>13, <1>14, <1>15, <1>16, <1>17, <1>18, <1>19 DEF FlowInv

LEMMA PushKeeps ==
  ASSUME FlowInv, Push
  PROVE  FlowInv'
<1>0. Typed
  BY TypeFacts DEF FlowInv
<1>1. /\ pending' = Append(pending, held["ct"])
      /\ pc'["ct"] = "idle"
      /\ held'["ct"] = NoBuf
      /\ pc["ct"] = "push"
      /\ sent' = sent /\ peer' = peer /\ net' = net /\ posted' = posted
      /\ port' = port /\ recvs' = recvs /\ mode' = mode /\ cap' = cap
      /\ unreadCap' = unreadCap /\ need' = need /\ eof' = eof
      /\ delivered' = delivered /\ failed' = failed /\ starved' = starved
      /\ call' = call /\ pc'["tcl"] = pc["tcl"] /\ held'["tcl"] = held["tcl"]
  BY <1>0 DEF Push, Typed, Threads, Goto, netVars, modeVars, outVars
<1>2. /\ Append(pending, held["ct"]) \in Queue /\ Append(pending, held["ct"]) # <<>>
      /\ Len(Append(pending, held["ct"])) = Len(pending) + 1
      /\ Flat(Append(pending, held["ct"])) = Cat(Flat(pending), held["ct"].data)
      /\ Both(pending, held["ct"], Append(pending, held["ct"]))
      /\ EndsLast(Append(pending, held["ct"])) <=>
            EndsLast(pending) /\ (HasEnd(pending) => held["ct"].data = <<>>)
  BY <1>0, <1>1, OfAppend DEF Typed
<1>10. pc' \in [Threads -> At] /\ held' \in [Threads -> Buffer]
  BY <1>0, NoBufFacts DEF Push, Goto, netVars, modeVars, outVars, Typed, Threads, At
<1>11. TypeOK'
  BY <1>0, <1>1, <1>2, <1>10 DEF FlowInv, TypeOK, Typed, Stream, Queue
<1>20. Typed'
  BY <1>11, TypeFacts, PTL
<1>12. Counted'
  BY <1>0, <1>1, <1>2 DEF FlowInv, Counted, Ready, One, Typed
<1>13. Places'
  BY <1>0, <1>1, <1>2
     DEF FlowInv, Places, TclPlace, CtPlace, Total, PostPlaces, One, Ready, Typed
<1>14. SoundBuffers'
  BY <1>0, <1>1, <1>2, NoBufFacts DEF FlowInv, SoundBuffers, Both, Typed
<1>15. EndIsLast'
  BY <1>0, <1>1, <1>2, NoBufFacts DEF FlowInv, EndIsLast, Both, Typed
<1>16. ZeroIsAlone'
  BY <1>0, <1>1, <1>2, NoBufFacts
     DEF FlowInv, ZeroIsAlone, AllZero, HasZero, Alone, Total, Ready, One, PostPlaces,
         Places, TclPlace, CtPlace, Both, Typed
<1>17. AlertsAreReady'
  BY <1>0, <1>1, <1>2, NoBufFacts
     DEF FlowInv, AlertsAreReady, HasAlert, Ready, Both, Typed
<1>18. NothingLost'
  <2> DEFINE t == Cat(Flat(port), net)
             k == held["ct"].data
             p == Flat(pending)
  <2>0. t \in Stream /\ k \in Stream /\ p \in Stream
    BY <1>0, Concat DEF Typed
  <2>1. Cat(Flat(pending'), Cat(held'["ct"].data, t))
          = Cat(Flat(pending), Cat(held["ct"].data, t))
    <3>1. Flat(pending') = Cat(p, k) /\ held'["ct"].data = <<>>
      BY <1>1, <1>2, NoBufFacts
    <3>2. Cat(Cat(p, k), Cat(<<>>, t)) = Cat(p, Cat(k, t))
      <4> HIDE DEF p, k, t
      <4> QED BY <2>0, Concat
    <3> QED BY <3>1, <3>2
  <2>2. Pieces' = Pieces
    BY <1>1, <1>2, NoBufFacts, <2>1 DEF Pieces, Whole
  <2>3. InPieces
    BY <1>0, LostMeansPieces DEF FlowInv
  <2>4. InPieces'
    BY <1>1, <2>2, <2>3 DEF InPieces
  <2> QED BY <1>20, <2>4, LostMeansPieces, PTL
<1>19. EofIsLast'
  BY <1>0, <1>1, <1>2 DEF FlowInv, EofIsLast, Typed
<1> QED BY <1>11, <1>12, <1>13, <1>14, <1>15, <1>16, <1>17, <1>18, <1>19 DEF FlowInv
-----------------------------------------------------------------------------
(* HandleIo, and the receives the completion thread posts                   *)

LEMMA DecideOnKeeps ==
  ASSUME FlowInv, pc'["ct"] # "idle", Decide
  PROVE  FlowInv'
<1>0. Typed
  BY TypeFacts DEF FlowInv
<1>1. /\ pc["ct"] = "decide" /\ need' \in BOOLEAN
      /\ pc'["ct"] \in {"count", "push"}
      /\ pc'["ct"] = "count" => held["ct"].data # <<>>
      /\ sent' = sent /\ peer' = peer /\ net' = net /\ posted' = posted
      /\ port' = port /\ pending' = pending /\ recvs' = recvs /\ mode' = mode
      /\ cap' = cap /\ unreadCap' = unreadCap /\ eof' = eof
      /\ delivered' = delivered /\ failed' = failed /\ starved' = starved
      /\ call' = call /\ pc'["tcl"] = pc["tcl"] /\ held'["tcl"] = held["tcl"]
      /\ held'["ct"] = held["ct"]
  BY <1>0 DEF FlowInv, TypeOK, Decide, Typed, Threads, Goto, netVars, modeVars, outVars
<1>10. pc' \in [Threads -> At] /\ held' \in [Threads -> Buffer]
  BY <1>0 DEF Decide, Goto, netVars, modeVars, outVars, Typed, Threads, At
<1>11. TypeOK'
  BY <1>0, <1>1, <1>10 DEF FlowInv, TypeOK, Typed, Stream, Queue
<1>20. Typed'
  BY <1>11, TypeFacts, PTL
<1>12. Counted'
  BY <1>0, <1>1 DEF FlowInv, Counted, Ready, One, Typed
<1>13. Places'
  BY <1>0, <1>1
     DEF FlowInv, Places, TclPlace, CtPlace, Total, PostPlaces, One, Ready, Typed
<1>14. SoundBuffers'
  BY <1>0, <1>1, NoBufFacts DEF FlowInv, SoundBuffers, Typed
<1>15. EndIsLast'
  BY <1>0, <1>1, NoBufFacts DEF FlowInv, EndIsLast, Typed
<1>16. ZeroIsAlone'
  BY <1>0, <1>1, NoBufFacts
     DEF FlowInv, ZeroIsAlone, AllZero, HasZero, Alone, Total, Ready, One, PostPlaces,
         Places, TclPlace, CtPlace, Typed
<1>17. AlertsAreReady'
  BY <1>0, <1>1, NoBufFacts DEF FlowInv, AlertsAreReady, HasAlert, Ready, Typed
<1>18. NothingLost'
  BY <1>1 DEF FlowInv, NothingLost
<1>19. EofIsLast'
  BY <1>1 DEF FlowInv, EofIsLast
<1> QED BY <1>11, <1>12, <1>13, <1>14, <1>15, <1>16, <1>17, <1>18, <1>19 DEF FlowInv

LEMMA DecideDropKeeps ==
  ASSUME FlowInv, pc'["ct"] = "idle", Decide
  PROVE  FlowInv'
<1>0. Typed
  BY TypeFacts DEF FlowInv
<1>1. /\ cap' = cap - 1
      /\ starved' = TRUE
      /\ pc'["ct"] = "idle"
      /\ held'["ct"] = NoBuf
      /\ pc["ct"] = "decide" /\ held["ct"].data = <<>> /\ held["ct"].data = NoBuf.data
      /\ sent' = sent /\ peer' = peer /\ net' = net /\ posted' = posted
      /\ port' = port /\ pending' = pending /\ recvs' = recvs /\ mode' = mode
      /\ unreadCap' = unreadCap /\ need' = need /\ eof' = eof
      /\ delivered' = delivered /\ failed' = failed /\ call' = call
      /\ pc'["tcl"] = pc["tcl"] /\ held'["tcl"] = held["tcl"]
  BY <1>0, NoBufFacts
     DEF FlowInv, SoundBuffers, Sound, Decide, Typed, Threads, Goto, netVars, modeVars,
         outVars
<1>10. pc' \in [Threads -> At] /\ held' \in [Threads -> Buffer]
  BY <1>0, NoBufFacts DEF Decide, Goto, netVars, modeVars, outVars, Typed, Threads, At
<1>11. TypeOK'
  BY <1>0, <1>1, <1>10 DEF FlowInv, TypeOK, Typed, Stream, Queue
<1>20. Typed'
  BY <1>11, TypeFacts, PTL
<1>12. Counted'
  BY <1>0, <1>1 DEF FlowInv, Counted, Ready, One, Typed
<1>13. Places'
  BY <1>0, <1>1
     DEF FlowInv, Places, TclPlace, CtPlace, Total, PostPlaces, One, Ready, Typed
<1>14. SoundBuffers'
  BY <1>0, <1>1, NoBufFacts DEF FlowInv, SoundBuffers, Typed
<1>15. EndIsLast'
  BY <1>0, <1>1, NoBufFacts DEF FlowInv, EndIsLast, Typed
<1>16. ZeroIsAlone'
  BY <1>0, <1>1, NoBufFacts
     DEF FlowInv, ZeroIsAlone, AllZero, HasZero, Alone, Total, Ready, One, PostPlaces,
         Places, TclPlace, CtPlace, Typed
<1>17. AlertsAreReady'
  BY <1>0, <1>1, NoBufFacts DEF FlowInv, AlertsAreReady, HasAlert, Ready, Typed
<1>18. NothingLost'
  BY <1>1 DEF FlowInv, NothingLost
<1>19. EofIsLast'
  BY <1>1 DEF FlowInv, EofIsLast
<1> QED BY <1>11, <1>12, <1>13, <1>14, <1>15, <1>16, <1>17, <1>18, <1>19 DEF FlowInv

LEMMA DecideKeeps == ASSUME FlowInv, Decide PROVE FlowInv'
BY DecideOnKeeps, DecideDropKeeps

LEMMA PostCountCtKeeps ==
  ASSUME FlowInv, PostCount("ct")
  PROVE  FlowInv'
<1>0. Typed
  BY TypeFacts DEF FlowInv
<1>1. /\ pc["ct"] = "count"
      /\ \/ pc'["ct"] = "push" /\ recvs' = recvs
         \/ pc'["ct"] \in {"back", "call"} /\ recvs' = recvs + 1
      /\ sent' = sent /\ peer' = peer /\ net' = net /\ posted' = posted
      /\ port' = port /\ pending' = pending /\ mode' = mode /\ cap' = cap
      /\ unreadCap' = unreadCap /\ need' = need /\ eof' = eof
      /\ delivered' = delivered /\ failed' = failed /\ starved' = starved
      /\ call' = call /\ pc'["tcl"] = pc["tcl"] /\ held'["tcl"] = held["tcl"]
      /\ held'["ct"] = held["ct"]
  BY <1>0 DEF PostCount, Return, Hand, Typed, Threads, Goto, netVars, modeVars, outVars
<1>10. pc' \in [Threads -> At] /\ held' \in [Threads -> Buffer]
  BY <1>0
     DEF PostCount, Return, Hand, Goto, netVars, modeVars, outVars, Typed, Threads, At
<1>11. TypeOK'
  <2>1. recvs' \in Nat
    BY <1>0, <1>1 DEF Typed
  <2> QED BY <1>1, <1>10, <2>1 DEF FlowInv, TypeOK
<1>20. Typed'
  BY <1>11, TypeFacts, PTL
<1>12. Counted'
  BY <1>0, <1>1 DEF FlowInv, Counted, Ready, One, Typed
<1>13. Places'
  BY <1>0, <1>1
     DEF FlowInv, Places, TclPlace, CtPlace, Total, PostPlaces, One, Ready, Typed
<1>14. SoundBuffers'
  BY <1>0, <1>1, NoBufFacts DEF FlowInv, SoundBuffers, Typed
<1>15. EndIsLast'
  BY <1>0, <1>1, NoBufFacts DEF FlowInv, EndIsLast, Typed
<1>16. ZeroIsAlone'
  BY <1>0, <1>1, NoBufFacts
     DEF FlowInv, ZeroIsAlone, AllZero, HasZero, Alone, Total, Ready, One, PostPlaces,
         Places, TclPlace, CtPlace, Typed
<1>17. AlertsAreReady'
  BY <1>0, <1>1, NoBufFacts DEF FlowInv, AlertsAreReady, HasAlert, Ready, Typed
<1>18. NothingLost'
  BY <1>1 DEF FlowInv, NothingLost
<1>19. EofIsLast'
  BY <1>1 DEF FlowInv, EofIsLast
<1> QED BY <1>11, <1>12, <1>13, <1>14, <1>15, <1>16, <1>17, <1>18, <1>19 DEF FlowInv

LEMMA PostBackCtKeeps ==
  ASSUME FlowInv, PostBack("ct")
  PROVE  FlowInv'
<1>0. Typed
  BY TypeFacts DEF FlowInv
<1>1. /\ recvs' = recvs - 1
      /\ pc'["ct"] = "push"
      /\ pc["ct"] = "back"
      /\ sent' = sent /\ peer' = peer /\ net' = net /\ posted' = posted
      /\ port' = port /\ pending' = pending /\ mode' = mode /\ cap' = cap
      /\ unreadCap' = unreadCap /\ need' = need /\ eof' = eof
      /\ delivered' = delivered /\ failed' = failed /\ starved' = starved
      /\ call' = call /\ pc'["tcl"] = pc["tcl"] /\ held'["tcl"] = held["tcl"]
      /\ held'["ct"] = held["ct"]
  BY <1>0 DEF PostBack, Return, Hand, Typed, Threads, Goto, netVars, modeVars, outVars
<1>10. pc' \in [Threads -> At] /\ held' \in [Threads -> Buffer]
  BY <1>0 DEF PostBack, Return, Hand, Goto, netVars, modeVars, outVars, Typed, Threads, At
<1>11. TypeOK'
  <2>1. recvs - 1 \in Nat
    BY <1>0, <1>1 DEF FlowInv, Counted, Ready, Places, One, Typed
  <2> QED BY <1>0, <1>1, <1>10, <2>1 DEF FlowInv, TypeOK, Typed, Stream, Queue
<1>20. Typed'
  BY <1>11, TypeFacts, PTL
<1>12. Counted'
  BY <1>0, <1>1 DEF FlowInv, Counted, Ready, One, Typed
<1>13. Places'
  BY <1>0, <1>1
     DEF FlowInv, Places, TclPlace, CtPlace, Total, PostPlaces, One, Ready, Typed
<1>14. SoundBuffers'
  BY <1>0, <1>1, NoBufFacts DEF FlowInv, SoundBuffers, Typed
<1>15. EndIsLast'
  BY <1>0, <1>1, NoBufFacts DEF FlowInv, EndIsLast, Typed
<1>16. ZeroIsAlone'
  BY <1>0, <1>1, NoBufFacts
     DEF FlowInv, ZeroIsAlone, AllZero, HasZero, Alone, Total, Ready, One, PostPlaces,
         Places, TclPlace, CtPlace, Typed
<1>17. AlertsAreReady'
  BY <1>0, <1>1, NoBufFacts DEF FlowInv, AlertsAreReady, HasAlert, Ready, Typed
<1>18. NothingLost'
  BY <1>1 DEF FlowInv, NothingLost
<1>19. EofIsLast'
  BY <1>1 DEF FlowInv, EofIsLast
<1> QED BY <1>11, <1>12, <1>13, <1>14, <1>15, <1>16, <1>17, <1>18, <1>19 DEF FlowInv

\* A receive that completes at once, or waits.
LEMMA Posts ==
  ASSUME FlowInv, NEW k \in Nat,
         IF posted = <<>> /\ (net # <<>> \/ peer # "open")
           THEN /\ port' = Append(port, Completion(k))
                /\ net' = Rest(net, k)
                /\ UNCHANGED posted
           ELSE /\ posted' = Append(posted, k)
                /\ UNCHANGED <<port, net>>
  PROVE  /\ posted' \in Seq(Nat) /\ port' \in Queue /\ net' \in Stream
         /\ Flat(port') \in Stream
         /\ Len(posted') \in Nat /\ Len(port') \in Nat
         /\ Len(posted') + Len(port') = Len(posted) + Len(port) + 1
         /\ Cat(Flat(port'), net') = Cat(Flat(port), net)
         /\ ZeroPosted(posted') \/ ZeroIn(port') => ZeroPosted(posted) \/ ZeroIn(port) \/ k = 0
         /\ AlertIn(port') => AlertIn(port) \/ (k = 0 /\ (net # <<>> \/ peer # "open"))
         /\ OnlyZeroPosted(posted) /\ OnlyZero(port) /\ k = 0 =>
              OnlyZeroPosted(posted') /\ OnlyZero(port')
         /\ k = 0 => net' = net
         /\ net = <<>> => net' = <<>>
         /\ AllSound(port) => AllSound(port')
         /\ HasEnd(port') => HasEnd(port) \/ (peer = "closed" /\ net = <<>>)
         /\ EndsLast(port) /\ (HasEnd(port) => net = <<>>) => EndsLast(port')
         /\ NoData(port) /\ net = <<>> => NoData(port')
<1>0. Typed
  BY TypeFacts DEF FlowInv
<1>1. CASE posted = <<>> /\ (net # <<>> \/ peer # "open")
  <2>1. PICK b \in Buffer :
          /\ port' = Append(port, b) /\ posted' = posted
          /\ b.size = k /\ b.data \in Stream /\ net' \in Stream /\ Cat(b.data, net') = net
          /\ Sound(b) /\ (IsEnd(b) => peer = "closed" /\ net = <<>>)
          /\ (k = 0 => net' = net)
          /\ (net = <<>> => b.data = <<>> /\ net' = <<>>)
    BY <1>0, <1>1, CompletionFacts DEF FlowInv
  <2>2. /\ Append(port, b) \in Queue
        /\ Len(Append(port, b)) = Len(port) + 1
        /\ Flat(Append(port, b)) = Cat(Flat(port), b.data)
        /\ Both(port, b, Append(port, b))
        /\ EndsLast(Append(port, b)) <=> EndsLast(port) /\ (HasEnd(port) => b.data = <<>>)
    BY <1>0, OfAppend DEF Typed
  <2>3. Flat(port) \in Stream /\ Cat(Flat(port), b.data) \in Stream
    BY <1>0, <2>1, Concat DEF Typed
  <2>4. Cat(Cat(Flat(port), b.data), net') = Cat(Flat(port), net)
    BY <2>1, <2>3, Concat
  <2>5. Len(posted) \in Nat /\ Len(port) \in Nat /\ posted \in Seq(Nat)
    BY <1>0 DEF Typed
  <2> QED BY <1>1, <2>1, <2>2, <2>3, <2>4, <2>5 DEF Both, IsAlert
<1>2. CASE ~(posted = <<>> /\ (net # <<>> \/ peer # "open"))
  <2>1. posted' = Append(posted, k) /\ port' = port /\ net' = net
    BY <1>2
  <2>2. /\ Append(posted, k) \in Seq(Nat)
        /\ Len(Append(posted, k)) = Len(posted) + 1
        /\ ZeroPosted(Append(posted, k)) <=> ZeroPosted(posted) \/ k = 0
        /\ OnlyZeroPosted(Append(posted, k)) <=> OnlyZeroPosted(posted) /\ k = 0
    BY <1>0, OfPosted DEF Typed
  <2>3. /\ Len(posted) \in Nat /\ Len(port) \in Nat /\ port \in Queue /\ net \in Stream
        /\ Flat(port) \in Stream
    BY <1>0 DEF Typed
  <2> QED BY <2>1, <2>2, <2>3
<1> QED BY <1>1, <1>2

\* A thread that is about to post is alone with a zero-byte receive only if the
\* Tcl thread posts it.
LEMMA NoZeroElsewhere ==
  ASSUME FlowInv, Ready, pc["ct"] \in PostPlaces \/ (pc["tcl"] \in PostPlaces)
  PROVE  ~HasZero /\ ~HasAlert /\ (pc["ct"] \in PostPlaces => mode # "zero")
<1>0. Typed
  BY TypeFacts DEF FlowInv
<1>1. Total <= 1 => ~HasZero
  <2> SUFFICES ASSUME Total <= 1, HasZero PROVE FALSE
    OBVIOUS
  <2>1. ZeroPosted(posted) => posted # <<>>
    BY OfEmpty
  <2>2. ZeroIn(port) => port # <<>>
    BY OfEmpty
  <2>3. ZeroIn(pending) => pending # <<>>
    BY OfEmpty
  <2>4. pc["ct"] \in PostPlaces => held["ct"].size # 0
    BY <1>0 DEF FlowInv, Places, CtPlace, SoundBuffers, Sound, Typed
  <2> QED BY <1>0, <2>1, <2>2, <2>3, <2>4 DEF HasZero, Total, One, PostPlaces, Typed
<1>2. ~HasZero
  BY <1>1 DEF FlowInv, ZeroIsAlone, Alone
<1>3. pc["ct"] \in PostPlaces => mode # "zero"
  BY <1>0 DEF FlowInv, Places, CtPlace, SoundBuffers, Sound, ZeroIsAlone, AllZero, Typed
<1> QED BY <1>0, <1>2, <1>3, AlertIsZero

LEMMA PostCallCtKeeps ==
  ASSUME FlowInv, PostCall("ct")
  PROVE  FlowInv'
<1>0. Typed
  BY TypeFacts DEF FlowInv
<1>1. /\ pc["ct"] = "call" /\ pc'["ct"] \in {"count", "push"} /\ Ready
      /\ IF posted = <<>> /\ (net # <<>> \/ peer # "open")
           THEN /\ port' = Append(port, Completion(BufSize))
                /\ net' = Rest(net, BufSize)
                /\ UNCHANGED posted
           ELSE /\ posted' = Append(posted, BufSize)
                /\ UNCHANGED <<port, net>>
      /\ sent' = sent /\ peer' = peer /\ pending' = pending /\ recvs' = recvs
      /\ mode' = mode /\ cap' = cap /\ unreadCap' = unreadCap /\ need' = need
      /\ eof' = eof /\ delivered' = delivered /\ failed' = failed
      /\ starved' = starved /\ call' = call /\ pc'["tcl"] = pc["tcl"]
      /\ held'["tcl"] = held["tcl"] /\ held'["ct"] = held["ct"]
  BY <1>0
     DEF FlowInv, Places, Ready, PostCall, Return, Hand, SizeFor, Burst, Typed, Threads,
         Goto, netVars, modeVars, outVars
<1>2. /\ posted' \in Seq(Nat) /\ port' \in Queue /\ net' \in Stream
      /\ Flat(port') \in Stream
      /\ Len(posted') \in Nat /\ Len(port') \in Nat
      /\ Len(posted') + Len(port') = Len(posted) + Len(port) + 1
      /\ Cat(Flat(port'), net') = Cat(Flat(port), net)
      /\ ZeroPosted(posted') \/ ZeroIn(port') => ZeroPosted(posted) \/ ZeroIn(port) \/ BufSize = 0
      /\ AlertIn(port') => AlertIn(port) \/ (BufSize = 0 /\ (net # <<>> \/ peer # "open"))
      /\ OnlyZeroPosted(posted) /\ OnlyZero(port) /\ BufSize = 0 =>
           OnlyZeroPosted(posted') /\ OnlyZero(port')
      /\ BufSize = 0 => net' = net
      /\ net = <<>> => net' = <<>>
      /\ AllSound(port) => AllSound(port')
      /\ HasEnd(port') => HasEnd(port) \/ (peer = "closed" /\ net = <<>>)
      /\ EndsLast(port) /\ (HasEnd(port) => net = <<>>) => EndsLast(port')
      /\ NoData(port) /\ net = <<>> => NoData(port')
  <2>1. BufSize \in Nat
    BY <1>0 DEF Typed
  <2> QED BY <1>1, <2>1, Posts
<1>3. ~HasZero /\ ~HasAlert /\ mode # "zero" /\ BufSize # 0
  BY <1>0, <1>1, NoZeroElsewhere DEF PostPlaces, Typed
<1>10. pc' \in [Threads -> At] /\ held' \in [Threads -> Buffer]
  BY <1>0, <1>2
     DEF PostCall, Return, Hand, SizeFor, Burst, Goto, netVars, modeVars, outVars, Typed,
         Threads, At
<1>11. TypeOK'
  BY <1>0, <1>1, <1>2, <1>10 DEF FlowInv, TypeOK, Typed, Stream, Queue
<1>20. Typed'
  BY <1>11, TypeFacts, PTL
<1>12. Counted'
  <2>1. recvs = Len(posted) + Len(port) + 1 + One(pc["tcl"] \in {"call", "back"})
    BY <1>0, <1>1 DEF FlowInv, Counted, One, Typed
  <2>2. /\ Len(posted) \in Nat /\ Len(port) \in Nat /\ Len(posted') \in Nat
        /\ Len(port') \in Nat /\ recvs' = recvs /\ pc'["tcl"] = pc["tcl"]
        /\ Len(posted') + Len(port') = Len(posted) + Len(port) + 1
        /\ pc'["ct"] \notin {"call", "back"}
    BY <1>0, <1>1, <1>2 DEF Typed
  <2> QED BY <2>1, <2>2 DEF Counted, One
<1>13. Places'
  <2>1. Total' = Total + 1 /\ Total >= 1 /\ Total \in Nat
    <3>1. /\ Len(posted) \in Nat /\ Len(port) \in Nat /\ Len(posted') \in Nat
          /\ Len(port') \in Nat /\ Len(pending) \in Nat /\ pending' = pending
          /\ Len(posted') + Len(port') = Len(posted) + Len(port) + 1
          /\ pc'["ct"] # "idle" /\ pc["ct"] # "idle" /\ pc'["tcl"] = pc["tcl"]
      BY <1>0, <1>1, <1>2 DEF Typed
    <3> QED BY <3>1 DEF Total, One
  <2> QED BY <1>0, <1>1, <2>1
      DEF FlowInv, Places, TclPlace, CtPlace, Ready, PostPlaces, Typed
<1>14. SoundBuffers'
  BY <1>0, <1>1, <1>2, NoBufFacts DEF FlowInv, SoundBuffers, Both, Typed
<1>15. EndIsLast'
  BY <1>0, <1>1, <1>2, NoBufFacts DEF FlowInv, EndIsLast, Both, Typed
<1>16. ZeroIsAlone'
  <2>1. ~HasZero'
    BY <1>1, <1>2, <1>3 DEF HasZero
  <2> QED BY <1>1, <1>3, <2>1 DEF ZeroIsAlone
<1>17. AlertsAreReady'
  <2>1. ~HasAlert'
    BY <1>1, <1>2, <1>3 DEF HasAlert
  <2> QED BY <2>1 DEF AlertsAreReady
<1>18. NothingLost'
  <2>1. Cat(Flat(port'), net') = Cat(Flat(port), net)
    BY <1>0, <1>2, Concat DEF Typed
  <2>2. Pieces' = Pieces
    BY <1>1, <1>2, <2>1 DEF Pieces, Whole
  <2>3. InPieces
    BY <1>0, LostMeansPieces DEF FlowInv
  <2>4. InPieces'
    BY <1>1, <2>2, <2>3 DEF InPieces
  <2> QED BY <1>20, <2>4, LostMeansPieces, PTL
<1>19. EofIsLast'
  BY <1>0, <1>1, <1>2 DEF FlowInv, EofIsLast, Typed
<1> QED BY <1>11, <1>12, <1>13, <1>14, <1>15, <1>16, <1>17, <1>18, <1>19 DEF FlowInv
-----------------------------------------------------------------------------
(* IocpInputProc                                                            *)

CallType == [want : Nat, buf : Seq(Units), off : Nat, n : Nat, async : BOOLEAN, burst : BOOLEAN]

LEMMA CallFacts ==
  /\ NoCall \in CallType /\ NoCall.n = 0 /\ NoCall.buf = <<>> /\ NoCall.off = 0
  /\ First(NoCall.buf, NoCall.n) = <<>>
  /\ \A c \in CallType :
       /\ c.want \in Nat /\ c.buf \in Stream /\ c.off \in Nat /\ c.n \in Nat
       /\ c.async \in BOOLEAN /\ c.burst \in BOOLEAN /\ Len(c.buf) \in Nat
       /\ c.n = 0 => First(c.buf, c.n) = <<>>
       /\ Len(c.buf) <= c.n => First(c.buf, c.n) = c.buf
       /\ Len(c.buf) = 0 => c.buf = <<>>
<1>1. <<>> \in Seq(Units) /\ <<>> \in Stream /\ 0 \in Nat
  BY EmptySeq DEF Stream
<1>2. NoCall \in CallType /\ NoCall.n = 0 /\ NoCall.buf = <<>> /\ NoCall.off = 0
  BY <1>1 DEF NoCall, CallType
<1>3. First(NoCall.buf, NoCall.n) = <<>>
  BY <1>1, <1>2, Cuts
<1>4. ASSUME NEW c \in CallType
      PROVE  /\ c.want \in Nat /\ c.buf \in Stream /\ c.off \in Nat /\ c.n \in Nat
             /\ c.async \in BOOLEAN /\ c.burst \in BOOLEAN /\ Len(c.buf) \in Nat
             /\ c.n = 0 => First(c.buf, c.n) = <<>>
             /\ Len(c.buf) <= c.n => First(c.buf, c.n) = c.buf
             /\ Len(c.buf) = 0 => c.buf = <<>>
  <2>1. /\ c.want \in Nat /\ c.buf \in Seq(Units) /\ c.off \in Nat /\ c.n \in Nat
        /\ c.async \in BOOLEAN /\ c.burst \in BOOLEAN
    BY DEF CallType
  <2>2. Len(c.buf) \in Nat /\ (Len(c.buf) = 0 => c.buf = <<>>)
    BY <2>1, LenProperties, EmptySeq
  <2>3. c.buf \in Stream
    BY <2>1 DEF Stream
  <2> QED BY <2>1, <2>2, <2>3, Cuts
<1> QED BY <1>2, <1>3, <1>4

\* The call, when the Tcl thread has a buffer in its hands.
LEMMA InMerge ==
  ASSUME FlowInv, pc["tcl"] = "merge"
  PROVE  /\ Typed /\ call \in CallType /\ call.want \in Nat /\ call.n \in Nat
         /\ call.want > 0 /\ call.n <= call.want /\ call.off = call.n
         /\ call.buf \in Stream /\ Len(call.buf) = call.n
         /\ First(call.buf, call.off) = call.buf /\ First(call.buf, call.n) = call.buf
         /\ Ready
         /\ held["tcl"].size # 0 => ~HasZero /\ mode # "zero"
         /\ held["tcl"].size = 0 =>
              /\ posted = <<>> /\ port = <<>> /\ pending = <<>> /\ pc["ct"] = "idle"
              /\ held["ct"] = NoBuf /\ Total = 1 /\ Alone
              /\ call.n = 0 /\ call.buf = <<>> /\ held["tcl"].data = <<>>
<1>0. Typed
  BY TypeFacts DEF FlowInv
<1>1. Ready /\ TclPlace /\ CtPlace
  BY DEF FlowInv, Places, Ready
<1>2. /\ call \in CallType /\ call.want \in Nat /\ call.n \in Nat /\ call.off = call.n
      /\ call.want > 0 /\ call.n <= call.want /\ Len(call.buf) = call.n
      /\ call.buf \in Stream
  <2>1. call \in CallType
    BY <1>0 DEF Typed, CallType
  <2> QED BY <1>1, <2>1, CallFacts DEF TclPlace
<1>3. First(call.buf, call.off) = call.buf /\ First(call.buf, call.n) = call.buf
  BY <1>2, CallFacts
<1>4. Total <= 1 =>
        /\ posted = <<>> /\ port = <<>> /\ pending = <<>> /\ pc["ct"] = "idle" /\ Total = 1
  BY <1>0 DEF Total, One, Typed
<1>5. ASSUME Alone
      PROVE  /\ posted = <<>> /\ port = <<>> /\ pending = <<>> /\ pc["ct"] = "idle"
             /\ Total = 1 /\ call.n = 0
  BY <1>2, <1>4, <1>5 DEF Alone
<1>6. CASE held["tcl"].size # 0
  <2>1. Alone => ~HasZero
    BY <1>5, <1>6, OfEmpty DEF HasZero
  <2>2. mode # "zero" /\ ~HasZero
    BY <1>1, <1>6, <2>1 DEF FlowInv, ZeroIsAlone, AllZero
  <2> QED BY <1>0, <1>1, <1>2, <1>3, <1>6, <2>2
<1>7. CASE held["tcl"].size = 0
  <2>1. Alone
    BY <1>1, <1>7 DEF FlowInv, ZeroIsAlone, HasZero
  <2>2. held["tcl"].data = <<>>
    BY <1>7 DEF FlowInv, SoundBuffers, Sound
  <2>3. held["ct"] = NoBuf
    BY <1>1, <1>5, <2>1 DEF CtPlace
  <2>4. call.buf = <<>>
    BY <1>2, <1>5, <2>1, CallFacts
  <2> QED BY <1>0, <1>1, <1>2, <1>3, <1>5, <1>7, <2>1, <2>2, <2>3, <2>4
<1> QED BY <1>6, <1>7

LEMMA ReadKeeps ==
  ASSUME FlowInv, NEW n \in 1 .. ChanSize, NEW async \in BOOLEAN, Read(n, async)
  PROVE  FlowInv'
<1>0. Typed
  BY TypeFacts DEF FlowInv
<1>1. /\ pc'["tcl"] = "pop"
      /\ pc["tcl"] = "idle" /\ Ready /\ n > 0 /\ n \in Nat
      /\ call = NoCall
      /\ call' = [NoCall EXCEPT !.want = n, !.async = async]
      /\ async => pending # <<>>
      /\ sent' = sent /\ peer' = peer /\ net' = net /\ posted' = posted
      /\ port' = port /\ pending' = pending /\ recvs' = recvs /\ mode' = mode
      /\ cap' = cap /\ unreadCap' = unreadCap /\ need' = need /\ eof' = eof
      /\ delivered' = delivered /\ failed' = failed /\ starved' = starved
      /\ pc'["ct"] = pc["ct"] /\ held'["tcl"] = held["tcl"]
      /\ held'["ct"] = held["ct"]
  BY <1>0
     DEF FlowInv, Places, TclPlace, Ready, Read, Typed, Threads, Goto, netVars, modeVars,
         outVars
<1>2. /\ call' \in CallType /\ call'.want = n /\ call'.n = 0 /\ call'.off = 0
      /\ call'.buf = <<>> /\ Len(call'.buf) = 0 /\ call'.async = async
      /\ First(call'.buf, call'.n) = <<>> /\ First(call.buf, call.n) = <<>>
  <2>1. /\ call' \in CallType /\ call'.want = n /\ call'.n = 0 /\ call'.off = 0
        /\ call'.buf = <<>> /\ call'.async = async
    BY <1>1, CallFacts DEF NoCall, CallType
  <2>2. Len(<<>>) = 0
    OBVIOUS
  <2> QED BY <1>1, <2>1, <2>2, CallFacts
<1>10. pc' \in [Threads -> At] /\ held' \in [Threads -> Buffer]
  BY <1>0, <1>2 DEF Read, Goto, netVars, modeVars, outVars, Typed, Threads, At
<1>11. TypeOK'
  BY <1>0, <1>1, <1>2, <1>10 DEF FlowInv, TypeOK, Typed, CallType
<1>20. Typed'
  BY <1>11, TypeFacts, PTL
<1>12. Counted'
  BY <1>0, <1>1, <1>2 DEF FlowInv, Counted, Ready, One, Typed
<1>13. Places'
  <2>1. Total' = Total
    BY <1>1 DEF Total, One, PostPlaces
  <2> QED BY <1>1, <1>2, <2>1 DEF FlowInv, Places, TclPlace, CtPlace, PostPlaces, Ready
<1>14. SoundBuffers'
  BY <1>0, <1>1, <1>2, NoBufFacts DEF FlowInv, SoundBuffers, Both, Typed
<1>15. EndIsLast'
  BY <1>0, <1>1, <1>2, NoBufFacts DEF FlowInv, EndIsLast, Both, Typed
<1>16. ZeroIsAlone'
  <2>1. Total' = Total
    BY <1>1 DEF Total, One, PostPlaces
  <2> QED BY <1>1, <1>2, <2>1 DEF FlowInv, ZeroIsAlone, AllZero, HasZero, Alone, Ready
<1>17. AlertsAreReady'
  BY <1>0, <1>1, <1>2, NoBufFacts
     DEF FlowInv, AlertsAreReady, HasAlert, Ready, Both, Typed
<1>18. NothingLost'
  <2>1. First(call'.buf, call'.n) = First(call.buf, call.n)
    BY <1>2
  <2>2. Pieces' = Pieces
    BY <1>1, <1>2, <2>1 DEF Pieces, Whole
  <2>3. InPieces
    BY <1>0, LostMeansPieces DEF FlowInv
  <2>4. InPieces'
    BY <1>1, <2>2, <2>3 DEF InPieces
  <2> QED BY <1>20, <2>4, LostMeansPieces, PTL
<1>19. EofIsLast'
  BY <1>1 DEF FlowInv, EofIsLast
<1> QED BY <1>11, <1>12, <1>13, <1>14, <1>15, <1>16, <1>17, <1>18, <1>19 DEF FlowInv

LEMMA PopFaultKeeps ==
  ASSUME FlowInv, pc'["tcl"] = "fault", Pop
  PROVE  FlowInv'
<1>0. Typed
  BY TypeFacts DEF FlowInv
<1>1. /\ pc'["tcl"] = "fault"
      /\ pc'["ct"] = "fault"
      /\ sent' = sent /\ peer' = peer /\ net' = net /\ posted' = posted
      /\ port' = port /\ pending' = pending /\ recvs' = recvs /\ mode' = mode
      /\ cap' = cap /\ unreadCap' = unreadCap /\ need' = need /\ eof' = eof
      /\ delivered' = delivered /\ failed' = failed /\ starved' = starved
      /\ call' = call /\ held'["tcl"] = held["tcl"]
      /\ held'["ct"] = held["ct"]
  BY <1>0 DEF Pop, Typed, Threads, Goto, netVars, modeVars, outVars
<1>10. pc' \in [Threads -> At] /\ held' \in [Threads -> Buffer]
  BY <1>0 DEF Pop, Goto, netVars, modeVars, outVars, Typed, Threads, At
<1>11. TypeOK'
  BY <1>0, <1>1, <1>10 DEF FlowInv, TypeOK, Typed, Stream, Queue
<1>20. Typed'
  BY <1>11, TypeFacts, PTL
<1>12. Counted'
  BY <1>0, <1>1 DEF FlowInv, Counted, Ready, One, Typed
<1>13. Places'
  BY <1>0, <1>1
     DEF FlowInv, Places, TclPlace, CtPlace, Total, PostPlaces, One, Ready, Typed
<1>14. SoundBuffers'
  BY <1>0, <1>1, NoBufFacts DEF FlowInv, SoundBuffers, Typed
<1>15. EndIsLast'
  BY <1>0, <1>1, NoBufFacts DEF FlowInv, EndIsLast, Typed
<1>16. ZeroIsAlone'
  BY <1>0, <1>1, NoBufFacts
     DEF FlowInv, ZeroIsAlone, AllZero, HasZero, Alone, Total, Ready, One, PostPlaces,
         Places, TclPlace, CtPlace, Typed
<1>17. AlertsAreReady'
  BY <1>0, <1>1, NoBufFacts DEF FlowInv, AlertsAreReady, HasAlert, Ready, Typed
<1>18. NothingLost'
  BY <1>1 DEF FlowInv, NothingLost
<1>19. EofIsLast'
  BY <1>1 DEF FlowInv, EofIsLast
<1> QED BY <1>11, <1>12, <1>13, <1>14, <1>15, <1>16, <1>17, <1>18, <1>19 DEF FlowInv

LEMMA PopNothingKeeps ==
  ASSUME FlowInv, pc'["tcl"] = "repost", Pop
  PROVE  FlowInv'
<1>0. Typed
  BY TypeFacts DEF FlowInv
<1>1. /\ pc'["tcl"] = "repost"
      /\ pc["tcl"] = "pop" /\ pending = <<>> /\ call.async /\ call.n \in Nat
      /\ sent' = sent /\ peer' = peer /\ net' = net /\ posted' = posted
      /\ port' = port /\ pending' = pending /\ recvs' = recvs /\ mode' = mode
      /\ cap' = cap /\ unreadCap' = unreadCap /\ need' = need /\ eof' = eof
      /\ delivered' = delivered /\ failed' = failed /\ starved' = starved
      /\ call' = call /\ pc'["ct"] = pc["ct"] /\ held'["tcl"] = held["tcl"]
      /\ held'["ct"] = held["ct"]
  BY <1>0, CallFacts DEF CallType, Pop, Typed, Threads, Goto, netVars, modeVars, outVars
<1>10. pc' \in [Threads -> At] /\ held' \in [Threads -> Buffer]
  BY <1>0 DEF Pop, Goto, netVars, modeVars, outVars, Typed, Threads, At
<1>11. TypeOK'
  BY <1>0, <1>1, <1>10 DEF FlowInv, TypeOK, Typed, Stream, Queue
<1>20. Typed'
  BY <1>11, TypeFacts, PTL
<1>12. Counted'
  BY <1>0, <1>1 DEF FlowInv, Counted, Ready, One, Typed
<1>13. Places'
  BY <1>0, <1>1
     DEF FlowInv, Places, TclPlace, CtPlace, Total, PostPlaces, One, Ready, Typed
<1>14. SoundBuffers'
  BY <1>0, <1>1, NoBufFacts DEF FlowInv, SoundBuffers, Typed
<1>15. EndIsLast'
  BY <1>0, <1>1, NoBufFacts DEF FlowInv, EndIsLast, Typed
<1>16. ZeroIsAlone'
  BY <1>0, <1>1, NoBufFacts
     DEF FlowInv, ZeroIsAlone, AllZero, HasZero, Alone, Total, Ready, One, PostPlaces,
         Places, TclPlace, CtPlace, Typed
<1>17. AlertsAreReady'
  BY <1>0, <1>1, NoBufFacts DEF FlowInv, AlertsAreReady, HasAlert, Ready, Typed
<1>18. NothingLost'
  BY <1>1 DEF FlowInv, NothingLost
<1>19. EofIsLast'
  BY <1>1 DEF FlowInv, EofIsLast
<1> QED BY <1>11, <1>12, <1>13, <1>14, <1>15, <1>16, <1>17, <1>18, <1>19 DEF FlowInv

LEMMA PopBufferKeeps ==
  ASSUME FlowInv, pc'["tcl"] = "merge", Pop
  PROVE  FlowInv'
<1>0. Typed
  BY TypeFacts DEF FlowInv
<1>1. /\ pending' = Tail(pending)
      /\ pc'["tcl"] = "merge"
      /\ held'["tcl"] = Head(pending)
      /\ pc["tcl"] = "pop" /\ pending # <<>>
      /\ held["tcl"] = NoBuf /\ Ready
      /\ sent' = sent /\ peer' = peer /\ net' = net /\ posted' = posted
      /\ port' = port /\ recvs' = recvs /\ mode' = mode /\ cap' = cap
      /\ unreadCap' = unreadCap /\ need' = need /\ eof' = eof
      /\ delivered' = delivered /\ failed' = failed /\ starved' = starved
      /\ call' = call /\ pc'["ct"] = pc["ct"] /\ held'["ct"] = held["ct"]
  BY <1>0
     DEF FlowInv, Places, TclPlace, Ready, Pop, Typed, Threads, Goto, netVars, modeVars,
         outVars
<1>2. /\ Tail(pending) \in Queue /\ Head(pending) \in Buffer
      /\ Head(pending).data \in Stream /\ Flat(Tail(pending)) \in Stream
      /\ Len(pending) = Len(Tail(pending)) + 1 /\ Len(Tail(pending)) \in Nat
      /\ Flat(pending) = Cat(Head(pending).data, Flat(Tail(pending)))
      /\ Both(Tail(pending), Head(pending), pending)
      /\ EndsLast(pending) <=>
            EndsLast(Tail(pending)) /\ (IsEnd(Head(pending)) => NoData(Tail(pending)))
  BY <1>0, <1>1, OfTail DEF Typed
<1>3. Total' = Total /\ Total >= 1 /\ Total \in Nat
  BY <1>0, <1>1, <1>2 DEF Total, One, PostPlaces, Typed
<1>10. pc' \in [Threads -> At] /\ held' \in [Threads -> Buffer]
  <2>1. /\ pc' = [pc EXCEPT !["tcl"] = pc'["tcl"]]
        /\ held' = [held EXCEPT !["tcl"] = held'["tcl"]]
    BY <1>0, <1>1 DEF Pop, Goto, Typed, Threads
  <2>2. pc'["tcl"] \in At /\ held'["tcl"] \in Buffer
    BY <1>1, <1>2 DEF At
  <2> QED BY <1>0, <2>1, <2>2 DEF Typed
<1>11. TypeOK'
  BY <1>0, <1>1, <1>2, <1>10 DEF FlowInv, TypeOK, Typed, Stream, Queue
<1>20. Typed'
  BY <1>11, TypeFacts, PTL
<1>12. Counted'
  BY <1>0, <1>1, <1>2 DEF FlowInv, Counted, Ready, One, Typed
<1>13. Places'
  BY <1>1, <1>3 DEF FlowInv, Places, TclPlace, CtPlace, PostPlaces, Ready
<1>14. SoundBuffers'
  BY <1>0, <1>1, <1>2, NoBufFacts DEF FlowInv, SoundBuffers, Both, Typed
<1>15. EndIsLast'
  BY <1>0, <1>1, <1>2, NoBufFacts DEF FlowInv, EndIsLast, Both, Typed
<1>16. ZeroIsAlone'
  <2>1. HasZero' => HasZero
    BY <1>0, <1>1, <1>2 DEF HasZero, Both
  <2>2. AllZero => AllZero'
    BY <1>0, <1>1, <1>2 DEF AllZero, Both
  <2> QED BY <1>1, <1>3, <2>1, <2>2 DEF FlowInv, ZeroIsAlone, Alone, Ready
<1>17. AlertsAreReady'
  BY <1>0, <1>1, <1>2, NoBufFacts
     DEF FlowInv, AlertsAreReady, HasAlert, Ready, Both, Typed
<1>18. NothingLost'
  <2> DEFINE t == Cat(held["ct"].data, Cat(Flat(port), net))
             h == Head(pending).data
             p == Flat(Tail(pending))
  <2>0. t \in Stream /\ h \in Stream /\ p \in Stream
    BY <1>0, <1>2, Concat DEF Typed
  <2>1. Cat(held'["tcl"].data, Cat(Flat(pending'), t))
          = Cat(held["tcl"].data, Cat(Flat(pending), t))
    <3>1. Cat(h, Cat(p, t)) = Cat(<<>>, Cat(Cat(h, p), t))
      <4> HIDE DEF h, p, t
      <4> QED BY <2>0, Concat
    <3> QED BY <1>1, <1>2, <3>1, NoBufFacts
  <2>2. Pieces' = Pieces
    BY <1>1, <1>2, NoBufFacts, <2>1 DEF Pieces, Whole
  <2>3. InPieces
    BY <1>0, LostMeansPieces DEF FlowInv
  <2>4. InPieces'
    BY <1>1, <2>2, <2>3 DEF InPieces
  <2> QED BY <1>20, <2>4, LostMeansPieces, PTL
<1>19. EofIsLast'
  BY <1>1 DEF FlowInv, EofIsLast
<1> QED BY <1>11, <1>12, <1>13, <1>14, <1>15, <1>16, <1>17, <1>18, <1>19 DEF FlowInv

LEMMA PopKeeps == ASSUME FlowInv, Pop PROVE FlowInv'
<1>1. pc'["tcl"] \in {"fault", "repost", "merge"}
  BY TypeFacts DEF FlowInv, Typed, Pop, Goto, Threads
<1> QED BY <1>1, PopFaultKeeps, PopNothingKeeps, PopBufferKeeps
LEMMA PutBackWholeKeeps ==
  ASSUME FlowInv, IsSingleOp(held["tcl"]), PutBack
  PROVE  FlowInv'
<1>0. Typed
  BY TypeFacts DEF FlowInv
<1>1. /\ pending' = <<held["tcl"]>> \o pending
      /\ pc'["tcl"] = "repost"
      /\ held'["tcl"] = NoBuf
      /\ pc["tcl"] = "merge"
      /\ held["tcl"].data = <<>> /\ held["tcl"].size # 0
      /\ sent' = sent /\ peer' = peer /\ net' = net /\ posted' = posted
      /\ port' = port /\ recvs' = recvs /\ mode' = mode /\ cap' = cap
      /\ unreadCap' = unreadCap /\ need' = need /\ eof' = eof
      /\ delivered' = delivered /\ failed' = failed /\ starved' = starved
      /\ call' = call /\ pc'["ct"] = pc["ct"] /\ held'["ct"] = held["ct"]
  BY <1>0 DEF PutBack, IsSingleOp, Goto, Typed, Threads, netVars, modeVars, outVars
<1>2. /\ call \in CallType /\ call.want \in Nat /\ call.n \in Nat
      /\ call.want > 0 /\ call.n <= call.want /\ call.off = call.n
      /\ call.buf \in Stream /\ Len(call.buf) = call.n
      /\ First(call.buf, call.off) = call.buf /\ First(call.buf, call.n) = call.buf
      /\ Ready /\ held["tcl"] \in Buffer
      /\ held["tcl"].size # 0 => ~HasZero /\ mode # "zero"
      /\ held["tcl"].size = 0 =>
           /\ posted = <<>> /\ port = <<>> /\ pending = <<>> /\ pc["ct"] = "idle"
           /\ held["ct"] = NoBuf /\ Total = 1 /\ Alone
           /\ call.n = 0 /\ call.buf = <<>> /\ held["tcl"].data = <<>>
  BY <1>0, <1>1, InMerge DEF Typed
<1>3. /\ <<held["tcl"]>> \o pending \in Queue /\ <<held["tcl"]>> \o pending # <<>>
      /\ Len(<<held["tcl"]>> \o pending) = Len(pending) + 1
      /\ Flat(<<held["tcl"]>> \o pending) = Cat(held["tcl"].data, Flat(pending))
      /\ Both(pending, held["tcl"], <<held["tcl"]>> \o pending)
      /\ EndsLast(<<held["tcl"]>> \o pending) <=>
            EndsLast(pending) /\ (IsEnd(held["tcl"]) => NoData(pending))
  BY <1>0, <1>1, OfCons DEF Typed
<1>4. Total' = Total
  BY <1>0, <1>1, <1>2, <1>3 DEF Total, One, PostPlaces, Typed
<1>10. pc' \in [Threads -> At] /\ held' \in [Threads -> Buffer]
  BY <1>0, NoBufFacts DEF PutBack, Goto, netVars, modeVars, outVars, Typed, Threads, At
<1>11. TypeOK'
  BY <1>0, <1>1, <1>2, <1>3, <1>10 DEF FlowInv, TypeOK, Typed, Stream, Queue
<1>20. Typed'
  BY <1>11, TypeFacts, PTL
<1>12. Counted'
  BY <1>0, <1>1, <1>2, <1>3 DEF FlowInv, Counted, Ready, One, Typed
<1>13. Places'
  BY <1>1, <1>2, <1>4 DEF FlowInv, Places, TclPlace, CtPlace, PostPlaces, Ready
<1>14. SoundBuffers'
  BY <1>0, <1>1, <1>2, <1>3, NoBufFacts DEF FlowInv, SoundBuffers, Both, Typed
<1>15. EndIsLast'
  BY <1>0, <1>1, <1>2, <1>3, NoBufFacts DEF FlowInv, EndIsLast, Both, Typed
<1>16. ZeroIsAlone'
  <2>1. ~HasZero' /\ mode' # "zero"
    BY <1>1, <1>2, <1>3 DEF HasZero, Both
  <2> QED BY <2>1 DEF ZeroIsAlone
<1>17. AlertsAreReady'
  BY <1>0, <1>1, <1>2, <1>3, NoBufFacts
     DEF FlowInv, AlertsAreReady, HasAlert, Ready, Both, Typed
<1>18. NothingLost'
  <2> DEFINE t == Cat(held["ct"].data, Cat(Flat(port), net))
             h == held["tcl"].data
             p == Flat(pending)
  <2>0. t \in Stream /\ h \in Stream /\ p \in Stream
    BY <1>0, <1>3, Concat DEF Typed
  <2>1. Cat(held'["tcl"].data, Cat(Flat(pending'), t))
          = Cat(held["tcl"].data, Cat(Flat(pending), t))
    <3>1. Cat(<<>>, Cat(Cat(h, p), t)) = Cat(h, Cat(p, t))
      <4> HIDE DEF h, p, t
      <4> QED BY <2>0, Concat
    <3> QED BY <1>1, <1>3, <3>1, NoBufFacts
  <2>2. Pieces' = Pieces
    BY <1>1, <1>3, NoBufFacts, <2>1 DEF Pieces, Whole
  <2>3. InPieces
    BY <1>0, LostMeansPieces DEF FlowInv
  <2>4. InPieces'
    BY <1>1, <2>2, <2>3 DEF InPieces
  <2> QED BY <1>20, <2>4, LostMeansPieces, PTL
<1>19. EofIsLast'
  BY <1>1 DEF FlowInv, EofIsLast
<1> QED BY <1>11, <1>12, <1>13, <1>14, <1>15, <1>16, <1>17, <1>18, <1>19 DEF FlowInv

LEMMA PutBackRestKeeps ==
  ASSUME FlowInv, ~IsSingleOp(held["tcl"]), PutBack
  PROVE  FlowInv'
<1>0. Typed
  BY TypeFacts DEF FlowInv
<1>1. /\ pc'["tcl"] = "repost"
      /\ held'["tcl"] = NoBuf
      /\ pc["tcl"] = "merge" /\ IsPartial(held["tcl"])
      /\ pending' = <<[held["tcl"] EXCEPT !.data = Rest(@, call.want - call.n)]>> \o pending
      /\ call' = [call EXCEPT !.buf = Merged(First(held["tcl"].data, call.want - call.n)),
                             !.n = @ + (call.want - call.n)]
      /\ sent' = sent /\ peer' = peer /\ net' = net /\ posted' = posted
      /\ port' = port /\ recvs' = recvs /\ mode' = mode /\ cap' = cap
      /\ unreadCap' = unreadCap /\ need' = need /\ eof' = eof
      /\ delivered' = delivered /\ failed' = failed /\ starved' = starved
      /\ pc'["ct"] = pc["ct"] /\ held'["ct"] = held["ct"]
  BY <1>0 DEF PutBack, Goto, Typed, Threads, netVars, modeVars, outVars
<1>2. /\ call \in CallType /\ call.want \in Nat /\ call.n \in Nat
      /\ call.want > 0 /\ call.n <= call.want /\ call.off = call.n
      /\ call.buf \in Stream /\ Len(call.buf) = call.n
      /\ First(call.buf, call.off) = call.buf /\ First(call.buf, call.n) = call.buf
      /\ Ready /\ held["tcl"] \in Buffer
      /\ held["tcl"].size # 0 => ~HasZero /\ mode # "zero"
      /\ held["tcl"].size = 0 =>
           /\ posted = <<>> /\ port = <<>> /\ pending = <<>> /\ pc["ct"] = "idle"
           /\ held["ct"] = NoBuf /\ Total = 1 /\ Alone
           /\ call.n = 0 /\ call.buf = <<>> /\ held["tcl"].data = <<>>
  BY <1>0, <1>1, InMerge DEF Typed
<1>3. PICK k \in Nat : /\ k = call.want - call.n /\ call.n + k = call.want
                      /\ First(held["tcl"].data, k) \in Stream
                      /\ Rest(held["tcl"].data, k) \in Stream
                      /\ Cat(First(held["tcl"].data, k), Rest(held["tcl"].data, k))
                           = held["tcl"].data
                      /\ Len(First(held["tcl"].data, k)) = k
                      /\ Rest(held["tcl"].data, k) # <<>>
                      /\ held["tcl"].data # <<>>
  <2> DEFINE j == call.want - call.n
  <2>1. j \in Nat /\ call.n + j = call.want
    BY <1>2
  <2>2. held["tcl"].data \in Stream /\ Len(held["tcl"].data) \in Nat
    BY <1>0, LenProperties DEF Typed, Stream
  <2>3. j < Len(held["tcl"].data)
    BY <1>1, <1>2, <2>2 DEF IsPartial
  <2>4. held["tcl"].data # <<>>
    <3>1. Len(<<>>) = 0
      OBVIOUS
    <3> QED BY <2>1, <2>2, <2>3, <3>1
  <2>5. /\ First(held["tcl"].data, j) \in Stream
        /\ Rest(held["tcl"].data, j) \in Stream
        /\ Cat(First(held["tcl"].data, j), Rest(held["tcl"].data, j)) = held["tcl"].data
        /\ Len(First(held["tcl"].data, j)) = j
        /\ Rest(held["tcl"].data, j) # <<>>
    <3> HIDE DEF j
    <3> QED BY <2>1, <2>2, <2>3, Cuts
  <2> QED BY <2>1, <2>4, <2>5
<1>4. PICK b \in Buffer :
        /\ pending' = <<b>> \o pending
        /\ b.data = Rest(held["tcl"].data, k) /\ b.size = held["tcl"].size
        /\ b.size # 0 /\ b.data # <<>> /\ Sound(b) /\ ~IsEnd(b) /\ ~IsAlert(b)
        /\ b.data \in Stream
  <2> DEFINE c == [held["tcl"] EXCEPT !.data = Rest(@, call.want - call.n)]
  <2>1. c \in Buffer /\ c.data = Rest(held["tcl"].data, k)
        /\ c.size = held["tcl"].size /\ c.err = held["tcl"].err
    BY <1>2, <1>3 DEF Buffer, Stream
  <2>2. pending' = <<c>> \o pending
    BY <1>1
  <2>3. held["tcl"].size # 0 /\ held["tcl"].err = "none" /\ held["tcl"].size > 0
    BY <1>2, <1>3 DEF FlowInv, SoundBuffers, Sound
  <2> HIDE DEF c
  <2> QED BY <1>3, <2>1, <2>2, <2>3 DEF Sound, IsEnd, IsAlert
<1>5. /\ call' \in CallType /\ call'.n = call.n + k /\ call'.want = call.want
      /\ call'.off = call.off /\ call'.burst = call.burst
      /\ call'.buf = Cat(call.buf, First(held["tcl"].data, k))
      /\ First(call'.buf, call'.n) = Cat(call.buf, First(held["tcl"].data, k))
  <2>1. Merged(First(held["tcl"].data, call.want - call.n))
          = Cat(call.buf, First(held["tcl"].data, k))
    BY <1>2, <1>3 DEF Merged, Cat
  <2>2. Cat(call.buf, First(held["tcl"].data, k)) \in Seq(Units) /\ call.n + k \in Nat
    BY <1>2, <1>3, Concat DEF Stream
  <2>3. /\ call' \in CallType /\ call'.n = call.n + k /\ call'.want = call.want
        /\ call'.off = call.off /\ call'.burst = call.burst
        /\ call'.buf = Cat(call.buf, First(held["tcl"].data, k))
    BY <1>1, <1>2, <1>3, <2>1, <2>2 DEF CallType
  <2>4. Len(call'.buf) = call.n + k
    BY <1>2, <1>3, <2>3, Lengths
  <2>5. Len(call'.buf) <= call'.n
    BY <1>2, <2>3, <2>4
  <2>6. First(call'.buf, call'.n) = call'.buf
    BY <2>3, <2>5, CallFacts
  <2> QED BY <2>3, <2>6
<1>6. /\ <<b>> \o pending \in Queue /\ <<b>> \o pending # <<>>
      /\ Len(<<b>> \o pending) = Len(pending) + 1
      /\ Flat(<<b>> \o pending) = Cat(b.data, Flat(pending))
      /\ Both(pending, b, <<b>> \o pending)
      /\ EndsLast(<<b>> \o pending) <=> EndsLast(pending) /\ (IsEnd(b) => NoData(pending))
  BY <1>0, <1>4, OfCons DEF Typed
<1>7. Total' = Total
  BY <1>0, <1>1, <1>2, <1>4, <1>6 DEF Total, One, PostPlaces, Typed
<1>10. pc' \in [Threads -> At] /\ held' \in [Threads -> Buffer]
  BY <1>0, NoBufFacts DEF PutBack, Goto, netVars, modeVars, outVars, Typed, Threads, At
<1>11. TypeOK'
  BY <1>0, <1>1, <1>4, <1>5, <1>6, <1>10
     DEF FlowInv, TypeOK, Typed, Stream, Queue, CallType
<1>20. Typed'
  BY <1>11, TypeFacts, PTL
<1>12. Counted'
  BY <1>0, <1>1, <1>2, <1>3, <1>4, <1>5, <1>6 DEF FlowInv, Counted, Ready, One, Typed
<1>13. Places'
  BY <1>1, <1>2, <1>5, <1>7 DEF FlowInv, Places, TclPlace, CtPlace, PostPlaces, Ready
<1>14. SoundBuffers'
  BY <1>0, <1>1, <1>2, <1>3, <1>4, <1>5, <1>6, NoBufFacts
     DEF FlowInv, SoundBuffers, Both, Typed
<1>15. EndIsLast'
  BY <1>0, <1>1, <1>2, <1>3, <1>4, <1>5, <1>6, NoBufFacts
     DEF FlowInv, EndIsLast, Both, Typed
<1>16. ZeroIsAlone'
  <2>1. ~HasZero' /\ mode' # "zero"
    BY <1>1, <1>2, <1>4, <1>6 DEF HasZero, Both
  <2> QED BY <2>1 DEF ZeroIsAlone
<1>17. AlertsAreReady'
  BY <1>0, <1>1, <1>2, <1>3, <1>4, <1>5, <1>6, NoBufFacts
     DEF FlowInv, AlertsAreReady, HasAlert, Ready, Both, Typed
<1>18. NothingLost'
  <2> DEFINE t == Cat(held["ct"].data, Cat(Flat(port), net))
             c == call.buf
             h == held["tcl"].data
             f == First(h, k)
             r == Rest(h, k)
             p == Flat(pending)
  <2>0. /\ t \in Stream /\ h \in Stream /\ p \in Stream /\ c \in Stream
        /\ f \in Stream /\ r \in Stream /\ Cat(f, r) = h
    BY <1>0, <1>2, <1>3, Concat DEF Typed
  <2>1. Cat(First(call'.buf, call'.n), Cat(held'["tcl"].data, Cat(Flat(pending'), t)))
          = Cat(First(call.buf, call.n), Cat(held["tcl"].data, Cat(Flat(pending), t)))
    <3>1. Cat(Cat(c, f), Cat(<<>>, Cat(Cat(r, p), t))) = Cat(c, Cat(h, Cat(p, t)))
      <4> HIDE DEF c, f, r, h, p, t
      <4>1. Cat(p, t) \in Stream /\ Cat(r, Cat(p, t)) \in Stream
        BY <2>0, Concat
      <4>2. Cat(<<>>, Cat(Cat(r, p), t)) = Cat(r, Cat(p, t))
        BY <2>0, <4>1, Concat
      <4>3. Cat(Cat(c, f), Cat(r, Cat(p, t))) = Cat(c, Cat(f, Cat(r, Cat(p, t))))
        BY <2>0, <4>1, Concat
      <4>4. Cat(f, Cat(r, Cat(p, t))) = Cat(Cat(f, r), Cat(p, t))
        BY <2>0, <4>1, Concat
      <4> QED BY <2>0, <4>2, <4>3, <4>4
    <3> QED BY <1>1, <1>2, <1>4, <1>5, <1>6, <3>1, NoBufFacts
  <2>2. Pieces' = Pieces
    BY <1>1, <2>1 DEF Pieces, Whole
  <2>3. InPieces
    BY <1>0, LostMeansPieces DEF FlowInv
  <2>4. InPieces'
    BY <1>1, <2>2, <2>3 DEF InPieces
  <2> QED BY <1>20, <2>4, LostMeansPieces, PTL
<1>19. EofIsLast'
  BY <1>1 DEF FlowInv, EofIsLast
<1> QED BY <1>11, <1>12, <1>13, <1>14, <1>15, <1>16, <1>17, <1>18, <1>19 DEF FlowInv

LEMMA PutBackKeeps == ASSUME FlowInv, PutBack PROVE FlowInv'
BY PutBackWholeKeeps, PutBackRestKeeps

LEMMA MergeKeeps ==
  ASSUME FlowInv, Merge
  PROVE  FlowInv'
<1>0. Typed
  BY TypeFacts DEF FlowInv
<1>1. /\ held'["tcl"] = NoBuf
      /\ pc["tcl"] = "merge" /\ ~IsSingleOp(held["tcl"]) /\ ~IsPartial(held["tcl"])
      /\ held["tcl"].err = "none" /\ held["tcl"].data # <<>>
      /\ pc'["tcl"] \in {"pop", "repost"}
      /\ call' = [call EXCEPT !.buf = Merged(held["tcl"].data), !.off = @ + Len(held["tcl"].data),
                             !.n = @ + Len(held["tcl"].data)]
      /\ sent' = sent /\ peer' = peer /\ net' = net /\ posted' = posted
      /\ port' = port /\ pending' = pending /\ recvs' = recvs /\ mode' = mode
      /\ cap' = cap /\ unreadCap' = unreadCap /\ need' = need /\ eof' = eof
      /\ delivered' = delivered /\ failed' = failed /\ starved' = starved
      /\ pc'["ct"] = pc["ct"] /\ held'["ct"] = held["ct"]
  BY <1>0 DEF Merge, Goto, Typed, Threads, netVars, modeVars, outVars
<1>2. /\ call \in CallType /\ call.want \in Nat /\ call.n \in Nat
      /\ call.want > 0 /\ call.n <= call.want /\ call.off = call.n
      /\ call.buf \in Stream /\ Len(call.buf) = call.n
      /\ First(call.buf, call.off) = call.buf /\ First(call.buf, call.n) = call.buf
      /\ Ready /\ held["tcl"] \in Buffer
      /\ held["tcl"].size # 0 => ~HasZero /\ mode # "zero"
      /\ held["tcl"].size = 0 =>
           /\ posted = <<>> /\ port = <<>> /\ pending = <<>> /\ pc["ct"] = "idle"
           /\ held["ct"] = NoBuf /\ Total = 1 /\ Alone
           /\ call.n = 0 /\ call.buf = <<>> /\ held["tcl"].data = <<>>
  BY <1>0, <1>1, InMerge DEF Typed
<1>3. /\ held["tcl"].data \in Stream /\ Len(held["tcl"].data) \in Nat
      /\ call.n + Len(held["tcl"].data) <= call.want /\ held["tcl"].size # 0
  <2>1. held["tcl"].data \in Stream /\ Len(held["tcl"].data) \in Nat
    BY <1>0, Lengths DEF Typed
  <2> QED BY <1>1, <1>2, <2>1 DEF IsPartial, FlowInv, SoundBuffers, Sound
<1>4. /\ call' \in CallType /\ call'.n = call.n + Len(held["tcl"].data)
      /\ call'.want = call.want /\ call'.off = call'.n /\ call'.burst = call.burst
      /\ call'.buf = Cat(call.buf, held["tcl"].data) /\ Len(call'.buf) = call'.n
      /\ First(call'.buf, call'.n) = Cat(call.buf, held["tcl"].data)
      /\ call'.n <= call'.want
  <2>1. Merged(held["tcl"].data) = Cat(call.buf, held["tcl"].data)
    BY <1>2 DEF Merged, Cat
  <2>2. /\ Cat(call.buf, held["tcl"].data) \in Seq(Units)
        /\ call.n + Len(held["tcl"].data) \in Nat
    <3>1. Cat(call.buf, held["tcl"].data) \in Stream
      BY <1>2, <1>3, Concat
    <3> QED BY <1>2, <1>3, <3>1 DEF Stream
  <2>3. /\ call' \in CallType /\ call'.n = call.n + Len(held["tcl"].data)
        /\ call'.want = call.want /\ call'.off = call'.n /\ call'.burst = call.burst
        /\ call'.buf = Cat(call.buf, held["tcl"].data)
    BY <1>1, <1>2, <1>3, <2>1, <2>2 DEF CallType
  <2>4. Len(call'.buf) = call'.n
    BY <1>2, <1>3, <2>3, Lengths
  <2>5. Len(call'.buf) <= call'.n /\ call'.n <= call'.want
    BY <1>2, <1>3, <2>3, <2>4
  <2>6. First(call'.buf, call'.n) = call'.buf
    BY <2>3, <2>5, CallFacts
  <2> QED BY <2>3, <2>4, <2>5, <2>6
<1>10. pc' \in [Threads -> At] /\ held' \in [Threads -> Buffer]
  BY <1>0, NoBufFacts DEF Merge, Goto, netVars, modeVars, outVars, Typed, Threads, At
<1>11. TypeOK'
  BY <1>0, <1>1, <1>4, <1>10 DEF FlowInv, TypeOK, Typed, Stream, Queue, CallType
<1>20. Typed'
  BY <1>11, TypeFacts, PTL
<1>12. Counted'
  BY <1>0, <1>1, <1>2, <1>4 DEF FlowInv, Counted, Ready, One, Typed
<1>13. Places'
  BY <1>1, <1>2, <1>4 DEF FlowInv, Places, TclPlace, CtPlace, PostPlaces, Ready
<1>14. SoundBuffers'
  BY <1>0, <1>1, <1>2, <1>4, NoBufFacts DEF FlowInv, SoundBuffers, Both, Typed
<1>15. EndIsLast'
  BY <1>0, <1>1, <1>2, <1>4, NoBufFacts DEF FlowInv, EndIsLast, Both, Typed
<1>16. ZeroIsAlone'
  <2>1. ~HasZero' /\ mode' # "zero"
    BY <1>1, <1>2, <1>3 DEF HasZero
  <2> QED BY <2>1 DEF ZeroIsAlone
<1>17. AlertsAreReady'
  BY <1>0, <1>1, <1>2, <1>4, NoBufFacts
     DEF FlowInv, AlertsAreReady, HasAlert, Ready, Both, Typed
<1>18. NothingLost'
  <2> DEFINE t == Cat(Flat(pending), Cat(held["ct"].data, Cat(Flat(port), net)))
             c == call.buf
             h == held["tcl"].data
  <2>0. t \in Stream /\ h \in Stream /\ c \in Stream
    BY <1>0, <1>2, <1>3, Concat DEF Typed
  <2>1. Cat(First(call'.buf, call'.n), Cat(held'["tcl"].data, t))
          = Cat(First(call.buf, call.n), Cat(held["tcl"].data, t))
    <3>1. Cat(Cat(c, h), Cat(<<>>, t)) = Cat(c, Cat(h, t))
      <4> HIDE DEF c, h, t
      <4> QED BY <2>0, Concat
    <3> QED BY <1>1, <1>2, <1>4, <3>1, NoBufFacts
  <2>2. Pieces' = Pieces
    BY <1>1, <2>1 DEF Pieces, Whole
  <2>3. InPieces
    BY <1>0, LostMeansPieces DEF FlowInv
  <2>4. InPieces'
    BY <1>1, <2>2, <2>3 DEF InPieces
  <2> QED BY <1>20, <2>4, LostMeansPieces, PTL
<1>19. EofIsLast'
  BY <1>1 DEF FlowInv, EofIsLast
<1> QED BY <1>11, <1>12, <1>13, <1>14, <1>15, <1>16, <1>17, <1>18, <1>19 DEF FlowInv

LEMMA ReadDirectlyKeeps ==
  ASSUME FlowInv, ReadDirectly
  PROVE  FlowInv'
<1>0. Typed
  BY TypeFacts DEF FlowInv
<1>1. /\ held'["tcl"] = NoBuf
      /\ pc["tcl"] = "merge" /\ ~IsSingleOp(held["tcl"]) /\ ~IsPartial(held["tcl"])
      /\ IsAlert(held["tcl"]) /\ net # <<>>
      /\ pc'["tcl"] \in {"pop", "repost"}
      /\ net' = Rest(net, Smaller(call.want, Len(net)))
      /\ call' = [call EXCEPT !.buf = Merged(First(net, Smaller(call.want, Len(net)))),
                             !.n = Smaller(call.want, Len(net))]
      /\ sent' = sent /\ peer' = peer /\ posted' = posted /\ port' = port
      /\ pending' = pending /\ recvs' = recvs /\ mode' = mode /\ cap' = cap
      /\ unreadCap' = unreadCap /\ need' = need /\ eof' = eof
      /\ delivered' = delivered /\ failed' = failed /\ starved' = starved
      /\ pc'["ct"] = pc["ct"] /\ held'["ct"] = held["ct"]
  BY <1>0 DEF ReadDirectly, Goto, Typed, Threads, netVars, modeVars, outVars
<1>2. /\ call \in CallType /\ call.want \in Nat /\ call.n \in Nat
      /\ call.want > 0 /\ call.n <= call.want /\ call.off = call.n
      /\ call.buf \in Stream /\ Len(call.buf) = call.n
      /\ First(call.buf, call.off) = call.buf /\ First(call.buf, call.n) = call.buf
      /\ Ready /\ held["tcl"] \in Buffer
      /\ held["tcl"].size # 0 => ~HasZero /\ mode # "zero"
      /\ held["tcl"].size = 0 =>
           /\ posted = <<>> /\ port = <<>> /\ pending = <<>> /\ pc["ct"] = "idle"
           /\ held["ct"] = NoBuf /\ Total = 1 /\ Alone
           /\ call.n = 0 /\ call.buf = <<>> /\ held["tcl"].data = <<>>
  BY <1>0, <1>1, InMerge DEF Typed
<1>3. PICK k \in Nat : /\ k = Smaller(call.want, Len(net)) /\ k > 0 /\ k <= call.want
                      /\ First(net, k) \in Stream /\ Rest(net, k) \in Stream
                      /\ Cat(First(net, k), Rest(net, k)) = net
                      /\ Len(First(net, k)) = k /\ net' = Rest(net, k)
  <2> DEFINE j == Smaller(call.want, Len(net))
  <2>1. net \in Stream /\ Len(net) \in Nat /\ Len(net) # 0
    BY <1>0, <1>1, Lengths DEF Typed
  <2>2. j \in Nat /\ j > 0 /\ j <= call.want /\ j <= Len(net)
    BY <1>2, <2>1 DEF Smaller
  <2>3. /\ First(net, j) \in Stream /\ Rest(net, j) \in Stream
        /\ Cat(First(net, j), Rest(net, j)) = net
        /\ j < Len(net) => Len(First(net, j)) = j
        /\ j >= Len(net) => First(net, j) = net
    <3> HIDE DEF j
    <3> QED BY <2>1, <2>2, Cuts
  <2>4. Len(First(net, j)) = j
    BY <2>1, <2>2, <2>3
  <2> QED BY <1>1, <2>2, <2>3, <2>4
<1>4. /\ call' \in CallType /\ call'.n = k /\ call'.n > 0 /\ call'.n <= call'.want
      /\ call'.want = call.want /\ call'.burst = call.burst /\ call'.off = 0
      /\ call'.buf = First(net, k) /\ Len(call'.buf) = call'.n
      /\ First(call'.buf, call'.n) = First(net, k)
  <2>1. Merged(First(net, k)) = First(net, k)
    <3>1. Cat(<<>>, First(net, k)) = First(net, k)
      BY <1>3, Concat
    <3> QED BY <1>1, <1>2, <3>1 DEF Merged, Cat, IsAlert
  <2>2. First(net, k) \in Seq(Units)
    BY <1>3 DEF Stream
  <2>3. /\ call' \in CallType /\ call'.n = k /\ call'.n > 0
        /\ call'.want = call.want /\ call'.off = call.off /\ call'.burst = call.burst
        /\ call'.buf = First(net, k)
    BY <1>1, <1>2, <1>3, <2>1, <2>2 DEF CallType
  <2>4. Len(call'.buf) = call'.n /\ Len(call'.buf) <= call'.n /\ call'.n <= call'.want
    BY <1>2, <1>3, <2>3
  <2>5. First(call'.buf, call'.n) = call'.buf
    BY <2>3, <2>4, CallFacts
  <2> QED BY <1>1, <1>2, <2>3, <2>4, <2>5 DEF IsAlert
<1>5. /\ posted = <<>> /\ port = <<>> /\ pending = <<>> /\ pc["ct"] = "idle"
      /\ held["ct"] = NoBuf /\ call.buf = <<>> /\ held["tcl"].data = <<>> /\ Total' = 0
  <2>1. Len(posted) = 0 /\ Len(port) = 0 /\ Len(pending) = 0
    BY <1>0, <1>1, <1>2 DEF IsAlert, Typed
  <2> QED BY <1>1, <1>2, <2>1 DEF IsAlert, Total, One, PostPlaces
<1>10. pc' \in [Threads -> At] /\ held' \in [Threads -> Buffer]
  BY <1>0, NoBufFacts
     DEF ReadDirectly, Goto, netVars, modeVars, outVars, Typed, Threads, At
<1>11. TypeOK'
  BY <1>0, <1>1, <1>3, <1>4, <1>10 DEF FlowInv, TypeOK, Typed, Stream, Queue, CallType
<1>20. Typed'
  BY <1>11, TypeFacts, PTL
<1>12. Counted'
  BY <1>0, <1>1, <1>2, <1>3, <1>4 DEF FlowInv, Counted, Ready, One, Typed
<1>13. Places'
  BY <1>1, <1>2, <1>4, <1>5 DEF FlowInv, Places, TclPlace, CtPlace, PostPlaces, Ready
<1>14. SoundBuffers'
  <2>1. peer # "reset"
    BY <1>1 DEF FlowInv, SoundBuffers
  <2> QED BY <1>1, <2>1, NoBufFacts DEF FlowInv, SoundBuffers
<1>15. EndIsLast'
  <2>1. ~HasEnd(<<>>) /\ EndsLast(<<>>)
    BY OfEmpty
  <2> QED BY <1>1, <1>5, <2>1, NoBufFacts DEF EndIsLast
<1>16. ZeroIsAlone'
  <2>1. Alone'
    BY <1>1, <1>4, <1>5 DEF Alone
  <2>2. mode = "zero" => AllZero'
    BY <1>1, NoBufFacts DEF FlowInv, ZeroIsAlone, AllZero
  <2> QED BY <1>1, <2>1, <2>2 DEF ZeroIsAlone
<1>17. AlertsAreReady'
  <2>1. ~HasAlert'
    BY <1>1, <1>5, OfEmpty DEF HasAlert
  <2> QED BY <2>1 DEF AlertsAreReady
<1>18. NothingLost'
  <2>0. /\ First(net, k) \in Stream /\ Rest(net, k) \in Stream /\ net \in Stream
        /\ Cat(First(net, k), Rest(net, k)) = net
    BY <1>0, <1>3 DEF Typed
  <2>1. Cat(First(call'.buf, call'.n), Cat(held'["tcl"].data, Cat(Flat(pending),
            Cat(held["ct"].data, Cat(Flat(port), net')))))
          = Cat(First(call.buf, call.n), Cat(held["tcl"].data, Cat(Flat(pending),
              Cat(held["ct"].data, Cat(Flat(port), net)))))
    <3>1. /\ First(call.buf, call.n) = <<>> /\ held["tcl"].data = <<>>
          /\ held'["tcl"].data = <<>> /\ Flat(pending) = <<>> /\ held["ct"].data = <<>>
          /\ Flat(port) = <<>>
      BY <1>1, <1>2, <1>5, NoBufFacts, FlatEmpty
    <3>2. \A x \in Stream : Cat(<<>>, x) = x
      BY Concat
    <3> QED BY <1>3, <1>4, <2>0, <3>1, <3>2
  <2>2. Pieces' = Pieces
    BY <1>1, <2>1 DEF Pieces, Whole
  <2>3. InPieces
    BY <1>0, LostMeansPieces DEF FlowInv
  <2>4. InPieces'
    BY <1>1, <2>2, <2>3 DEF InPieces
  <2> QED BY <1>20, <2>4, LostMeansPieces, PTL
<1>19. EofIsLast'
  BY <1>1 DEF FlowInv, EofIsLast
<1> QED BY <1>11, <1>12, <1>13, <1>14, <1>15, <1>16, <1>17, <1>18, <1>19 DEF FlowInv

\* Buffers without data hold nothing.
LEMMA FlatNothing ==
  ASSUME NEW q \in Queue, NoData(q)
  PROVE  Flat(q) = <<>>
<1> DEFINE S == {n \in Nat : n <= Len(q) => Sum(q)[n] = <<>>}
<1>1. /\ Len(q) \in Nat /\ Sum(q)[0] = <<>>
      /\ \A n \in 1 .. Len(q) : Sum(q)[n] = Sum(q)[n-1] \o q[n].data
      /\ \A n \in 1 .. Len(q) : q[n].data = <<>>
  <2>1. DOMAIN q = 1 .. Len(q)
    BY LenProperties DEF Queue
  <2> QED BY <2>1, SumFacts DEF NoData
<1>2. 0 \in S
  BY <1>1
<1>3. ASSUME NEW n \in Nat, n \in S
      PROVE  n + 1 \in S
  <2> SUFFICES ASSUME n + 1 <= Len(q) PROVE Sum(q)[n + 1] = <<>>
    OBVIOUS
  <2>1. n + 1 \in 1 .. Len(q) /\ (n + 1) - 1 = n /\ n <= Len(q)
    BY <1>1
  <2>2. Sum(q)[n + 1] = <<>> \o <<>>
    BY <1>1, <1>3, <2>1
  <2>3. <<>> \o <<>> = <<>>
    BY FlatEmpty, ConcatEmptySeq DEF Queue
  <2> QED BY <2>2, <2>3
<1>4. \A n \in Nat : n \in S
  <2> HIDE DEF S
  <2> QED BY <1>2, <1>3, SetInduction
<1>5. Len(q) \in S
  BY <1>1, <1>4
<1>6. Sum(q)[Len(q)] = <<>>
  BY <1>1, <1>5
<1> QED BY <1>6, FlatIsSum

LEMMA ReadEofKeeps ==
  ASSUME FlowInv, ReadEof
  PROVE  FlowInv'
<1>0. Typed
  BY TypeFacts DEF FlowInv
<1>1. /\ eof' = TRUE
      /\ pc'["tcl"] = "repost"
      /\ held'["tcl"] = NoBuf
      /\ pc["tcl"] = "merge" /\ ~IsSingleOp(held["tcl"]) /\ ~IsPartial(held["tcl"])
      /\ held["tcl"].err = "none" /\ held["tcl"].data = <<>>
      /\ held["tcl"].size # 0 \/ (net = <<>> /\ peer = "closed")
      /\ call' = [call EXCEPT !.n = 0]
      /\ sent' = sent /\ peer' = peer /\ net' = net /\ posted' = posted
      /\ port' = port /\ pending' = pending /\ recvs' = recvs /\ mode' = mode
      /\ cap' = cap /\ unreadCap' = unreadCap /\ need' = need
      /\ delivered' = delivered /\ failed' = failed /\ starved' = starved
      /\ pc'["ct"] = pc["ct"] /\ held'["ct"] = held["ct"]
  BY <1>0 DEF ReadEof, Goto, Typed, Threads, netVars, modeVars, outVars
<1>2. /\ call \in CallType /\ call.want \in Nat /\ call.n \in Nat
      /\ call.want > 0 /\ call.n <= call.want /\ call.off = call.n
      /\ call.buf \in Stream /\ Len(call.buf) = call.n
      /\ First(call.buf, call.off) = call.buf /\ First(call.buf, call.n) = call.buf
      /\ Ready /\ held["tcl"] \in Buffer
      /\ held["tcl"].size # 0 => ~HasZero /\ mode # "zero"
      /\ held["tcl"].size = 0 =>
           /\ posted = <<>> /\ port = <<>> /\ pending = <<>> /\ pc["ct"] = "idle"
           /\ held["ct"] = NoBuf /\ Total = 1 /\ Alone
           /\ call.n = 0 /\ call.buf = <<>> /\ held["tcl"].data = <<>>
  BY <1>0, <1>1, InMerge DEF Typed
<1>3. /\ call.n = 0 /\ First(call.buf, call.n) = <<>> /\ held["tcl"].data = <<>>
  BY <1>1, <1>2, CallFacts DEF IsSingleOp, IsAlert, FlowInv, SoundBuffers, Sound
<1>4. /\ call' \in CallType /\ call'.n = 0 /\ call'.want = call.want
      /\ call'.burst = call.burst /\ First(call'.buf, call'.n) = <<>>
  <2>1. /\ call' \in CallType /\ call'.n = 0 /\ call'.want = call.want
        /\ call'.burst = call.burst
    BY <1>1, <1>2 DEF CallType
  <2> QED BY <2>1, CallFacts
<1>5. /\ peer = "closed" /\ net = <<>> /\ Flat(pending) = <<>> /\ held["ct"].data = <<>>
      /\ Flat(port) = <<>>
  <2>1. CASE held["tcl"].size # 0
    <3>1. IsEnd(held["tcl"])
      <4>1. held["tcl"].size \in Nat
        BY <1>0 DEF Typed
      <4> QED BY <1>1, <2>1, <4>1 DEF IsEnd
    <3>2. /\ peer = "closed" /\ net = <<>> /\ NoData(pending) /\ held["ct"].data = <<>>
          /\ NoData(port)
      BY <3>1 DEF FlowInv, EndIsLast
    <3>3. pending \in Queue /\ port \in Queue
      BY <1>0 DEF Typed
    <3> QED BY <3>2, <3>3, FlatNothing
  <2>2. CASE held["tcl"].size = 0
    BY <1>1, <1>2, <2>2, FlatEmpty, NoBufFacts
  <2> QED BY <2>1, <2>2
<1>6. Total' = Total - 1 /\ Total \in Nat /\ Total >= 1
  BY <1>0, <1>1 DEF Total, One, PostPlaces, Typed
<1>10. pc' \in [Threads -> At] /\ held' \in [Threads -> Buffer]
  BY <1>0, NoBufFacts DEF ReadEof, Goto, netVars, modeVars, outVars, Typed, Threads, At
<1>11. TypeOK'
  BY <1>0, <1>1, <1>4, <1>10 DEF FlowInv, TypeOK, Typed, Stream, Queue, CallType
<1>20. Typed'
  BY <1>11, TypeFacts, PTL
<1>12. Counted'
  BY <1>0, <1>1, <1>2, <1>3, <1>4 DEF FlowInv, Counted, Ready, One, Typed
<1>13. Places'
  BY <1>1, <1>2, <1>4, <1>6 DEF FlowInv, Places, TclPlace, CtPlace, PostPlaces, Ready
<1>14. SoundBuffers'
  BY <1>0, <1>1, <1>2, <1>3, <1>4, NoBufFacts DEF FlowInv, SoundBuffers, Both, Typed
<1>15. EndIsLast'
  BY <1>0, <1>1, <1>2, <1>3, <1>4, NoBufFacts DEF FlowInv, EndIsLast, Both, Typed
<1>16. ZeroIsAlone'
  <2>1. CASE held["tcl"].size # 0
    <3>1. ~HasZero' /\ mode' # "zero"
      BY <1>1, <1>2, <2>1 DEF HasZero
    <3> QED BY <3>1 DEF ZeroIsAlone
  <2>2. CASE held["tcl"].size = 0
    <3>1. Alone'
      BY <1>1, <1>2, <1>6, <2>2 DEF Alone
    <3>2. mode = "zero" => AllZero'
      BY <1>1, NoBufFacts DEF FlowInv, ZeroIsAlone, AllZero
    <3> QED BY <1>1, <3>1, <3>2 DEF ZeroIsAlone
  <2> QED BY <2>1, <2>2
<1>17. AlertsAreReady'
  BY <1>1, <1>5 DEF AlertsAreReady
<1>18. NothingLost'
  <2>1. First(call'.buf, call'.n) = First(call.buf, call.n)
        /\ held'["tcl"].data = held["tcl"].data
    BY <1>1, <1>3, <1>4, NoBufFacts
  <2>2. Pieces' = Pieces
    BY <1>1, <2>1 DEF Pieces, Whole
  <2>3. InPieces
    BY <1>0, LostMeansPieces DEF FlowInv
  <2>4. InPieces'
    BY <1>1, <2>2, <2>3 DEF InPieces
  <2> QED BY <1>20, <2>4, LostMeansPieces, PTL
<1>19. EofIsLast'
  <2>1. /\ Pieces = Cat(delivered, Cat(<<>>, Cat(<<>>, Cat(<<>>, Cat(<<>>, Cat(<<>>, <<>>))))))
        /\ delivered \in Stream
    BY <1>0, <1>3, <1>5 DEF Pieces, Whole, Typed
  <2>2. Pieces = delivered
    BY <2>1, Concat
  <2>3. InPieces
    BY <1>0, LostMeansPieces DEF FlowInv
  <2> QED BY <1>1, <1>5, <2>2, <2>3 DEF EofIsLast, InPieces
<1> QED BY <1>11, <1>12, <1>13, <1>14, <1>15, <1>16, <1>17, <1>18, <1>19 DEF FlowInv

LEMMA ReadErrorKeeps ==
  ASSUME FlowInv, ReadError
  PROVE  FlowInv'
<1>0. Typed
  BY TypeFacts DEF FlowInv
<1>1. /\ failed' = TRUE
      /\ call' = NoCall
      /\ pc'["tcl"] = "idle"
      /\ held'["tcl"] = NoBuf
      /\ pc["tcl"] = "merge" /\ ~IsSingleOp(held["tcl"]) /\ ~IsPartial(held["tcl"])
      /\ held["tcl"].err # "none" \/ IsAlert(held["tcl"])
      /\ sent' = sent /\ peer' = peer /\ net' = net /\ posted' = posted
      /\ port' = port /\ pending' = pending /\ recvs' = recvs /\ mode' = mode
      /\ cap' = cap /\ unreadCap' = unreadCap /\ need' = need /\ eof' = eof
      /\ delivered' = delivered /\ starved' = starved /\ pc'["ct"] = pc["ct"]
      /\ held'["ct"] = held["ct"]
  BY <1>0 DEF ReadError, Goto, Typed, Threads, netVars, modeVars, outVars
<1>2. /\ call \in CallType /\ call.want \in Nat /\ call.n \in Nat
      /\ call.want > 0 /\ call.n <= call.want /\ call.off = call.n
      /\ call.buf \in Stream /\ Len(call.buf) = call.n
      /\ First(call.buf, call.off) = call.buf /\ First(call.buf, call.n) = call.buf
      /\ Ready /\ held["tcl"] \in Buffer
      /\ held["tcl"].size # 0 => ~HasZero /\ mode # "zero"
      /\ held["tcl"].size = 0 =>
           /\ posted = <<>> /\ port = <<>> /\ pending = <<>> /\ pc["ct"] = "idle"
           /\ held["ct"] = NoBuf /\ Total = 1 /\ Alone
           /\ call.n = 0 /\ call.buf = <<>> /\ held["tcl"].data = <<>>
  BY <1>0, <1>1, InMerge DEF Typed
<1>3. /\ call.n = 0 /\ First(call.buf, call.n) = <<>> /\ held["tcl"].data = <<>>
  BY <1>1, <1>2, CallFacts DEF IsSingleOp, IsAlert, FlowInv, SoundBuffers, Sound
<1>4. Total' = Total - 1 /\ Total \in Nat /\ Total >= 1
  BY <1>0, <1>1 DEF Total, One, PostPlaces, Typed
<1>10. pc' \in [Threads -> At] /\ held' \in [Threads -> Buffer]
  BY <1>0, NoBufFacts DEF ReadError, Goto, netVars, modeVars, outVars, Typed, Threads, At
<1>11. TypeOK'
  BY <1>0, <1>1, <1>10, CallFacts DEF FlowInv, TypeOK, Typed, Stream, Queue, CallType
<1>20. Typed'
  BY <1>11, TypeFacts, PTL
<1>12. Counted'
  BY <1>0, <1>1, <1>2, <1>3 DEF FlowInv, Counted, Ready, One, Typed
<1>13. Places'
  BY <1>1, <1>2 DEF FlowInv, Places, TclPlace, CtPlace, PostPlaces, Ready
<1>14. SoundBuffers'
  BY <1>0, <1>1, <1>2, <1>3, NoBufFacts DEF FlowInv, SoundBuffers, Both, Typed
<1>15. EndIsLast'
  BY <1>0, <1>1, <1>2, <1>3, NoBufFacts DEF FlowInv, EndIsLast, Both, Typed
<1>16. ZeroIsAlone'
  <2>1. HasZero' => HasZero
    BY <1>1 DEF HasZero
  <2>2. mode = "zero" => AllZero'
    BY <1>1, NoBufFacts DEF FlowInv, ZeroIsAlone, AllZero
  <2>3. Alone => Alone'
    BY <1>1, <1>4 DEF Alone
  <2> QED BY <1>1, <1>2, <2>1, <2>2, <2>3 DEF FlowInv, ZeroIsAlone
<1>17. AlertsAreReady'
  BY <1>0, <1>1, <1>2, <1>3, NoBufFacts
     DEF FlowInv, AlertsAreReady, HasAlert, Ready, Both, Typed
<1>18. NothingLost'
  <2>1. First(call'.buf, call'.n) = First(call.buf, call.n)
        /\ held'["tcl"].data = held["tcl"].data
    BY <1>1, <1>3, CallFacts, NoBufFacts
  <2>2. Pieces' = Pieces
    BY <1>1, <2>1 DEF Pieces, Whole
  <2>3. InPieces
    BY <1>0, LostMeansPieces DEF FlowInv
  <2>4. InPieces'
    BY <1>1, <2>2, <2>3 DEF InPieces
  <2> QED BY <1>20, <2>4, LostMeansPieces, PTL
<1>19. EofIsLast'
  BY <1>1 DEF FlowInv, EofIsLast
<1> QED BY <1>11, <1>12, <1>13, <1>14, <1>15, <1>16, <1>17, <1>18, <1>19 DEF FlowInv
-----------------------------------------------------------------------------
(* RepostRecvs, the end of IocpInputProc, and the modes                     *)

\* What the peer has sent is all there is.
LEMMA EofMeansAll ==
  ASSUME FlowInv, eof
  PROVE  First(call.buf, call.n) = <<>>
<1> DEFINE c == First(call.buf, call.n)
           t == Cat(held["tcl"].data, Cat(Flat(pending), Cat(held["ct"].data,
                  Cat(Flat(port), net))))
<1>0. Typed
  BY TypeFacts DEF FlowInv
<1>1. c \in Stream /\ t \in Stream /\ delivered \in Stream /\ Cat(c, t) \in Stream
  BY <1>0, Concat DEF Typed
<1>2. Cat(delivered, Cat(c, t)) = [i \in 1 .. sent |-> i]
  BY <1>0, LostMeansPieces DEF FlowInv, InPieces, Pieces, Whole
<1>3. delivered = [i \in 1 .. sent |-> i]
  BY DEF FlowInv, EofIsLast
<1> HIDE DEF c, t
<1>4. Len(delivered) = Len(delivered) + (Len(c) + Len(t))
  <2>1. delivered = Cat(delivered, Cat(c, t))
    BY <1>2, <1>3
  <2>2. /\ Len(Cat(delivered, Cat(c, t))) = Len(delivered) + Len(Cat(c, t))
        /\ Len(Cat(c, t)) = Len(c) + Len(t)
    BY <1>1, Lengths
  <2> QED BY <2>1, <2>2
<1>5. Len(c) = 0
  BY <1>1, <1>4, Lengths
<1>6. c = <<>>
  BY <1>1, <1>5, Lengths
<1> QED BY <1>6 DEF c

LEMMA PostCountTclGoKeeps ==
  ASSUME FlowInv, pc'["tcl"] \notin {"clear", "idle"}, PostCount("tcl")
  PROVE  FlowInv'
<1>0. Typed
  BY TypeFacts DEF FlowInv
<1>1. /\ recvs' = recvs + 1
      /\ pc["tcl"] = "count" /\ pc'["tcl"] \in {"back", "call"}
      /\ sent' = sent /\ peer' = peer /\ net' = net /\ posted' = posted
      /\ port' = port /\ pending' = pending /\ mode' = mode /\ cap' = cap
      /\ unreadCap' = unreadCap /\ need' = need /\ eof' = eof
      /\ delivered' = delivered /\ failed' = failed /\ starved' = starved
      /\ call' = call /\ pc'["ct"] = pc["ct"] /\ held'["tcl"] = held["tcl"]
      /\ held'["ct"] = held["ct"]
  BY <1>0
     DEF PostCount, Return, Hand, Burst, Typed, Threads, Goto, netVars, modeVars, outVars
<1>10. pc' \in [Threads -> At] /\ held' \in [Threads -> Buffer]
  BY <1>0
     DEF PostCount, Return, Hand, Burst, Goto, netVars, modeVars, outVars, Typed,
         Threads, At
<1>11. TypeOK'
  BY <1>0, <1>1, <1>10 DEF FlowInv, TypeOK, Typed, Stream, Queue
<1>20. Typed'
  BY <1>11, TypeFacts, PTL
<1>12. Counted'
  BY <1>0, <1>1 DEF FlowInv, Counted, Ready, One, Typed
<1>13. Places'
  BY <1>0, <1>1
     DEF FlowInv, Places, TclPlace, CtPlace, Total, PostPlaces, One, Ready, Typed
<1>14. SoundBuffers'
  BY <1>0, <1>1, NoBufFacts DEF FlowInv, SoundBuffers, Typed
<1>15. EndIsLast'
  BY <1>0, <1>1, NoBufFacts DEF FlowInv, EndIsLast, Typed
<1>16. ZeroIsAlone'
  BY <1>0, <1>1, NoBufFacts
     DEF FlowInv, ZeroIsAlone, AllZero, HasZero, Alone, Total, Ready, One, PostPlaces,
         Places, TclPlace, CtPlace, Typed
<1>17. AlertsAreReady'
  BY <1>0, <1>1, NoBufFacts DEF FlowInv, AlertsAreReady, HasAlert, Ready, Typed
<1>18. NothingLost'
  BY <1>1 DEF FlowInv, NothingLost
<1>19. EofIsLast'
  BY <1>1 DEF FlowInv, EofIsLast
<1> QED BY <1>11, <1>12, <1>13, <1>14, <1>15, <1>16, <1>17, <1>18, <1>19 DEF FlowInv

LEMMA PostCountTclClearKeeps ==
  ASSUME FlowInv, pc'["tcl"] = "clear", PostCount("tcl")
  PROVE  FlowInv'
<1>0. Typed
  BY TypeFacts DEF FlowInv
<1>1. /\ pc'["tcl"] = "clear"
      /\ pc["tcl"] = "count" /\ call.burst
      /\ sent' = sent /\ peer' = peer /\ net' = net /\ posted' = posted
      /\ port' = port /\ pending' = pending /\ recvs' = recvs /\ mode' = mode
      /\ cap' = cap /\ unreadCap' = unreadCap /\ need' = need /\ eof' = eof
      /\ delivered' = delivered /\ failed' = failed /\ starved' = starved
      /\ call' = call /\ pc'["ct"] = pc["ct"] /\ held'["tcl"] = held["tcl"]
      /\ held'["ct"] = held["ct"]
  BY <1>0
     DEF PostCount, Return, Hand, Burst, Typed, Threads, Goto, netVars, modeVars, outVars
<1>10. pc' \in [Threads -> At] /\ held' \in [Threads -> Buffer]
  BY <1>0
     DEF PostCount, Return, Hand, Burst, Goto, netVars, modeVars, outVars, Typed,
         Threads, At
<1>11. TypeOK'
  BY <1>0, <1>1, <1>10 DEF FlowInv, TypeOK, Typed, Stream, Queue
<1>20. Typed'
  BY <1>11, TypeFacts, PTL
<1>12. Counted'
  BY <1>0, <1>1 DEF FlowInv, Counted, Ready, One, Typed
<1>13. Places'
  BY <1>0, <1>1
     DEF FlowInv, Places, TclPlace, CtPlace, Total, PostPlaces, One, Ready, Typed
<1>14. SoundBuffers'
  BY <1>0, <1>1, NoBufFacts DEF FlowInv, SoundBuffers, Typed
<1>15. EndIsLast'
  BY <1>0, <1>1, NoBufFacts DEF FlowInv, EndIsLast, Typed
<1>16. ZeroIsAlone'
  BY <1>0, <1>1, NoBufFacts
     DEF FlowInv, ZeroIsAlone, AllZero, HasZero, Alone, Total, Ready, One, PostPlaces,
         Places, TclPlace, CtPlace, Typed
<1>17. AlertsAreReady'
  BY <1>0, <1>1, NoBufFacts DEF FlowInv, AlertsAreReady, HasAlert, Ready, Typed
<1>18. NothingLost'
  BY <1>1 DEF FlowInv, NothingLost
<1>19. EofIsLast'
  BY <1>1 DEF FlowInv, EofIsLast
<1> QED BY <1>11, <1>12, <1>13, <1>14, <1>15, <1>16, <1>17, <1>18, <1>19 DEF FlowInv

LEMMA PostCountTclIdleKeeps ==
  ASSUME FlowInv, pc'["tcl"] = "idle", PostCount("tcl")
  PROVE  FlowInv'
<1>0. Typed
  BY TypeFacts DEF FlowInv
<1>1. /\ delivered' = Cat(delivered, First(call.buf, call.n))
      /\ call' = NoCall
      /\ pc'["tcl"] = "idle"
      /\ pc["tcl"] = "count"
      /\ sent' = sent /\ peer' = peer /\ net' = net /\ posted' = posted
      /\ port' = port /\ pending' = pending /\ recvs' = recvs /\ mode' = mode
      /\ cap' = cap /\ unreadCap' = unreadCap /\ need' = need /\ eof' = eof
      /\ failed' = failed /\ starved' = starved /\ pc'["ct"] = pc["ct"]
      /\ held'["tcl"] = held["tcl"] /\ held'["ct"] = held["ct"]
  BY <1>0
     DEF FlowInv, TypeOK, Places, Ready, PostCount, Return, Hand, Burst, Cat, Goto,
         Typed, Threads, netVars, modeVars, outVars
<1>10. pc' \in [Threads -> At] /\ held' \in [Threads -> Buffer]
  BY <1>0
     DEF PostCount, Return, Hand, Burst, Goto, netVars, modeVars, outVars, Typed,
         Threads, At
<1>11. TypeOK'
  <2>1. Cat(delivered, First(call.buf, call.n)) \in Stream
    BY <1>0, Concat DEF Typed
  <2> QED BY <1>0, <1>1, <1>10, <2>1, CallFacts
      DEF FlowInv, TypeOK, Typed, Stream, Queue, CallType
<1>20. Typed'
  BY <1>11, TypeFacts, PTL
<1>12. Counted'
  BY <1>0, <1>1 DEF FlowInv, Counted, Ready, One, Typed
<1>13. Places'
  BY <1>1 DEF FlowInv, Places, TclPlace, CtPlace, PostPlaces, Ready
<1>14. SoundBuffers'
  BY <1>0, <1>1, NoBufFacts DEF FlowInv, SoundBuffers, Typed
<1>15. EndIsLast'
  BY <1>0, <1>1, NoBufFacts DEF FlowInv, EndIsLast, Typed
<1>16. ZeroIsAlone'
  <2>1. Total' = Total - 1 /\ Total \in Nat
    BY <1>0, <1>1 DEF Total, One, PostPlaces, Typed
  <2>2. Alone => Alone'
    BY <1>0, <1>1, <2>1 DEF Alone
  <2>3. HasZero' => HasZero
    BY <1>1 DEF HasZero
  <2> QED BY <1>1, <2>2, <2>3 DEF FlowInv, ZeroIsAlone, AllZero, Ready
<1>17. AlertsAreReady'
  BY <1>0, <1>1, NoBufFacts DEF FlowInv, AlertsAreReady, HasAlert, Ready, Typed
<1>18. NothingLost'
  <2> DEFINE c == First(call.buf, call.n)
             t == Cat(held["tcl"].data, Cat(Flat(pending), Cat(held["ct"].data,
                    Cat(Flat(port), net))))
  <2>0. t \in Stream /\ c \in Stream /\ delivered \in Stream
    BY <1>0, Concat DEF Typed
  <2>1. Cat(Cat(delivered, c), Cat(<<>>, t)) = Cat(delivered, Cat(c, t))
    <3> HIDE DEF c, t
    <3> QED BY <2>0, Concat
  <2>2. Pieces' = Pieces
    BY <1>1, <2>1, CallFacts DEF Pieces, Whole
  <2>3. InPieces
    BY <1>0, LostMeansPieces DEF FlowInv
  <2>4. InPieces'
    BY <1>1, <2>2, <2>3 DEF InPieces
  <2> QED BY <1>20, <2>4, LostMeansPieces, PTL
<1>19. EofIsLast'
  <2>1. eof => First(call.buf, call.n) = <<>>
    BY EofMeansAll
  <2>2. Cat(delivered, <<>>) = delivered
    BY <1>0, Concat DEF Typed
  <2> QED BY <1>1, <2>1, <2>2 DEF FlowInv, EofIsLast
<1> QED BY <1>11, <1>12, <1>13, <1>14, <1>15, <1>16, <1>17, <1>18, <1>19 DEF FlowInv

LEMMA CountKeeps == ASSUME FlowInv, NEW t \in Threads, PostCount(t) PROVE FlowInv'
BY PostCountCtKeeps, PostCountTclGoKeeps, PostCountTclClearKeeps, PostCountTclIdleKeeps
   DEF Threads

LEMMA PostBackTclClearKeeps ==
  ASSUME FlowInv, pc'["tcl"] = "clear", PostBack("tcl")
  PROVE  FlowInv'
<1>0. Typed
  BY TypeFacts DEF FlowInv
<1>1. /\ recvs' = recvs - 1
      /\ pc'["tcl"] = "clear"
      /\ pc["tcl"] = "back" /\ call.burst
      /\ sent' = sent /\ peer' = peer /\ net' = net /\ posted' = posted
      /\ port' = port /\ pending' = pending /\ mode' = mode /\ cap' = cap
      /\ unreadCap' = unreadCap /\ need' = need /\ eof' = eof
      /\ delivered' = delivered /\ failed' = failed /\ starved' = starved
      /\ call' = call /\ pc'["ct"] = pc["ct"] /\ held'["tcl"] = held["tcl"]
      /\ held'["ct"] = held["ct"]
  BY <1>0
     DEF PostBack, Return, Hand, Burst, Typed, Threads, Goto, netVars, modeVars, outVars
<1>10. pc' \in [Threads -> At] /\ held' \in [Threads -> Buffer]
  BY <1>0
     DEF PostBack, Return, Hand, Burst, Goto, netVars, modeVars, outVars, Typed, Threads,
         At
<1>11. TypeOK'
  <2>1. recvs - 1 \in Nat
    BY <1>0, <1>1 DEF FlowInv, Counted, Ready, Places, One, Typed
  <2> QED BY <1>0, <1>1, <1>10, <2>1 DEF FlowInv, TypeOK, Typed, Stream, Queue
<1>20. Typed'
  BY <1>11, TypeFacts, PTL
<1>12. Counted'
  BY <1>0, <1>1 DEF FlowInv, Counted, Ready, One, Typed
<1>13. Places'
  BY <1>0, <1>1
     DEF FlowInv, Places, TclPlace, CtPlace, Total, PostPlaces, One, Ready, Typed
<1>14. SoundBuffers'
  BY <1>0, <1>1, NoBufFacts DEF FlowInv, SoundBuffers, Typed
<1>15. EndIsLast'
  BY <1>0, <1>1, NoBufFacts DEF FlowInv, EndIsLast, Typed
<1>16. ZeroIsAlone'
  BY <1>0, <1>1, NoBufFacts
     DEF FlowInv, ZeroIsAlone, AllZero, HasZero, Alone, Total, Ready, One, PostPlaces,
         Places, TclPlace, CtPlace, Typed
<1>17. AlertsAreReady'
  BY <1>0, <1>1, NoBufFacts DEF FlowInv, AlertsAreReady, HasAlert, Ready, Typed
<1>18. NothingLost'
  BY <1>1 DEF FlowInv, NothingLost
<1>19. EofIsLast'
  BY <1>1 DEF FlowInv, EofIsLast
<1> QED BY <1>11, <1>12, <1>13, <1>14, <1>15, <1>16, <1>17, <1>18, <1>19 DEF FlowInv

LEMMA PostBackTclIdleKeeps ==
  ASSUME FlowInv, pc'["tcl"] = "idle", PostBack("tcl")
  PROVE  FlowInv'
<1>0. Typed
  BY TypeFacts DEF FlowInv
<1>1. /\ recvs' = recvs - 1
      /\ delivered' = Cat(delivered, First(call.buf, call.n))
      /\ call' = NoCall
      /\ pc'["tcl"] = "idle"
      /\ pc["tcl"] = "back"
      /\ sent' = sent /\ peer' = peer /\ net' = net /\ posted' = posted
      /\ port' = port /\ pending' = pending /\ mode' = mode /\ cap' = cap
      /\ unreadCap' = unreadCap /\ need' = need /\ eof' = eof
      /\ failed' = failed /\ starved' = starved /\ pc'["ct"] = pc["ct"]
      /\ held'["tcl"] = held["tcl"] /\ held'["ct"] = held["ct"]
  BY <1>0
     DEF FlowInv, TypeOK, Places, Ready, PostBack, Return, Hand, Burst, Cat, Goto, Typed,
         Threads, netVars, modeVars, outVars
<1>10. pc' \in [Threads -> At] /\ held' \in [Threads -> Buffer]
  BY <1>0
     DEF PostBack, Return, Hand, Burst, Goto, netVars, modeVars, outVars, Typed, Threads,
         At
<1>11. TypeOK'
  <2>1. Cat(delivered, First(call.buf, call.n)) \in Stream
    BY <1>0, Concat DEF Typed
  <2>2. recvs - 1 \in Nat
    BY <1>0, <1>1 DEF FlowInv, Counted, Ready, Places, One, Typed
  <2> QED BY <1>0, <1>1, <1>10, <2>1, <2>2, CallFacts
      DEF FlowInv, TypeOK, Typed, Stream, Queue, CallType
<1>20. Typed'
  BY <1>11, TypeFacts, PTL
<1>12. Counted'
  BY <1>0, <1>1 DEF FlowInv, Counted, Ready, One, Typed
<1>13. Places'
  BY <1>1 DEF FlowInv, Places, TclPlace, CtPlace, PostPlaces, Ready
<1>14. SoundBuffers'
  BY <1>0, <1>1, NoBufFacts DEF FlowInv, SoundBuffers, Typed
<1>15. EndIsLast'
  BY <1>0, <1>1, NoBufFacts DEF FlowInv, EndIsLast, Typed
<1>16. ZeroIsAlone'
  <2>1. Total' = Total - 1 /\ Total \in Nat
    BY <1>0, <1>1 DEF Total, One, PostPlaces, Typed
  <2>2. Alone => Alone'
    BY <1>0, <1>1, <2>1 DEF Alone
  <2>3. HasZero' => HasZero
    BY <1>1 DEF HasZero
  <2> QED BY <1>1, <2>2, <2>3 DEF FlowInv, ZeroIsAlone, AllZero, Ready
<1>17. AlertsAreReady'
  BY <1>0, <1>1, NoBufFacts DEF FlowInv, AlertsAreReady, HasAlert, Ready, Typed
<1>18. NothingLost'
  <2> DEFINE c == First(call.buf, call.n)
             t == Cat(held["tcl"].data, Cat(Flat(pending), Cat(held["ct"].data,
                    Cat(Flat(port), net))))
  <2>0. t \in Stream /\ c \in Stream /\ delivered \in Stream
    BY <1>0, Concat DEF Typed
  <2>1. Cat(Cat(delivered, c), Cat(<<>>, t)) = Cat(delivered, Cat(c, t))
    <3> HIDE DEF c, t
    <3> QED BY <2>0, Concat
  <2>2. Pieces' = Pieces
    BY <1>1, <2>1, CallFacts DEF Pieces, Whole
  <2>3. InPieces
    BY <1>0, LostMeansPieces DEF FlowInv
  <2>4. InPieces'
    BY <1>1, <2>2, <2>3 DEF InPieces
  <2> QED BY <1>20, <2>4, LostMeansPieces, PTL
<1>19. EofIsLast'
  <2>1. eof => First(call.buf, call.n) = <<>>
    BY EofMeansAll
  <2>2. Cat(delivered, <<>>) = delivered
    BY <1>0, Concat DEF Typed
  <2> QED BY <1>1, <2>1, <2>2 DEF FlowInv, EofIsLast
<1> QED BY <1>11, <1>12, <1>13, <1>14, <1>15, <1>16, <1>17, <1>18, <1>19 DEF FlowInv

LEMMA BackKeeps == ASSUME FlowInv, NEW t \in Threads, PostBack(t) PROVE FlowInv'
<1>1. PostBack("tcl") => pc'["tcl"] \in {"clear", "idle"}
  BY TypeFacts DEF FlowInv, PostBack, Return, Burst, Typed, Goto, Threads
<1> QED BY <1>1, PostBackCtKeeps, PostBackTclClearKeeps, PostBackTclIdleKeeps DEF Threads

LEMMA PostCallTclStayKeeps ==
  ASSUME FlowInv, pc'["tcl"] # "idle", PostCall("tcl")
  PROVE  FlowInv'
<1>0. Typed
  BY TypeFacts DEF FlowInv
<1>1. /\ pc["tcl"] = "call" /\ pc'["tcl"] \in {"count", "clear"} /\ Ready /\ call.burst
      /\ IF posted = <<>> /\ (net # <<>> \/ peer # "open")
           THEN /\ port' = Append(port, Completion(SizeFor("tcl")))
                /\ net' = Rest(net, SizeFor("tcl"))
                /\ UNCHANGED posted
           ELSE /\ posted' = Append(posted, SizeFor("tcl"))
                /\ UNCHANGED <<port, net>>
      /\ sent' = sent /\ peer' = peer /\ pending' = pending /\ recvs' = recvs
      /\ mode' = mode /\ cap' = cap /\ unreadCap' = unreadCap /\ need' = need
      /\ eof' = eof /\ delivered' = delivered /\ failed' = failed
      /\ starved' = starved /\ call' = call /\ pc'["ct"] = pc["ct"]
      /\ held'["tcl"] = held["tcl"] /\ held'["ct"] = held["ct"]
  BY <1>0
     DEF FlowInv, Places, Ready, PostCall, Return, Hand, Burst, Goto, Typed, Threads,
         netVars, modeVars, outVars
<1>9. PICK k \in Nat :
        /\ k # 0
        /\ IF posted = <<>> /\ (net # <<>> \/ peer # "open")
             THEN /\ port' = Append(port, Completion(k))
                  /\ net' = Rest(net, k)
                  /\ UNCHANGED posted
             ELSE /\ posted' = Append(posted, k)
                  /\ UNCHANGED <<port, net>>
  BY <1>0, <1>1 DEF SizeFor, Burst, Typed
<1>2. /\ posted' \in Seq(Nat) /\ port' \in Queue /\ net' \in Stream
      /\ Flat(port') \in Stream
      /\ Len(posted') \in Nat /\ Len(port') \in Nat
      /\ Len(posted') + Len(port') = Len(posted) + Len(port) + 1
      /\ Cat(Flat(port'), net') = Cat(Flat(port), net)
      /\ ZeroPosted(posted') \/ ZeroIn(port') => ZeroPosted(posted) \/ ZeroIn(port) \/ k = 0
      /\ AlertIn(port') => AlertIn(port) \/ (k = 0 /\ (net # <<>> \/ peer # "open"))
      /\ OnlyZeroPosted(posted) /\ OnlyZero(port) /\ k = 0 =>
           OnlyZeroPosted(posted') /\ OnlyZero(port')
      /\ k = 0 => net' = net
      /\ net = <<>> => net' = <<>>
      /\ AllSound(port) => AllSound(port')
      /\ HasEnd(port') => HasEnd(port) \/ (peer = "closed" /\ net = <<>>)
      /\ EndsLast(port) /\ (HasEnd(port) => net = <<>>) => EndsLast(port')
      /\ NoData(port) /\ net = <<>> => NoData(port')
  BY <1>9, Posts
<1>3. ~HasZero /\ ~HasAlert
  BY <1>0, <1>1, NoZeroElsewhere DEF PostPlaces
<1>10. pc' \in [Threads -> At] /\ held' \in [Threads -> Buffer]
  BY <1>0, <1>2
     DEF PostCall, Return, Hand, Burst, Goto, netVars, modeVars, outVars, Typed, Threads,
         At
<1>11. TypeOK'
  BY <1>0, <1>1, <1>2, <1>10 DEF FlowInv, TypeOK, Typed, Stream, Queue
<1>20. Typed'
  BY <1>11, TypeFacts, PTL
<1>12. Counted'
  <2>1. recvs = Len(posted) + Len(port) + 1 + One(pc["ct"] \in {"call", "back"})
    BY <1>0, <1>1 DEF FlowInv, Counted, One, Typed
  <2>2. /\ Len(posted) \in Nat /\ Len(port) \in Nat /\ Len(posted') \in Nat
        /\ Len(port') \in Nat /\ recvs' = recvs /\ pc'["ct"] = pc["ct"]
        /\ Len(posted') + Len(port') = Len(posted) + Len(port) + 1
        /\ pc'["tcl"] \notin {"call", "back"}
    BY <1>0, <1>1, <1>2 DEF Typed
  <2> QED BY <2>1, <2>2 DEF Counted, One
<1>13. Places'
  BY <1>1 DEF FlowInv, Places, TclPlace, CtPlace, PostPlaces, Ready
<1>14. SoundBuffers'
  BY <1>0, <1>1, <1>2, NoBufFacts DEF FlowInv, SoundBuffers, Both, Typed
<1>15. EndIsLast'
  BY <1>0, <1>1, <1>2, NoBufFacts DEF FlowInv, EndIsLast, Both, Typed
<1>16. ZeroIsAlone'
  <2>1. ~HasZero'
    BY <1>1, <1>2, <1>3, <1>9 DEF HasZero
  <2>2. mode' # "zero"
    BY <1>1 DEF FlowInv, Places, TclPlace, PostPlaces
  <2> QED BY <2>1, <2>2 DEF ZeroIsAlone
<1>17. AlertsAreReady'
  <2>1. ~HasAlert'
    BY <1>1, <1>2, <1>3, <1>9 DEF HasAlert
  <2> QED BY <2>1 DEF AlertsAreReady
<1>18. NothingLost'
  <2>1. Cat(Flat(port'), net') = Cat(Flat(port), net)
    BY <1>0, <1>2, Concat DEF Typed
  <2>2. Pieces' = Pieces
    BY <1>1, <1>2, <2>1 DEF Pieces, Whole
  <2>3. InPieces
    BY <1>0, LostMeansPieces DEF FlowInv
  <2>4. InPieces'
    BY <1>1, <2>2, <2>3 DEF InPieces
  <2> QED BY <1>20, <2>4, LostMeansPieces, PTL
<1>19. EofIsLast'
  BY <1>1 DEF FlowInv, EofIsLast
<1> QED BY <1>11, <1>12, <1>13, <1>14, <1>15, <1>16, <1>17, <1>18, <1>19 DEF FlowInv

LEMMA PostCallTclIdleKeeps ==
  ASSUME FlowInv, pc'["tcl"] = "idle", PostCall("tcl")
  PROVE  FlowInv'
<1>0. Typed
  BY TypeFacts DEF FlowInv
<1>1. /\ delivered' = Cat(delivered, First(call.buf, call.n))
      /\ call' = NoCall
      /\ pc'["tcl"] = "idle"
      /\ pc["tcl"] = "call" /\ Ready /\ ~call.burst
      /\ IF posted = <<>> /\ (net # <<>> \/ peer # "open")
           THEN /\ port' = Append(port, Completion(SizeFor("tcl")))
                /\ net' = Rest(net, SizeFor("tcl"))
                /\ UNCHANGED posted
           ELSE /\ posted' = Append(posted, SizeFor("tcl"))
                /\ UNCHANGED <<port, net>>
      /\ sent' = sent /\ peer' = peer /\ pending' = pending /\ recvs' = recvs
      /\ mode' = mode /\ cap' = cap /\ unreadCap' = unreadCap /\ need' = need
      /\ eof' = eof /\ failed' = failed /\ starved' = starved
      /\ pc'["ct"] = pc["ct"] /\ held'["tcl"] = held["tcl"]
      /\ held'["ct"] = held["ct"]
  BY <1>0
     DEF FlowInv, TypeOK, Places, Ready, PostCall, Return, Hand, Burst, Cat, Goto, Typed,
         Threads, netVars, modeVars, outVars
<1>9. PICK k \in Nat :
        /\ k = 0 <=> mode = "zero"
        /\ IF posted = <<>> /\ (net # <<>> \/ peer # "open")
             THEN /\ port' = Append(port, Completion(k))
                  /\ net' = Rest(net, k)
                  /\ UNCHANGED posted
             ELSE /\ posted' = Append(posted, k)
                  /\ UNCHANGED <<port, net>>
  <2>1. call \in CallType /\ call.want > 0
    BY <1>0, <1>1 DEF FlowInv, Places, TclPlace, Typed, CallType
  <2>2. /\ SizeFor("tcl") \in Nat
        /\ SizeFor("tcl") = 0 <=> mode = "zero"
    BY <1>1, <2>1, CallFacts DEF SizeFor, Burst
  <2> QED BY <1>1, <2>2
<1>2. /\ posted' \in Seq(Nat) /\ port' \in Queue /\ net' \in Stream
      /\ Flat(port') \in Stream
      /\ Len(posted') \in Nat /\ Len(port') \in Nat
      /\ Len(posted') + Len(port') = Len(posted) + Len(port) + 1
      /\ Cat(Flat(port'), net') = Cat(Flat(port), net)
      /\ ZeroPosted(posted') \/ ZeroIn(port') => ZeroPosted(posted) \/ ZeroIn(port) \/ k = 0
      /\ AlertIn(port') => AlertIn(port) \/ (k = 0 /\ (net # <<>> \/ peer # "open"))
      /\ OnlyZeroPosted(posted) /\ OnlyZero(port) /\ k = 0 =>
           OnlyZeroPosted(posted') /\ OnlyZero(port')
      /\ k = 0 => net' = net
      /\ net = <<>> => net' = <<>>
      /\ AllSound(port) => AllSound(port')
      /\ HasEnd(port') => HasEnd(port) \/ (peer = "closed" /\ net = <<>>)
      /\ EndsLast(port) /\ (HasEnd(port) => net = <<>>) => EndsLast(port')
      /\ NoData(port) /\ net = <<>> => NoData(port')
  BY <1>9, Posts
<1>3. ~HasZero /\ ~HasAlert
  BY <1>0, <1>1, NoZeroElsewhere DEF PostPlaces
<1>10. pc' \in [Threads -> At] /\ held' \in [Threads -> Buffer]
  BY <1>0, <1>2
     DEF PostCall, Return, Hand, Burst, Goto, netVars, modeVars, outVars, Typed, Threads,
         At
<1>11. TypeOK'
  <2>1. Cat(delivered, First(call.buf, call.n)) \in Stream
    BY <1>0, Concat DEF Typed
  <2> QED BY <1>0, <1>1, <1>2, <1>10, <2>1, CallFacts
      DEF FlowInv, TypeOK, Typed, Stream, Queue, CallType
<1>20. Typed'
  BY <1>11, TypeFacts, PTL
<1>12. Counted'
  <2>1. recvs = Len(posted) + Len(port) + 1 + One(pc["ct"] \in {"call", "back"})
    BY <1>0, <1>1 DEF FlowInv, Counted, One, Typed
  <2>2. /\ Len(posted) \in Nat /\ Len(port) \in Nat /\ Len(posted') \in Nat
        /\ Len(port') \in Nat /\ recvs' = recvs /\ pc'["ct"] = pc["ct"]
        /\ Len(posted') + Len(port') = Len(posted) + Len(port) + 1
        /\ pc'["tcl"] \notin {"call", "back"}
    BY <1>0, <1>1, <1>2 DEF Typed
  <2> QED BY <2>1, <2>2 DEF Counted, One
<1>13. Places'
  BY <1>1 DEF FlowInv, Places, TclPlace, CtPlace, PostPlaces, Ready
<1>14. SoundBuffers'
  BY <1>0, <1>1, <1>2, NoBufFacts DEF FlowInv, SoundBuffers, Both, Typed
<1>15. EndIsLast'
  BY <1>0, <1>1, <1>2, NoBufFacts DEF FlowInv, EndIsLast, Both, Typed
<1>16. ZeroIsAlone'
  <2>1. CASE mode = "zero"
    <3>1. Total' = Total
      <4>1. /\ Len(posted) \in Nat /\ Len(port) \in Nat /\ Len(posted') \in Nat
            /\ Len(port') \in Nat /\ Len(pending) \in Nat /\ pending' = pending
            /\ Len(posted') + Len(port') = Len(posted) + Len(port) + 1
            /\ pc'["ct"] = pc["ct"] /\ pc'["tcl"] = "idle" /\ pc["tcl"] = "call"
        BY <1>0, <1>1, <1>2 DEF Typed
      <4> QED BY <4>1 DEF Total, One, PostPlaces
    <3>2. Alone'
      BY <1>1, <2>1, <3>1 DEF FlowInv, ZeroIsAlone, Alone
    <3>3. AllZero'
      BY <1>1, <1>2, <1>9, <2>1 DEF FlowInv, ZeroIsAlone, AllZero
    <3> QED BY <3>2, <3>3 DEF ZeroIsAlone
  <2>2. CASE mode # "zero"
    <3>1. ~HasZero'
      BY <1>1, <1>2, <1>3, <1>9, <2>2 DEF HasZero
    <3> QED BY <1>1, <2>2, <3>1 DEF ZeroIsAlone
  <2> QED BY <2>1, <2>2
<1>17. AlertsAreReady'
  <2>1. HasAlert' => k = 0 /\ (net # <<>> \/ peer # "open")
    BY <1>1, <1>2, <1>3 DEF HasAlert
  <2> QED BY <1>1, <1>2, <2>1 DEF AlertsAreReady
<1>18. NothingLost'
  <2> DEFINE c == First(call.buf, call.n)
             t == Cat(held["tcl"].data, Cat(Flat(pending), Cat(held["ct"].data,
                    Cat(Flat(port), net))))
  <2>0. t \in Stream /\ c \in Stream /\ delivered \in Stream
    BY <1>0, Concat DEF Typed
  <2>1. Cat(Cat(delivered, c), Cat(<<>>, t)) = Cat(delivered, Cat(c, t))
    <3> HIDE DEF c, t
    <3> QED BY <2>0, Concat
  <2>2. Pieces' = Pieces
    BY <1>1, <1>2, <2>1, CallFacts DEF Pieces, Whole
  <2>3. InPieces
    BY <1>0, LostMeansPieces DEF FlowInv
  <2>4. InPieces'
    BY <1>1, <2>2, <2>3 DEF InPieces
  <2> QED BY <1>20, <2>4, LostMeansPieces, PTL
<1>19. EofIsLast'
  <2>1. eof => First(call.buf, call.n) = <<>>
    BY EofMeansAll
  <2>2. Cat(delivered, <<>>) = delivered
    BY <1>0, Concat DEF Typed
  <2> QED BY <1>1, <2>1, <2>2 DEF FlowInv, EofIsLast
<1> QED BY <1>11, <1>12, <1>13, <1>14, <1>15, <1>16, <1>17, <1>18, <1>19 DEF FlowInv

LEMMA CallKeeps == ASSUME FlowInv, NEW t \in Threads, PostCall(t) PROVE FlowInv'
BY PostCallCtKeeps, PostCallTclStayKeeps, PostCallTclIdleKeeps DEF Threads

LEMMA RepostGoKeeps ==
  ASSUME FlowInv, pc'["tcl"] = "count", Repost
  PROVE  FlowInv'
<1>0. Typed
  BY TypeFacts DEF FlowInv
<1>1. /\ pc'["tcl"] = "count"
      /\ pc["tcl"] = "repost" /\ Ready
      /\ call' = [call EXCEPT !.burst = (mode = "burst" /\ need /\ Len(pending) < unreadCap)]
      /\ sent' = sent /\ peer' = peer /\ net' = net /\ posted' = posted
      /\ port' = port /\ pending' = pending /\ recvs' = recvs /\ mode' = mode
      /\ cap' = cap /\ unreadCap' = unreadCap /\ need' = need /\ eof' = eof
      /\ delivered' = delivered /\ failed' = failed /\ starved' = starved
      /\ pc'["ct"] = pc["ct"] /\ held'["tcl"] = held["tcl"]
      /\ held'["ct"] = held["ct"]
  BY <1>0
     DEF FlowInv, Places, Ready, Repost, Hand, Goto, Typed, Threads, netVars, modeVars,
         outVars
<1>2. /\ call' \in CallType /\ call'.n = call.n /\ call'.buf = call.buf
      /\ call'.want = call.want /\ (call'.burst => mode = "burst")
  BY <1>0, <1>1 DEF Typed, CallType
<1>3. Total' = Total + 1 /\ Total \in Nat
  BY <1>0, <1>1 DEF Total, One, PostPlaces, Typed
<1>10. pc' \in [Threads -> At] /\ held' \in [Threads -> Buffer]
  BY <1>0, <1>2 DEF Repost, Goto, netVars, modeVars, outVars, Typed, Threads, At
<1>11. TypeOK'
  BY <1>0, <1>1, <1>2, <1>10 DEF FlowInv, TypeOK, Typed, CallType
<1>20. Typed'
  BY <1>11, TypeFacts, PTL
<1>12. Counted'
  BY <1>0, <1>1, <1>2 DEF FlowInv, Counted, Ready, One, Typed
<1>13. Places'
  BY <1>1, <1>2 DEF FlowInv, Places, TclPlace, CtPlace, PostPlaces, Ready
<1>14. SoundBuffers'
  BY <1>0, <1>1, <1>2, NoBufFacts DEF FlowInv, SoundBuffers, Both, Typed
<1>15. EndIsLast'
  BY <1>0, <1>1, <1>2, NoBufFacts DEF FlowInv, EndIsLast, Both, Typed
<1>16. ZeroIsAlone'
  <2>1. Alone => Alone'
    BY <1>1, <1>3 DEF Alone
  <2>2. HasZero' <=> HasZero
    BY <1>1 DEF HasZero
  <2> QED BY <1>1, <2>1, <2>2 DEF FlowInv, ZeroIsAlone, AllZero
<1>17. AlertsAreReady'
  BY <1>0, <1>1, <1>2, NoBufFacts
     DEF FlowInv, AlertsAreReady, HasAlert, Ready, Both, Typed
<1>18. NothingLost'
  <2>1. First(call'.buf, call'.n) = First(call.buf, call.n)
    BY <1>2
  <2>2. Pieces' = Pieces
    BY <1>1, <2>1 DEF Pieces, Whole
  <2>3. InPieces
    BY <1>0, LostMeansPieces DEF FlowInv
  <2>4. InPieces'
    BY <1>1, <2>2, <2>3 DEF InPieces
  <2> QED BY <1>20, <2>4, LostMeansPieces, PTL
<1>19. EofIsLast'
  BY <1>1 DEF FlowInv, EofIsLast
<1> QED BY <1>11, <1>12, <1>13, <1>14, <1>15, <1>16, <1>17, <1>18, <1>19 DEF FlowInv

LEMMA RepostIdleKeeps ==
  ASSUME FlowInv, pc'["tcl"] = "idle", Repost
  PROVE  FlowInv'
<1>0. Typed
  BY TypeFacts DEF FlowInv
<1>1. /\ delivered' = Cat(delivered, First(call.buf, call.n))
      /\ call' = NoCall
      /\ pc'["tcl"] = "idle"
      /\ pc["tcl"] = "repost"
      /\ sent' = sent /\ peer' = peer /\ net' = net /\ posted' = posted
      /\ port' = port /\ pending' = pending /\ recvs' = recvs /\ mode' = mode
      /\ cap' = cap /\ unreadCap' = unreadCap /\ need' = need /\ eof' = eof
      /\ failed' = failed /\ starved' = starved /\ pc'["ct"] = pc["ct"]
      /\ held'["tcl"] = held["tcl"] /\ held'["ct"] = held["ct"]
  BY <1>0
     DEF FlowInv, TypeOK, Places, Ready, Repost, Hand, Cat, Goto, Typed, Threads,
         netVars, modeVars, outVars
<1>10. pc' \in [Threads -> At] /\ held' \in [Threads -> Buffer]
  BY <1>0 DEF Repost, Hand, Goto, netVars, modeVars, outVars, Typed, Threads, At
<1>11. TypeOK'
  <2>1. Cat(delivered, First(call.buf, call.n)) \in Stream
    BY <1>0, Concat DEF Typed
  <2> QED BY <1>0, <1>1, <1>10, <2>1, CallFacts
      DEF FlowInv, TypeOK, Typed, Stream, Queue, CallType
<1>20. Typed'
  BY <1>11, TypeFacts, PTL
<1>12. Counted'
  BY <1>0, <1>1 DEF FlowInv, Counted, Ready, One, Typed
<1>13. Places'
  BY <1>1 DEF FlowInv, Places, TclPlace, CtPlace, PostPlaces, Ready
<1>14. SoundBuffers'
  BY <1>0, <1>1, NoBufFacts DEF FlowInv, SoundBuffers, Typed
<1>15. EndIsLast'
  BY <1>0, <1>1, NoBufFacts DEF FlowInv, EndIsLast, Typed
<1>16. ZeroIsAlone'
  <2>1. Total' = Total /\ Total \in Nat
    BY <1>0, <1>1 DEF Total, One, PostPlaces, Typed
  <2>2. Alone => Alone'
    BY <1>0, <1>1, <2>1 DEF Alone
  <2>3. HasZero' => HasZero
    BY <1>1 DEF HasZero
  <2> QED BY <1>1, <2>2, <2>3 DEF FlowInv, ZeroIsAlone, AllZero, Ready
<1>17. AlertsAreReady'
  BY <1>0, <1>1, NoBufFacts DEF FlowInv, AlertsAreReady, HasAlert, Ready, Typed
<1>18. NothingLost'
  <2> DEFINE c == First(call.buf, call.n)
             t == Cat(held["tcl"].data, Cat(Flat(pending), Cat(held["ct"].data,
                    Cat(Flat(port), net))))
  <2>0. t \in Stream /\ c \in Stream /\ delivered \in Stream
    BY <1>0, Concat DEF Typed
  <2>1. Cat(Cat(delivered, c), Cat(<<>>, t)) = Cat(delivered, Cat(c, t))
    <3> HIDE DEF c, t
    <3> QED BY <2>0, Concat
  <2>2. Pieces' = Pieces
    BY <1>1, <2>1, CallFacts DEF Pieces, Whole
  <2>3. InPieces
    BY <1>0, LostMeansPieces DEF FlowInv
  <2>4. InPieces'
    BY <1>1, <2>2, <2>3 DEF InPieces
  <2> QED BY <1>20, <2>4, LostMeansPieces, PTL
<1>19. EofIsLast'
  <2>1. eof => First(call.buf, call.n) = <<>>
    BY EofMeansAll
  <2>2. Cat(delivered, <<>>) = delivered
    BY <1>0, Concat DEF Typed
  <2> QED BY <1>1, <2>1, <2>2 DEF FlowInv, EofIsLast
<1> QED BY <1>11, <1>12, <1>13, <1>14, <1>15, <1>16, <1>17, <1>18, <1>19 DEF FlowInv

LEMMA RepostKeeps == ASSUME FlowInv, Repost PROVE FlowInv'
<1>1. pc'["tcl"] \in {"count", "idle"}
  BY TypeFacts DEF FlowInv, Repost, Typed, Goto, Threads
<1> QED BY <1>1, RepostGoKeeps, RepostIdleKeeps

LEMMA ClearIdleKeeps ==
  ASSUME FlowInv, pc'["tcl"] = "idle", Clear
  PROVE  FlowInv'
<1>0. Typed
  BY TypeFacts DEF FlowInv
<1>1. /\ need' = FALSE
      /\ delivered' = Cat(delivered, First(call.buf, call.n))
      /\ call' = NoCall
      /\ pc'["tcl"] = "idle"
      /\ pc["tcl"] = "clear"
      /\ sent' = sent /\ peer' = peer /\ net' = net /\ posted' = posted
      /\ port' = port /\ pending' = pending /\ recvs' = recvs /\ mode' = mode
      /\ cap' = cap /\ unreadCap' = unreadCap /\ eof' = eof
      /\ failed' = failed /\ starved' = starved /\ pc'["ct"] = pc["ct"]
      /\ held'["tcl"] = held["tcl"] /\ held'["ct"] = held["ct"]
  BY <1>0
     DEF FlowInv, TypeOK, Places, Ready, Clear, Hand, Cat, Goto, Typed, Threads, netVars,
         modeVars, outVars
<1>10. pc' \in [Threads -> At] /\ held' \in [Threads -> Buffer]
  BY <1>0 DEF Clear, Hand, Goto, netVars, modeVars, outVars, Typed, Threads, At
<1>11. TypeOK'
  <2>1. Cat(delivered, First(call.buf, call.n)) \in Stream
    BY <1>0, Concat DEF Typed
  <2> QED BY <1>0, <1>1, <1>10, <2>1, CallFacts
      DEF FlowInv, TypeOK, Typed, Stream, Queue, CallType
<1>20. Typed'
  BY <1>11, TypeFacts, PTL
<1>12. Counted'
  BY <1>0, <1>1 DEF FlowInv, Counted, Ready, One, Typed
<1>13. Places'
  BY <1>1 DEF FlowInv, Places, TclPlace, CtPlace, PostPlaces, Ready
<1>14. SoundBuffers'
  BY <1>0, <1>1, NoBufFacts DEF FlowInv, SoundBuffers, Typed
<1>15. EndIsLast'
  BY <1>0, <1>1, NoBufFacts DEF FlowInv, EndIsLast, Typed
<1>16. ZeroIsAlone'
  <2>1. Total' = Total /\ Total \in Nat
    BY <1>0, <1>1 DEF Total, One, PostPlaces, Typed
  <2>2. Alone => Alone'
    BY <1>0, <1>1, <2>1 DEF Alone
  <2>3. HasZero' => HasZero
    BY <1>1 DEF HasZero
  <2> QED BY <1>1, <2>2, <2>3 DEF FlowInv, ZeroIsAlone, AllZero, Ready
<1>17. AlertsAreReady'
  BY <1>0, <1>1, NoBufFacts DEF FlowInv, AlertsAreReady, HasAlert, Ready, Typed
<1>18. NothingLost'
  <2> DEFINE c == First(call.buf, call.n)
             t == Cat(held["tcl"].data, Cat(Flat(pending), Cat(held["ct"].data,
                    Cat(Flat(port), net))))
  <2>0. t \in Stream /\ c \in Stream /\ delivered \in Stream
    BY <1>0, Concat DEF Typed
  <2>1. Cat(Cat(delivered, c), Cat(<<>>, t)) = Cat(delivered, Cat(c, t))
    <3> HIDE DEF c, t
    <3> QED BY <2>0, Concat
  <2>2. Pieces' = Pieces
    BY <1>1, <2>1, CallFacts DEF Pieces, Whole
  <2>3. InPieces
    BY <1>0, LostMeansPieces DEF FlowInv
  <2>4. InPieces'
    BY <1>1, <2>2, <2>3 DEF InPieces
  <2> QED BY <1>20, <2>4, LostMeansPieces, PTL
<1>19. EofIsLast'
  <2>1. eof => First(call.buf, call.n) = <<>>
    BY EofMeansAll
  <2>2. Cat(delivered, <<>>) = delivered
    BY <1>0, Concat DEF Typed
  <2> QED BY <1>1, <2>1, <2>2 DEF FlowInv, EofIsLast
<1> QED BY <1>11, <1>12, <1>13, <1>14, <1>15, <1>16, <1>17, <1>18, <1>19 DEF FlowInv

LEMMA ClearKeeps == ASSUME FlowInv, Clear PROVE FlowInv'
<1>1. pc'["tcl"] = "idle"
  BY TypeFacts DEF FlowInv, Clear, Typed, Goto, Threads
<1> QED BY <1>1, ClearIdleKeeps

LEMMA SetModeKeeps ==
  ASSUME FlowInv, NeverBackToZero, NEW m \in Modes, SetMode(m)
  PROVE  FlowInv'
<1>0. Typed
  BY TypeFacts DEF FlowInv
<1>1. /\ mode' = m
      /\ pc'["tcl"] = "setCaps"
      /\ pc["tcl"] = "idle" /\ (m = "zero" => mode = "zero")
      /\ sent' = sent /\ peer' = peer /\ net' = net /\ posted' = posted
      /\ port' = port /\ pending' = pending /\ recvs' = recvs /\ cap' = cap
      /\ unreadCap' = unreadCap /\ need' = need /\ eof' = eof
      /\ delivered' = delivered /\ failed' = failed /\ starved' = starved
      /\ call' = call /\ pc'["ct"] = pc["ct"] /\ held'["tcl"] = held["tcl"]
      /\ held'["ct"] = held["ct"]
  BY <1>0 DEF NeverBackToZero, SetMode, Goto, Typed, Threads, netVars, modeVars, outVars
<1>10. pc' \in [Threads -> At] /\ held' \in [Threads -> Buffer]
  BY <1>0 DEF SetMode, Goto, netVars, modeVars, outVars, Typed, Threads, At
<1>11. TypeOK'
  BY <1>0, <1>1, <1>10 DEF FlowInv, TypeOK, Typed, Stream, Queue
<1>20. Typed'
  BY <1>11, TypeFacts, PTL
<1>12. Counted'
  BY <1>0, <1>1 DEF FlowInv, Counted, Ready, One, Typed
<1>13. Places'
  BY <1>0, <1>1
     DEF FlowInv, Places, TclPlace, CtPlace, Total, PostPlaces, One, Ready, Typed
<1>14. SoundBuffers'
  BY <1>0, <1>1, NoBufFacts DEF FlowInv, SoundBuffers, Typed
<1>15. EndIsLast'
  BY <1>0, <1>1, NoBufFacts DEF FlowInv, EndIsLast, Typed
<1>16. ZeroIsAlone'
  BY <1>0, <1>1, NoBufFacts
     DEF FlowInv, ZeroIsAlone, AllZero, HasZero, Alone, Total, Ready, One, PostPlaces,
         Places, TclPlace, CtPlace, Typed
<1>17. AlertsAreReady'
  BY <1>0, <1>1, NoBufFacts DEF FlowInv, AlertsAreReady, HasAlert, Ready, Typed
<1>18. NothingLost'
  BY <1>1 DEF FlowInv, NothingLost
<1>19. EofIsLast'
  BY <1>1 DEF FlowInv, EofIsLast
<1> QED BY <1>11, <1>12, <1>13, <1>14, <1>15, <1>16, <1>17, <1>18, <1>19 DEF FlowInv

LEMMA SetCapsKeeps ==
  ASSUME FlowInv, SetCaps
  PROVE  FlowInv'
<1>0. Typed
  BY TypeFacts DEF FlowInv
<1>1. /\ cap' = CapOf(mode)
      /\ unreadCap' = UnreadOf(mode)
      /\ pc'["tcl"] = "idle"
      /\ pc["tcl"] = "setCaps"
      /\ sent' = sent /\ peer' = peer /\ net' = net /\ posted' = posted
      /\ port' = port /\ pending' = pending /\ recvs' = recvs /\ mode' = mode
      /\ need' = need /\ eof' = eof /\ delivered' = delivered
      /\ failed' = failed /\ starved' = starved /\ call' = call
      /\ pc'["ct"] = pc["ct"] /\ held'["tcl"] = held["tcl"]
      /\ held'["ct"] = held["ct"]
  BY <1>0 DEF SetCaps, Typed, Threads, Goto, netVars, modeVars, outVars
<1>10. pc' \in [Threads -> At] /\ held' \in [Threads -> Buffer]
  BY <1>0 DEF SetCaps, Goto, netVars, modeVars, outVars, Typed, Threads, At
<1>11. TypeOK'
  <2>1. CapOf(mode) \in Int /\ UnreadOf(mode) \in Nat
    BY SizesAssumption DEF CapOf, UnreadOf
  <2> QED BY <1>0, <1>1, <1>10, <2>1 DEF FlowInv, TypeOK, Typed, Stream, Queue
<1>20. Typed'
  BY <1>11, TypeFacts, PTL
<1>12. Counted'
  BY <1>0, <1>1 DEF FlowInv, Counted, Ready, One, Typed
<1>13. Places'
  BY <1>0, <1>1
     DEF FlowInv, Places, TclPlace, CtPlace, Total, PostPlaces, One, Ready, Typed
<1>14. SoundBuffers'
  BY <1>0, <1>1, NoBufFacts DEF FlowInv, SoundBuffers, Typed
<1>15. EndIsLast'
  BY <1>0, <1>1, NoBufFacts DEF FlowInv, EndIsLast, Typed
<1>16. ZeroIsAlone'
  BY <1>0, <1>1, NoBufFacts
     DEF FlowInv, ZeroIsAlone, AllZero, HasZero, Alone, Total, Ready, One, PostPlaces,
         Places, TclPlace, CtPlace, Typed
<1>17. AlertsAreReady'
  BY <1>0, <1>1, NoBufFacts DEF FlowInv, AlertsAreReady, HasAlert, Ready, Typed
<1>18. NothingLost'
  BY <1>1 DEF FlowInv, NothingLost
<1>19. EofIsLast'
  BY <1>1 DEF FlowInv, EofIsLast
<1> QED BY <1>11, <1>12, <1>13, <1>14, <1>15, <1>16, <1>17, <1>18, <1>19 DEF FlowInv
LEMMA FlowHolds ==
  ASSUME NeverBackToZero
  PROVE  /\ Init => FlowInv
         /\ FlowInv /\ [Next]_vars => FlowInv'
<1>1. ASSUME Init PROVE FlowInv
  <2> DEFINE k == IF mode = "zero" THEN 0 ELSE BufSize
  <2>0. /\ sent = 0 /\ peer = "open" /\ net = <<>> /\ mode \in Modes /\ posted = <<k>>
        /\ port = <<>> /\ pending = <<>> /\ recvs = 1 /\ cap = CapOf(mode)
        /\ unreadCap = UnreadOf(mode) /\ need = FALSE /\ eof = FALSE /\ failed = FALSE
        /\ starved = FALSE /\ pc = [t \in Threads |-> "idle"]
        /\ held = [t \in Threads |-> NoBuf] /\ call = NoCall /\ delivered = <<>>
    BY <1>1, ModesAssumption DEF Init
  <2>1. k \in Nat /\ (k = 0 <=> mode = "zero") /\ CapOf(mode) \in Int
        /\ UnreadOf(mode) \in Nat /\ MaxSent \in Nat
    BY SizesAssumption DEF CapOf, UnreadOf
  <2>2. /\ posted \in Seq(Nat) /\ Len(posted) = 1
        /\ ZeroPosted(posted) <=> k = 0
        /\ OnlyZeroPosted(posted) <=> k = 0
    <3>1. <<>> \in Seq(Nat) /\ Append(<<>>, k) = <<k>> /\ Len(<<k>>) = 1
      BY <2>1, EmptySeq
    <3> HIDE DEF k
    <3>2. /\ Append(<<>>, k) \in Seq(Nat)
          /\ ZeroPosted(Append(<<>>, k)) <=> ZeroPosted(<<>>) \/ k = 0
          /\ OnlyZeroPosted(Append(<<>>, k)) <=> OnlyZeroPosted(<<>>) /\ k = 0
      BY <2>1, <3>1, OfPosted
    <3> QED BY <2>0, <3>1, <3>2, OfEmpty
  <2>3. /\ pc["tcl"] = "idle" /\ pc["ct"] = "idle"
        /\ held["tcl"] = NoBuf /\ held["ct"] = NoBuf
        /\ pc \in [Threads -> At] /\ held \in [Threads -> Buffer]
    <3> HIDE DEF k
    <3> QED BY <2>0, NoBufFacts DEF Threads, At
  <2>4. <<>> \in Seq(Units) /\ <<>> \in Seq(Buffer) /\ Len(<<>>) = 0
    BY EmptySeq
  <2> HIDE DEF k
  <2>5. TypeOK
    <3>1. sent \in 0 .. MaxSent /\ peer \in {"open", "closed", "reset"} /\ recvs \in Nat
      BY <2>0, <2>1
    <3>2. /\ net \in Seq(Units) /\ delivered \in Seq(Units)
          /\ port \in Seq(Buffer) /\ pending \in Seq(Buffer)
      BY <2>0, <2>4
    <3>3. mode \in Modes /\ cap \in Int /\ unreadCap \in Nat
      BY <2>0, <2>1
    <3>4. {need, eof, failed, starved} \subseteq BOOLEAN
      BY <2>0
    <3> QED BY <2>0, <2>2, <2>3, <3>1, <3>2, <3>3, <3>4, CallFacts DEF TypeOK, CallType
  <2>6. Counted /\ Places
    BY <2>0, <2>2, <2>3, <2>4
       DEF Counted, Places, TclPlace, CtPlace, One, Ready, PostPlaces
  <2>7. SoundBuffers /\ EndIsLast
    BY <2>0, <2>3, OfEmpty, NoBufFacts DEF SoundBuffers, EndIsLast
  <2>8. ZeroIsAlone
    BY <2>0, <2>1, <2>2, <2>3, <2>4, OfEmpty, NoBufFacts
       DEF ZeroIsAlone, AllZero, HasZero, Alone, Total, One, PostPlaces
  <2>9. AlertsAreReady
    BY <2>0, <2>3, OfEmpty DEF AlertsAreReady, HasAlert
  <2>10. NothingLost
    <3>1. /\ Flat(port) = <<>> /\ Flat(pending) = <<>> /\ First(call.buf, call.n) = <<>>
          /\ held["tcl"].data = <<>> /\ held["ct"].data = <<>>
      BY <2>0, <2>3, FlatEmpty, CallFacts, NoBufFacts
    <3>2. Pieces = Cat(<<>>, Cat(<<>>, Cat(<<>>, Cat(<<>>, Cat(<<>>, Cat(<<>>, <<>>))))))
      BY <2>0, <3>1 DEF Pieces, Whole
    <3>3. Pieces = <<>>
      BY <3>2, Concat
    <3>4. [i \in 1 .. sent |-> i] = <<>>
      BY <2>0
    <3> QED BY <2>5, <3>3, <3>4, TypeFacts, LostMeansPieces DEF InPieces
  <2>11. EofIsLast
    BY <2>0 DEF EofIsLast
  <2> QED BY <2>5, <2>6, <2>7, <2>8, <2>9, <2>10, <2>11 DEF FlowInv
<1>2. ASSUME FlowInv, [Next]_vars PROVE FlowInv'
  <2>1. CASE Winsock
    BY <1>2, <2>1, SendKeeps, HangupKeeps, CompleteKeeps, NoBufsKeeps DEF Winsock
  <2>2. CASE Posting
    BY <1>2, <2>2, CountKeeps, BackKeeps, CallKeeps DEF Posting
  <2>3. CASE Ct
    BY <1>2, <2>3, TakeKeeps, DecideKeeps, PushKeeps DEF Ct
  <2>4. CASE Tcl
    <3>1. CASE \E n \in 1 .. ChanSize, async \in BOOLEAN : Read(n, async)
      BY <1>2, <3>1, ReadKeeps
    <3>2. CASE \E m \in Modes : SetMode(m)
      BY <1>2, <3>2, SetModeKeeps
    <3> QED BY <1>2, <2>4, <3>1, <3>2, PopKeeps, PutBackKeeps, MergeKeeps,
               ReadDirectlyKeeps, ReadEofKeeps, ReadErrorKeeps, RepostKeeps, ClearKeeps,
               SetCapsKeeps DEF Tcl
  <2>5. CASE UNCHANGED vars
    <3>1. /\ sent' = sent /\ peer' = peer /\ net' = net /\ posted' = posted /\ port' = port
          /\ pending' = pending /\ recvs' = recvs /\ mode' = mode /\ cap' = cap
          /\ unreadCap' = unreadCap /\ need' = need /\ eof' = eof /\ pc' = pc
          /\ held' = held /\ call' = call /\ delivered' = delivered
          /\ failed' = failed /\ starved' = starved
      BY <2>5 DEF vars, netVars, modeVars, outVars
    <3>2. TypeOK' /\ Counted' /\ SoundBuffers' /\ EndIsLast' /\ AlertsAreReady'
      BY <1>2, <3>1
         DEF FlowInv, TypeOK, Counted, Ready, SoundBuffers, EndIsLast, AlertsAreReady, HasAlert
    <3>3. Places'
      BY <1>2, <3>1 DEF FlowInv, Places, Ready, TclPlace, CtPlace, Total
    <3>4. ZeroIsAlone'
      BY <1>2, <3>1 DEF FlowInv, ZeroIsAlone, AllZero, HasZero, Alone, Ready, Total
    <3>5. NothingLost' /\ EofIsLast'
      BY <1>2, <3>1 DEF FlowInv, NothingLost, EofIsLast
    <3> QED BY <3>2, <3>3, <3>4, <3>5 DEF FlowInv
  <2> QED BY <1>2, <2>1, <2>2, <2>3, <2>4, <2>5 DEF Next
<1> QED BY <1>1, <1>2

-----------------------------------------------------------------------------
(* The cap, and a socket that does not go deaf                              *)

LEMMA CapType == CapOf(mode) \in Int
BY SizesAssumption DEF CapOf

LEMMA SendCaps ==
  ASSUME FlowInv, Capped, Fed, Send
  PROVE  Capped' /\ Fed'
<1>0. Typed
  BY TypeFacts DEF FlowInv
<1>1. /\ call' = call
      /\ posted' = posted /\ port' = port /\ pending' = pending
      /\ recvs' = recvs /\ mode' = mode /\ cap' = cap /\ eof' = eof
      /\ failed' = failed /\ starved' = starved /\ pc'["tcl"] = pc["tcl"]
      /\ pc'["ct"] = pc["ct"]
  BY <1>0
     DEF FlowInv, Places, TclPlace, CtPlace, Ready, Send, Typed, Threads, Goto, netVars,
         modeVars, outVars
<1>11. Capped'
  BY <1>0, <1>1, CapType DEF Capped, One, Typed
<1>12. Fed'
  BY <1>0, <1>1 DEF Fed, Something, Ready, PostPlaces, Typed
<1> QED BY <1>11, <1>12

LEMMA HangupCaps ==
  ASSUME FlowInv, Capped, Fed, Hangup
  PROVE  Capped' /\ Fed'
<1>0. Typed
  BY TypeFacts DEF FlowInv
<1>1. /\ call' = call
      /\ posted' = posted /\ port' = port /\ pending' = pending
      /\ recvs' = recvs /\ mode' = mode /\ cap' = cap /\ eof' = eof
      /\ failed' = failed /\ starved' = starved /\ pc'["tcl"] = pc["tcl"]
      /\ pc'["ct"] = pc["ct"]
  BY <1>0
     DEF FlowInv, Places, TclPlace, CtPlace, Ready, Hangup, Typed, Threads, Goto,
         netVars, modeVars, outVars
<1>11. Capped'
  BY <1>0, <1>1, CapType DEF Capped, One, Typed
<1>12. Fed'
  BY <1>0, <1>1 DEF Fed, Something, Ready, PostPlaces, Typed
<1> QED BY <1>11, <1>12

LEMMA CompleteCaps ==
  ASSUME FlowInv, Capped, Fed, Complete
  PROVE  Capped' /\ Fed'
<1>0. Typed
  BY TypeFacts DEF FlowInv
<1>1. /\ posted' = Tail(posted)
      /\ posted # <<>>
      /\ port' = Append(port, Completion(Head(posted)))
      /\ pending' = pending /\ recvs' = recvs /\ mode' = mode /\ cap' = cap
      /\ eof' = eof /\ failed' = failed /\ starved' = starved
      /\ pc'["tcl"] = pc["tcl"] /\ pc'["ct"] = pc["ct"]
  BY <1>0
     DEF FlowInv, Places, TclPlace, CtPlace, Ready, Complete, Typed, Threads, Goto,
         netVars, modeVars, outVars
<1>2. PICK b \in Buffer : port' = Append(port, b)
  <2>1. Completion(Head(posted)) \in Buffer
    BY <1>0, <1>1, OfPosted, CompletionFacts DEF FlowInv, Complete, Typed
  <2> QED BY <1>1, <2>1
<1>3. /\ Len(posted') \in Nat /\ Len(port') \in Nat
      /\ Len(posted') + Len(port') = Len(posted) + Len(port)
      /\ port' # <<>>
  <2>1. Len(Append(port, b)) = Len(port) + 1 /\ Append(port, b) # <<>>
    BY <1>0, OfAppend DEF Typed
  <2>2. Len(posted) = Len(Tail(posted)) + 1 /\ Len(Tail(posted)) \in Nat
    BY <1>0, <1>1, OfPosted DEF Typed
  <2> QED BY <1>0, <1>1, <1>2, <2>1, <2>2 DEF Typed
<1>11. Capped'
  BY <1>0, <1>1, <1>3, CapType DEF Capped, One, Typed
<1>12. Fed'
  BY <1>0, <1>1, <1>3 DEF Fed, Something, Ready, PostPlaces, Typed
<1> QED BY <1>11, <1>12

LEMMA NoBufsCaps ==
  ASSUME FlowInv, Capped, Fed, NoBufs
  PROVE  Capped' /\ Fed'
<1>0. Typed
  BY TypeFacts DEF FlowInv
<1>1. /\ posted' = Tail(posted)
      /\ posted # <<>>
      /\ port' = Append(port, [data |-> <<>>, size |-> Head(posted), err |-> "noBufs"])
      /\ pending' = pending /\ recvs' = recvs /\ mode' = mode /\ cap' = cap
      /\ eof' = eof /\ failed' = failed /\ starved' = starved
      /\ pc'["tcl"] = pc["tcl"] /\ pc'["ct"] = pc["ct"]
  BY <1>0
     DEF FlowInv, Places, TclPlace, CtPlace, Ready, NoBufs, Typed, Threads, Goto,
         netVars, modeVars, outVars
<1>2. PICK b \in Buffer : port' = Append(port, b)
  <2>1. [data |-> <<>>, size |-> Head(posted), err |-> "noBufs"] \in Buffer
    BY <1>0, <1>1, OfPosted, EmptySeq DEF Buffer, Typed
  <2> QED BY <1>1, <2>1
<1>3. /\ Len(posted') \in Nat /\ Len(port') \in Nat
      /\ Len(posted') + Len(port') = Len(posted) + Len(port)
      /\ port' # <<>>
  <2>1. Len(Append(port, b)) = Len(port) + 1 /\ Append(port, b) # <<>>
    BY <1>0, OfAppend DEF Typed
  <2>2. Len(posted) = Len(Tail(posted)) + 1 /\ Len(Tail(posted)) \in Nat
    BY <1>0, <1>1, OfPosted DEF Typed
  <2> QED BY <1>0, <1>1, <1>2, <2>1, <2>2 DEF Typed
<1>11. Capped'
  BY <1>0, <1>1, <1>3, CapType DEF Capped, One, Typed
<1>12. Fed'
  BY <1>0, <1>1, <1>3 DEF Fed, Something, Ready, PostPlaces, Typed
<1> QED BY <1>11, <1>12

LEMMA TakeCaps ==
  ASSUME FlowInv, Capped, Fed, Take
  PROVE  Capped' /\ Fed'
<1>0. Typed
  BY TypeFacts DEF FlowInv
<1>1. /\ port' = Tail(port)
      /\ pc'["ct"] = "decide"
      /\ port # <<>> /\ Ready
      /\ posted' = posted /\ pending' = pending /\ mode' = mode /\ cap' = cap
      /\ eof' = eof /\ failed' = failed /\ starved' = starved
      /\ pc'["tcl"] = pc["tcl"]
  BY <1>0
     DEF FlowInv, Places, TclPlace, CtPlace, Ready, Take, Typed, Threads, Goto, netVars,
         modeVars, outVars
<1>2. Len(port) = Len(Tail(port)) + 1 /\ Len(Tail(port)) \in Nat
  BY <1>0, <1>1, OfTail DEF Typed
<1>11. Capped'
  BY <1>0, <1>1, <1>2, CapType DEF Capped, One, Typed
<1>12. Fed'
  BY <1>0, <1>1, <1>2 DEF Fed, Something, Ready, PostPlaces, Typed
<1> QED BY <1>11, <1>12

LEMMA DecideCaps ==
  ASSUME FlowInv, Capped, Fed, Decide
  PROVE  Capped' /\ Fed'
<1>0. Typed
  BY TypeFacts DEF FlowInv
<1>1. /\ pc["ct"] = "decide" /\ Ready
      /\ \/ pc'["ct"] = "count" /\ mode = "burst" /\ starved' = starved /\ cap' = cap
         \/ pc'["ct"] = "push" /\ starved' = starved /\ cap' = cap
         \/ pc'["ct"] = "idle" /\ starved' = TRUE /\ cap' = cap - 1
      /\ posted' = posted /\ port' = port /\ pending' = pending
      /\ recvs' = recvs /\ mode' = mode /\ eof' = eof /\ failed' = failed
      /\ pc'["tcl"] = pc["tcl"]
  BY <1>0
     DEF FlowInv, Places, TclPlace, CtPlace, Ready, Decide, Typed, Threads, Goto,
         netVars, modeVars, outVars
<1>11. Capped'
  <2>1. CapOf(mode) \in Int
    BY SizesAssumption DEF CapOf
  <2> QED BY <1>0, <1>1, <2>1 DEF Capped, One, Typed
<1>12. Fed'
  BY <1>0, <1>1 DEF Fed, Something, Ready, PostPlaces, Typed
<1> QED BY <1>11, <1>12

LEMMA PushCaps ==
  ASSUME FlowInv, Capped, Fed, Push
  PROVE  Capped' /\ Fed'
<1>0. Typed
  BY TypeFacts DEF FlowInv
<1>1. /\ pending' = Append(pending, held["ct"])
      /\ pc'["ct"] = "idle"
      /\ pc["ct"] = "push"
      /\ posted' = posted /\ port' = port /\ recvs' = recvs /\ mode' = mode
      /\ cap' = cap /\ eof' = eof /\ failed' = failed /\ starved' = starved
      /\ pc'["tcl"] = pc["tcl"]
  BY <1>0
     DEF FlowInv, Places, TclPlace, CtPlace, Ready, Push, Typed, Threads, Goto, netVars,
         modeVars, outVars
<1>2. Append(pending, held["ct"]) # <<>>
  BY <1>0, OfAppend DEF Typed
<1>11. Capped'
  BY <1>0, <1>1, <1>2, CapType DEF Capped, One, Typed
<1>12. Fed'
  BY <1>0, <1>1, <1>2 DEF Fed, Something, Ready, PostPlaces, Typed
<1> QED BY <1>11, <1>12

LEMMA ReadCaps ==
  ASSUME FlowInv, Capped, Fed, NEW n \in 1 .. ChanSize, NEW async \in BOOLEAN, Read(n, async)
  PROVE  Capped' /\ Fed'
<1>0. Typed
  BY TypeFacts DEF FlowInv
<1>1. /\ pc'["tcl"] = "pop"
      /\ pc["tcl"] = "idle" /\ Ready
      /\ posted' = posted /\ port' = port /\ pending' = pending
      /\ recvs' = recvs /\ mode' = mode /\ cap' = cap /\ eof' = eof
      /\ failed' = failed /\ starved' = starved /\ pc'["ct"] = pc["ct"]
  BY <1>0
     DEF FlowInv, Places, TclPlace, CtPlace, Ready, Read, Typed, Threads, Goto, netVars,
         modeVars, outVars
<1>11. Capped'
  BY <1>0, <1>1, CapType DEF Capped, One, Typed
<1>12. Fed'
  BY <1>0, <1>1 DEF Fed, Something, Ready, PostPlaces, Typed
<1> QED BY <1>11, <1>12

LEMMA PopFaultCaps ==
  ASSUME FlowInv, Capped, Fed, pc'["tcl"] = "fault", Pop
  PROVE  Capped' /\ Fed'
<1>0. Typed
  BY TypeFacts DEF FlowInv
<1>1. /\ pc'["tcl"] = "fault"
      /\ pc'["ct"] = "fault"
      /\ pc["tcl"] = "pop" /\ Ready
      /\ posted' = posted /\ port' = port /\ pending' = pending
      /\ recvs' = recvs /\ mode' = mode /\ cap' = cap /\ eof' = eof
      /\ failed' = failed /\ starved' = starved
  BY <1>0
     DEF FlowInv, Places, TclPlace, CtPlace, Ready, Pop, Typed, Threads, Goto, netVars,
         modeVars, outVars
<1>11. Capped'
  BY <1>0, <1>1, CapType DEF Capped, One, Typed
<1>12. Fed'
  BY <1>0, <1>1 DEF Fed, Something, Ready, PostPlaces, Typed
<1> QED BY <1>11, <1>12

LEMMA PopCaps ==
  ASSUME FlowInv, Capped, Fed, pc'["tcl"] # "fault", Pop
  PROVE  Capped' /\ Fed'
<1>0. Typed
  BY TypeFacts DEF FlowInv
<1>1. /\ pc["tcl"] = "pop" /\ Ready /\ pc'["tcl"] \in {"repost", "merge"}
      /\ posted' = posted /\ port' = port /\ recvs' = recvs /\ mode' = mode
      /\ cap' = cap /\ eof' = eof /\ failed' = failed /\ starved' = starved
      /\ pc'["ct"] = pc["ct"]
  BY <1>0
     DEF FlowInv, Places, TclPlace, CtPlace, Ready, Pop, Typed, Threads, Goto, netVars,
         modeVars, outVars
<1>11. Capped'
  BY <1>0, <1>1, CapType DEF Capped, One, Typed
<1>12. Fed'
  BY <1>0, <1>1 DEF Fed, Something, Ready, PostPlaces, Typed
<1> QED BY <1>11, <1>12

LEMMA PutBackCaps ==
  ASSUME FlowInv, Capped, Fed, PutBack
  PROVE  Capped' /\ Fed'
<1>0. Typed
  BY TypeFacts DEF FlowInv
<1>1. /\ pc'["tcl"] = "repost"
      /\ pc["tcl"] = "merge"
      /\ posted' = posted /\ port' = port /\ recvs' = recvs /\ mode' = mode
      /\ cap' = cap /\ eof' = eof /\ failed' = failed /\ starved' = starved
      /\ pc'["ct"] = pc["ct"]
  BY <1>0
     DEF FlowInv, Places, TclPlace, CtPlace, Ready, PutBack, Typed, Threads, Goto,
         netVars, modeVars, outVars
<1>11. Capped'
  BY <1>0, <1>1, CapType DEF Capped, One, Typed
<1>12. Fed'
  BY <1>0, <1>1 DEF Fed, Something, Ready, PostPlaces, Typed
<1> QED BY <1>11, <1>12

LEMMA MergeCaps ==
  ASSUME FlowInv, Capped, Fed, Merge
  PROVE  Capped' /\ Fed'
<1>0. Typed
  BY TypeFacts DEF FlowInv
<1>1. /\ pc["tcl"] = "merge" /\ call'.async = call.async
      /\ pc'["tcl"] = "repost" \/ (pc'["tcl"] = "pop" /\ call.async)
      /\ posted' = posted /\ port' = port /\ pending' = pending
      /\ recvs' = recvs /\ mode' = mode /\ cap' = cap /\ eof' = eof
      /\ failed' = failed /\ starved' = starved /\ pc'["ct"] = pc["ct"]
  BY <1>0
     DEF FlowInv, Places, TclPlace, CtPlace, Ready, Merge, Typed, Threads, Goto, netVars,
         modeVars, outVars
<1>11. Capped'
  BY <1>0, <1>1, CapType DEF Capped, One, Typed
<1>12. Fed'
  BY <1>0, <1>1 DEF Fed, Something, Ready, PostPlaces, Typed
<1> QED BY <1>11, <1>12

LEMMA ReadDirectlyCaps ==
  ASSUME FlowInv, Capped, Fed, ReadDirectly
  PROVE  Capped' /\ Fed'
<1>0. Typed
  BY TypeFacts DEF FlowInv
<1>1. /\ pc["tcl"] = "merge" /\ call'.async = call.async
      /\ pc'["tcl"] = "repost" \/ (pc'["tcl"] = "pop" /\ call.async)
      /\ posted' = posted /\ port' = port /\ pending' = pending
      /\ recvs' = recvs /\ mode' = mode /\ cap' = cap /\ eof' = eof
      /\ failed' = failed /\ starved' = starved /\ pc'["ct"] = pc["ct"]
  BY <1>0
     DEF FlowInv, Places, TclPlace, CtPlace, Ready, ReadDirectly, Typed, Threads, Goto,
         netVars, modeVars, outVars
<1>11. Capped'
  BY <1>0, <1>1, CapType DEF Capped, One, Typed
<1>12. Fed'
  BY <1>0, <1>1 DEF Fed, Something, Ready, PostPlaces, Typed
<1> QED BY <1>11, <1>12

LEMMA ReadEofCaps ==
  ASSUME FlowInv, Capped, Fed, ReadEof
  PROVE  Capped' /\ Fed'
<1>0. Typed
  BY TypeFacts DEF FlowInv
<1>1. /\ eof' = TRUE
      /\ pc'["tcl"] = "repost"
      /\ pc["tcl"] = "merge"
      /\ posted' = posted /\ port' = port /\ pending' = pending
      /\ recvs' = recvs /\ mode' = mode /\ cap' = cap /\ failed' = failed
      /\ starved' = starved /\ pc'["ct"] = pc["ct"]
  BY <1>0
     DEF FlowInv, Places, TclPlace, CtPlace, Ready, ReadEof, Typed, Threads, Goto,
         netVars, modeVars, outVars
<1>11. Capped'
  BY <1>0, <1>1, CapType DEF Capped, One, Typed
<1>12. Fed'
  BY <1>0, <1>1 DEF Fed, Something, Ready, PostPlaces, Typed
<1> QED BY <1>11, <1>12

LEMMA ReadErrorCaps ==
  ASSUME FlowInv, Capped, Fed, ReadError
  PROVE  Capped' /\ Fed'
<1>0. Typed
  BY TypeFacts DEF FlowInv
<1>1. /\ failed' = TRUE
      /\ pc'["tcl"] = "idle"
      /\ pc["tcl"] = "merge"
      /\ posted' = posted /\ port' = port /\ pending' = pending
      /\ recvs' = recvs /\ mode' = mode /\ cap' = cap /\ eof' = eof
      /\ starved' = starved /\ pc'["ct"] = pc["ct"]
  BY <1>0
     DEF FlowInv, Places, TclPlace, CtPlace, Ready, ReadError, Typed, Threads, Goto,
         netVars, modeVars, outVars
<1>11. Capped'
  BY <1>0, <1>1, CapType DEF Capped, One, Typed
<1>12. Fed'
  BY <1>0, <1>1 DEF Fed, Something, Ready, PostPlaces, Typed
<1> QED BY <1>11, <1>12

LEMMA RepostCaps ==
  ASSUME FlowInv, Capped, Fed, Repost
  PROVE  Capped' /\ Fed'
<1>0. Typed
  BY TypeFacts DEF FlowInv
<1>1. /\ pc["tcl"] = "repost" /\ pc'["tcl"] \in {"count", "idle"}
      /\ pc'["tcl"] = "idle" => eof \/ mode = "burst"
      /\ posted' = posted /\ port' = port /\ pending' = pending
      /\ recvs' = recvs /\ mode' = mode /\ cap' = cap /\ eof' = eof
      /\ failed' = failed /\ starved' = starved /\ pc'["ct"] = pc["ct"]
  BY <1>0
     DEF FlowInv, Places, TclPlace, CtPlace, Ready, Repost, Hand, Typed, Threads, Goto,
         netVars, modeVars, outVars
<1>11. Capped'
  BY <1>0, <1>1, CapType DEF Capped, One, Typed
<1>12. Fed'
  BY <1>0, <1>1 DEF Fed, Something, Ready, PostPlaces, Typed
<1> QED BY <1>11, <1>12

LEMMA ClearCaps ==
  ASSUME FlowInv, Capped, Fed, Clear
  PROVE  Capped' /\ Fed'
<1>0. Typed
  BY TypeFacts DEF FlowInv
<1>1. /\ pc'["tcl"] = "idle"
      /\ pc["tcl"] = "clear"
      /\ posted' = posted /\ port' = port /\ pending' = pending
      /\ recvs' = recvs /\ mode' = mode /\ cap' = cap /\ eof' = eof
      /\ failed' = failed /\ starved' = starved /\ pc'["ct"] = pc["ct"]
  BY <1>0
     DEF FlowInv, Places, TclPlace, CtPlace, Ready, Clear, Hand, Typed, Threads, Goto,
         netVars, modeVars, outVars
<1>11. Capped'
  BY <1>0, <1>1, CapType DEF Capped, One, Typed
<1>12. Fed'
  BY <1>0, <1>1 DEF Fed, Something, Ready, PostPlaces, Typed
<1> QED BY <1>11, <1>12

LEMMA SetModeCaps ==
  ASSUME FlowInv, Capped, Fed, NeverLeavesBurst, NEW m \in Modes, SetMode(m)
  PROVE  Capped' /\ Fed'
<1>0. Typed
  BY TypeFacts DEF FlowInv
<1>1. /\ mode' = m
      /\ pc'["tcl"] = "setCaps"
      /\ pc["tcl"] = "idle" /\ (mode = "burst" => m = "burst")
      /\ posted' = posted /\ port' = port /\ pending' = pending
      /\ recvs' = recvs /\ cap' = cap /\ eof' = eof /\ failed' = failed
      /\ starved' = starved /\ pc'["ct"] = pc["ct"]
  BY <1>0
     DEF FlowInv, Places, TclPlace, CtPlace, Ready, SetMode, NeverLeavesBurst, Typed,
         Threads, Goto, netVars, modeVars, outVars
<1>11. Capped'
  <2>1. CapOf(mode) \in Int /\ CapOf(m) \in Int /\ CapOf(mode) <= CapOf(m)
    BY <1>1, SizesAssumption DEF CapOf
  <2> QED BY <1>0, <1>1, <2>1 DEF Capped, One, Typed
<1>12. Fed'
  BY <1>0, <1>1 DEF Fed, Something, Ready, PostPlaces, Typed
<1> QED BY <1>11, <1>12

LEMMA SetCapsCaps ==
  ASSUME FlowInv, Capped, Fed, SetCaps
  PROVE  Capped' /\ Fed'
<1>0. Typed
  BY TypeFacts DEF FlowInv
<1>1. /\ cap' = CapOf(mode)
      /\ pc'["tcl"] = "idle"
      /\ pc["tcl"] = "setCaps"
      /\ CapOf(mode) \in Int /\ (mode # "burst" => CapOf(mode) = 1)
      /\ posted' = posted /\ port' = port /\ pending' = pending
      /\ recvs' = recvs /\ mode' = mode /\ eof' = eof /\ failed' = failed
      /\ starved' = starved /\ pc'["ct"] = pc["ct"]
  BY <1>0, SizesAssumption
     DEF CapOf, SetCaps, Typed, Threads, Goto, netVars, modeVars, outVars
<1>11. Capped'
  BY <1>0, <1>1, CapType DEF Capped, One, Typed
<1>12. Fed'
  BY <1>0, <1>1 DEF Fed, Something, Ready, PostPlaces, Typed
<1> QED BY <1>11, <1>12

LEMMA PostCountTclCaps ==
  ASSUME FlowInv, Capped, Fed, PostCount("tcl")
  PROVE  Capped' /\ Fed'
<1>0. Typed
  BY TypeFacts DEF FlowInv
<1>1. /\ pc["tcl"] = "count" /\ Ready
      /\ \/ pc'["tcl"] \in {"clear", "idle"} /\ eof
         \/ pc'["tcl"] = "back" /\ recvs + 1 > cap
         \/ pc'["tcl"] = "call" /\ recvs + 1 <= cap
      /\ posted' = posted /\ port' = port /\ pending' = pending
      /\ mode' = mode /\ cap' = cap /\ eof' = eof /\ failed' = failed
      /\ starved' = starved /\ pc'["ct"] = pc["ct"]
  BY <1>0
     DEF FlowInv, Places, TclPlace, CtPlace, Ready, PostCount, PostBack, PostCall,
         Return, Hand, Burst, Typed, Threads, Goto, netVars, modeVars, outVars
<1>2. /\ recvs = Len(posted) + Len(port) + One(pc["tcl"] \in {"call", "back"})
                  + One(pc["ct"] \in {"call", "back"})
      /\ cap <= CapOf(mode) /\ CapOf(mode) \in Int
  BY <1>1, SizesAssumption DEF FlowInv, Counted, Capped, CapOf
<1>11. Capped'
  <2> DEFINE p == Len(posted) + Len(port)
  <2>1. p \in Nat /\ recvs \in Int /\ cap \in Int
    BY <1>0 DEF Typed
  <2>2. /\ cap' = cap /\ CapOf(mode') = CapOf(mode)
        /\ Len(posted') + Len(port') = p
        /\ One(pc'["ct"] = "call") = One(pc["ct"] = "call")
    BY <1>1 DEF CapOf
  <2>3. p + One(pc["tcl"] = "call") + One(pc["ct"] = "call") <= CapOf(mode)
    BY DEF Capped
  <2>4. One(pc["tcl"] = "call") = 0 /\ One(pc["tcl"] \in {"call", "back"}) = 0
    BY <1>1 DEF One
  <2>5. /\ One(pc["ct"] = "call") <= One(pc["ct"] \in {"call", "back"})
        /\ One(pc["ct"] = "call") \in Nat /\ One(pc["ct"] \in {"call", "back"}) \in Nat
    BY DEF One
  <2>6. recvs = p + One(pc["tcl"] \in {"call", "back"}) + One(pc["ct"] \in {"call", "back"})
    BY <1>2
  <2> HIDE DEF p
  <2>7. CASE pc'["tcl"] = "call"
    <3>1. recvs + 1 <= cap /\ One(pc'["tcl"] = "call") = 1
      BY <1>1, <2>7 DEF One
    <3>2. p + 1 + One(pc["ct"] = "call") <= CapOf(mode)
      BY <1>2, <2>1, <2>4, <2>5, <2>6, <3>1
    <3> QED BY <1>2, <2>2, <3>1, <3>2 DEF Capped
  <2>8. CASE pc'["tcl"] # "call"
    <3>1. One(pc'["tcl"] = "call") = 0
      BY <2>8 DEF One
    <3> QED BY <1>2, <2>2, <2>3, <2>4, <3>1 DEF Capped
  <2> QED BY <2>7, <2>8
<1>12. Fed'
  <2>1. ASSUME mode # "burst", ~starved, recvs + 1 > cap
        PROVE  posted # <<>> \/ port # <<>>
    BY <1>0, <1>1, <1>2, <2>1 DEF Fed, One, Typed
  <2> QED BY <1>0, <1>1, <2>1 DEF Fed, Something, Ready, PostPlaces, Typed
<1> QED BY <1>11, <1>12

LEMMA PostBackTclCaps ==
  ASSUME FlowInv, Capped, Fed, PostBack("tcl")
  PROVE  Capped' /\ Fed'
<1>0. Typed
  BY TypeFacts DEF FlowInv
<1>1. /\ pc["tcl"] = "back" /\ Ready
      /\ pc'["tcl"] \in {"clear", "idle"}
      /\ posted' = posted /\ port' = port /\ pending' = pending
      /\ mode' = mode /\ cap' = cap /\ eof' = eof /\ failed' = failed
      /\ starved' = starved /\ pc'["ct"] = pc["ct"]
  BY <1>0
     DEF FlowInv, Places, TclPlace, CtPlace, Ready, PostCount, PostBack, PostCall,
         Return, Hand, Burst, Typed, Threads, Goto, netVars, modeVars, outVars
<1>11. Capped'
  BY <1>0, <1>1, CapType DEF Capped, One, Typed
<1>12. Fed'
  BY <1>0, <1>1 DEF Fed, Something, Ready, PostPlaces, Typed
<1> QED BY <1>11, <1>12

LEMMA PostCallTclCaps ==
  ASSUME FlowInv, Capped, Fed, PostCall("tcl")
  PROVE  Capped' /\ Fed'
<1>0. Typed
  BY TypeFacts DEF FlowInv
<1>1. /\ pc["tcl"] = "call" /\ Ready
      /\ pc'["tcl"] \in {"clear", "idle"} \cup {"count"}
      /\ IF posted = <<>> /\ (net # <<>> \/ peer # "open")
           THEN /\ port' = Append(port, Completion(SizeFor("tcl")))
                /\ net' = Rest(net, SizeFor("tcl"))
                /\ UNCHANGED posted
           ELSE /\ posted' = Append(posted, SizeFor("tcl"))
                /\ UNCHANGED <<port, net>>
      /\ pending' = pending /\ recvs' = recvs /\ mode' = mode /\ cap' = cap
      /\ eof' = eof /\ failed' = failed /\ starved' = starved
      /\ pc'["ct"] = pc["ct"]
  BY <1>0
     DEF FlowInv, Places, TclPlace, CtPlace, Ready, PostCount, PostBack, PostCall,
         Return, Hand, Burst, Typed, Threads, Goto, netVars, modeVars, outVars
<1>2. /\ Len(posted') \in Nat /\ Len(port') \in Nat
      /\ Len(posted') + Len(port') = Len(posted) + Len(port) + 1
      /\ posted' # <<>> \/ port' # <<>>
  <2>1. SizeFor("tcl") \in Nat
    BY <1>0, CallFacts DEF SizeFor, Burst, Typed, CallType
  <2>2. /\ Len(posted') \in Nat /\ Len(port') \in Nat
        /\ Len(posted') + Len(port') = Len(posted) + Len(port) + 1
        /\ posted' \in Seq(Nat) /\ port' \in Queue
    BY <1>1, <2>1, Posts
  <2>3. Len(posted') # 0 \/ Len(port') # 0
    BY <1>0, <2>2 DEF Typed
  <2>4. Len(<<>>) = 0
    OBVIOUS
  <2> QED BY <2>2, <2>3, <2>4
<1>11. Capped'
  <2>1. /\ Len(posted) \in Nat /\ Len(port) \in Nat /\ Len(posted') \in Nat
        /\ Len(port') \in Nat /\ mode' = mode /\ cap' = cap
        /\ Len(posted') + Len(port') = Len(posted) + Len(port) + 1
        /\ pc["tcl"] = "call" /\ pc'["tcl"] # "call" /\ pc'["ct"] = pc["ct"]
    BY <1>0, <1>1, <1>2 DEF Typed
  <2> QED BY <2>1, CapType DEF Capped, One
<1>12. Fed'
  BY <1>0, <1>1, <1>2 DEF Fed, Something, Ready, PostPlaces, Typed
<1> QED BY <1>11, <1>12

LEMMA PostCountCtCaps ==
  ASSUME FlowInv, Capped, Fed, PostCount("ct")
  PROVE  Capped' /\ Fed'
<1>0. Typed
  BY TypeFacts DEF FlowInv
<1>1. /\ pc["ct"] = "count" /\ Ready
      /\ \/ pc'["ct"] \in {"push"} /\ eof
         \/ pc'["ct"] = "back" /\ recvs + 1 > cap
         \/ pc'["ct"] = "call" /\ recvs + 1 <= cap
      /\ posted' = posted /\ port' = port /\ pending' = pending
      /\ mode' = mode /\ cap' = cap /\ eof' = eof /\ failed' = failed
      /\ starved' = starved /\ pc'["tcl"] = pc["tcl"]
  BY <1>0
     DEF FlowInv, Places, TclPlace, CtPlace, Ready, PostCount, PostBack, PostCall,
         Return, Hand, Burst, Typed, Threads, Goto, netVars, modeVars, outVars
<1>2. /\ recvs = Len(posted) + Len(port) + One(pc["tcl"] \in {"call", "back"})
                  + One(pc["ct"] \in {"call", "back"})
      /\ cap <= CapOf(mode) /\ CapOf(mode) \in Int
  BY <1>1, SizesAssumption DEF FlowInv, Counted, Capped, CapOf
<1>11. Capped'
  BY <1>0, <1>1, <1>2, CapType DEF Capped, One, Typed
<1>12. Fed'
  BY <1>0, <1>1, <1>2 DEF Fed, Something, Ready, PostPlaces, Typed
<1> QED BY <1>11, <1>12

LEMMA PostBackCtCaps ==
  ASSUME FlowInv, Capped, Fed, PostBack("ct")
  PROVE  Capped' /\ Fed'
<1>0. Typed
  BY TypeFacts DEF FlowInv
<1>1. /\ pc["ct"] = "back" /\ Ready
      /\ pc'["ct"] \in {"push"}
      /\ posted' = posted /\ port' = port /\ pending' = pending
      /\ mode' = mode /\ cap' = cap /\ eof' = eof /\ failed' = failed
      /\ starved' = starved /\ pc'["tcl"] = pc["tcl"]
  BY <1>0
     DEF FlowInv, Places, TclPlace, CtPlace, Ready, PostCount, PostBack, PostCall,
         Return, Hand, Burst, Typed, Threads, Goto, netVars, modeVars, outVars
<1>11. Capped'
  BY <1>0, <1>1, CapType DEF Capped, One, Typed
<1>12. Fed'
  BY <1>0, <1>1 DEF Fed, Something, Ready, PostPlaces, Typed
<1> QED BY <1>11, <1>12

LEMMA PostCallCtCaps ==
  ASSUME FlowInv, Capped, Fed, PostCall("ct")
  PROVE  Capped' /\ Fed'
<1>0. Typed
  BY TypeFacts DEF FlowInv
<1>1. /\ pc["ct"] = "call" /\ Ready
      /\ pc'["ct"] \in {"push"} \cup {"count"}
      /\ IF posted = <<>> /\ (net # <<>> \/ peer # "open")
           THEN /\ port' = Append(port, Completion(SizeFor("ct")))
                /\ net' = Rest(net, SizeFor("ct"))
                /\ UNCHANGED posted
           ELSE /\ posted' = Append(posted, SizeFor("ct"))
                /\ UNCHANGED <<port, net>>
      /\ pending' = pending /\ recvs' = recvs /\ mode' = mode /\ cap' = cap
      /\ eof' = eof /\ failed' = failed /\ starved' = starved
      /\ pc'["tcl"] = pc["tcl"]
  BY <1>0
     DEF FlowInv, Places, TclPlace, CtPlace, Ready, PostCount, PostBack, PostCall,
         Return, Hand, Burst, Typed, Threads, Goto, netVars, modeVars, outVars
<1>2. /\ Len(posted') \in Nat /\ Len(port') \in Nat
      /\ Len(posted') + Len(port') = Len(posted) + Len(port) + 1
      /\ posted' # <<>> \/ port' # <<>>
  <2>1. SizeFor("ct") \in Nat
    BY <1>0, CallFacts DEF SizeFor, Burst, Typed, CallType
  <2>2. /\ Len(posted') \in Nat /\ Len(port') \in Nat
        /\ Len(posted') + Len(port') = Len(posted) + Len(port) + 1
        /\ posted' \in Seq(Nat) /\ port' \in Queue
    BY <1>1, <2>1, Posts
  <2>3. Len(posted') # 0 \/ Len(port') # 0
    BY <1>0, <2>2 DEF Typed
  <2>4. Len(<<>>) = 0
    OBVIOUS
  <2> QED BY <2>2, <2>3, <2>4
<1>11. Capped'
  <2>1. /\ Len(posted) \in Nat /\ Len(port) \in Nat /\ Len(posted') \in Nat
        /\ Len(port') \in Nat /\ mode' = mode /\ cap' = cap
        /\ Len(posted') + Len(port') = Len(posted) + Len(port) + 1
        /\ pc["ct"] = "call" /\ pc'["ct"] # "call" /\ pc'["tcl"] = pc["tcl"]
    BY <1>0, <1>1, <1>2 DEF Typed
  <2> QED BY <2>1, CapType DEF Capped, One
<1>12. Fed'
  BY <1>0, <1>1, <1>2 DEF Fed, Something, Ready, PostPlaces, Typed
<1> QED BY <1>11, <1>12
LEMMA CapsHold ==
  ASSUME NeverLeavesBurst
  PROVE  /\ Init => Capped /\ Fed
         /\ FlowInv /\ Capped /\ Fed /\ [Next]_vars => Capped' /\ Fed'
<1>1. ASSUME Init PROVE Capped /\ Fed
  <2> DEFINE k == IF mode = "zero" THEN 0 ELSE BufSize
  <2>1. /\ posted = <<k>> /\ port = <<>> /\ cap = CapOf(mode) /\ mode \in Modes
        /\ pc["tcl"] = "idle" /\ pc["ct"] = "idle"
    BY <1>1, ModesAssumption DEF Init, Threads
  <2>2. Len(posted) = 1 /\ Len(port) = 0 /\ posted # <<>>
    BY <2>1
  <2>3. /\ CapOf(mode) \in Int /\ CapOf(mode) >= 1 /\ (mode # "burst" => CapOf(mode) = 1)
    BY SizesAssumption DEF CapOf
  <2> HIDE DEF k
  <2> QED BY <2>1, <2>2, <2>3 DEF Capped, Fed, Something, One
<1>2. ASSUME FlowInv, Capped, Fed, [Next]_vars PROVE Capped' /\ Fed'
  <2>1. CASE Winsock
    BY <1>2, <2>1, SendCaps, HangupCaps, CompleteCaps, NoBufsCaps DEF Winsock
  <2>2. CASE Posting
    BY <1>2, <2>2, PostCountCtCaps, PostBackCtCaps, PostCallCtCaps, PostCountTclCaps,
       PostBackTclCaps, PostCallTclCaps DEF Posting, Threads
  <2>3. CASE Ct
    BY <1>2, <2>3, TakeCaps, DecideCaps, PushCaps DEF Ct
  <2>4. CASE Tcl
    <3>1. CASE \E n \in 1 .. ChanSize, async \in BOOLEAN : Read(n, async)
      BY <1>2, <3>1, ReadCaps
    <3>2. CASE \E m \in Modes : SetMode(m)
      BY <1>2, <3>2, SetModeCaps
    <3> QED BY <1>2, <2>4, <3>1, <3>2, PopFaultCaps, PopCaps, PutBackCaps, MergeCaps,
               ReadDirectlyCaps, ReadEofCaps, ReadErrorCaps, RepostCaps, ClearCaps,
               SetCapsCaps DEF Tcl
  <2>5. CASE UNCHANGED vars
    BY <1>2, <2>5 DEF vars, netVars, modeVars, outVars, Capped, Fed, Something, Ready
  <2> QED BY <1>2, <2>1, <2>2, <2>3, <2>4, <2>5 DEF Next
<1> QED BY <1>1, <1>2

-----------------------------------------------------------------------------
(* The theorems                                                             *)

\* The invariant holds in every reachable state of a socket that is not switched
\* back to the zero-byte mode.
THEOREM FlowInvariance == ASSUME NeverBackToZero PROVE Spec => []FlowInv
<1>1. Init => FlowInv
  BY FlowHolds
<1>2. FlowInv /\ [Next]_vars => FlowInv'
  BY FlowHolds
<1> QED BY <1>1, <1>2, PTL DEF Spec

\* What the peer sends arrives in order and without loss or repetition, whatever
\* the sizes of the reads, the receives and the interleaving of IocpInputProc with
\* the completion thread.
THEOREM StreamArrives == ASSUME NeverBackToZero PROVE Spec => []NothingLost
<1>1. FlowInv => NothingLost
  BY DEF FlowInv
<1> QED BY <1>1, FlowInvariance, PTL

\* IOCP_EOF is set when the channel has got everything the peer has sent.
THEOREM EndIsReportedLast == ASSUME NeverBackToZero PROVE Spec => []EofIsLast
<1>1. FlowInv => EofIsLast
  BY DEF FlowInv
<1> QED BY <1>1, FlowInvariance, PTL

\* The WSARecv of DoRecvBufMerge does not block the Tcl thread.
THEOREM NeverBlocks == ASSUME NeverBackToZero PROVE Spec => []DirectReadIsReady
<1>1. FlowInv => DirectReadIsReady
  BY DEF FlowInv, AlertsAreReady, HasAlert, Ready, DirectReadIsReady
<1> QED BY <1>1, FlowInvariance, PTL

\* The cap and the receives that are posted, too, when it does not leave the burst
\* mode either.
THEOREM CapInvariance ==
  ASSUME NeverBackToZero, NeverLeavesBurst PROVE Spec => []CapInv
<1>1. Init => CapInv
  BY FlowHolds, CapsHold DEF CapInv
<1>2. CapInv /\ [Next]_vars => CapInv'
  BY FlowHolds, CapsHold DEF CapInv
<1> QED BY <1>1, <1>2, PTL DEF Spec

\* A socket in a mode without burst receiving always has a receive outstanding, or
\* a step of its own ahead that posts one.
THEOREM AlwaysHears ==
  ASSUME NeverBackToZero, NeverLeavesBurst PROVE Spec => []NeverDeaf
<1>1. CapInv => NeverDeaf
  BY DEF CapInv, Fed, Something, NeverDeaf, Stalled
<1> QED BY <1>1, CapInvariance, PTL

\* Where IocpLLPopFront does not fault, no thread does.
LEMMA NoFault ==
  ASSUME ~EmptyPopFaults
  PROVE  /\ Init => Ready
         /\ FlowInv /\ Ready /\ [Next]_vars => Ready'
<1>1. Init => Ready
  BY DEF Init, Ready, Threads
<1>2. ASSUME FlowInv, Ready, [Next]_vars PROVE Ready'
  <2>0. pc \in [Threads -> At] /\ "tcl" \in Threads /\ "ct" \in Threads
    BY <1>2 DEF FlowInv, TypeOK, Threads
  <2>1. CASE Winsock
    BY <1>2, <2>1 DEF Winsock, Send, Hangup, Complete, NoBufs, Ready
  <2>2. CASE Posting
    BY <1>2, <2>0, <2>2
       DEF Posting, Threads, PostCount, PostBack, PostCall, Return, Burst, Goto, Ready
  <2>3. CASE Ct
    BY <1>2, <2>0, <2>3 DEF Ct, Take, Decide, Push, Goto, Ready
  <2>4. CASE Tcl
    BY <1>2, <2>0, <2>4
       DEF Tcl, Read, Pop, PutBack, Merge, ReadDirectly, ReadEof, ReadError, Repost, Clear,
           SetMode, SetCaps, Goto, Ready
  <2>5. CASE UNCHANGED vars
    BY <1>2, <2>5 DEF vars, Ready
  <2> QED BY <1>2, <2>1, <2>2, <2>3, <2>4, <2>5 DEF Next
<1> QED BY <1>1, <1>2

\* outstandingRecvs counts the receives Winsock and the port have and the ones the
\* threads are about to post, and there are never more than the cap of the mode.
THEOREM CountIsKept ==
  ASSUME NeverBackToZero, NeverLeavesBurst, ~EmptyPopFaults
  PROVE  Spec => []WellFormed
<1>1. CapInv /\ Ready => WellFormed
  <2> SUFFICES ASSUME CapInv, Ready PROVE WellFormed
    OBVIOUS
  <2>1. Typed /\ TypeOK
    BY TypeFacts DEF CapInv, FlowInv
  <2>2. recvs = Len(posted) + Len(port) + One(pc["tcl"] \in {"call", "back"})
                  + One(pc["ct"] \in {"call", "back"})
    BY DEF CapInv, FlowInv, Counted
  <2>3. Len(posted) + Len(port) <= CapOf(mode)
    BY <2>1, CapType DEF CapInv, Capped, One, Typed
  <2> QED BY <2>1, <2>2, <2>3 DEF WellFormed, RecvsCounted, One
<1>2. Init => Ready
  BY NoFault
<1>3. FlowInv /\ Ready /\ [Next]_vars => Ready'
  BY NoFault
<1>4. CapInv => FlowInv
  BY DEF CapInv
<1> QED BY <1>1, <1>2, <1>3, <1>4, CapInvariance, PTL DEF Spec
=============================================================================
