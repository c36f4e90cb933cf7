--------------------------- MODULE FifoQueueProofs ---------------------------
(***************************************************************************)
(* Proofs about FifoQueue, for any heap, any size of node and any values:  *)
(* the two lists never share a node, and the queue is first in, first out. *)
(*                                                                         *)
(* What a list is made of is defined by recursion, so the proofs are by    *)
(* induction: a set of numbers that holds 0 and every successor holds all. *)
(***************************************************************************)
EXTENDS FifoQueue, SequenceTheorems, FiniteSetTheorems, WellFoundedInduction, TLAPS

(***************************************************************************)
(* Numbers.                                                                *)
(***************************************************************************)
LEMMA NatInductionSet ==
  ASSUME NEW S, 0 \in S, \A n \in Nat : n \in S => n + 1 \in S
  PROVE  Nat \subseteq S
<1> DEFINE R == OpToRel(<, Nat)
           T == Nat \ S
<1> SUFFICES ASSUME T # {} PROVE FALSE
  OBVIOUS
<1>1. IsWellFoundedOn(R, Nat)
  BY NatLessThanWellFounded
<1>2. \A i, j \in Nat : i < j => <<i, j>> \in R
  BY DEF OpToRel
<1>3. PICK n \in T : \A j \in T : ~ (<<j, n>> \in R)
  <2> HIDE DEF R
  <2> QED
    BY <1>1, WFMin
<1> HIDE DEF R
<1>4. n # 0 /\ n - 1 \in Nat
  OBVIOUS
<1>5. n - 1 \in S
  <2>1. n \in Nat /\ n - 1 < n
    BY <1>4
  <2>2. <<n - 1, n>> \in R
    BY <1>2, <1>4, <2>1
  <2> QED
    BY <1>3, <1>4, <2>2
<1>6. n - 1 + 1 \in S
  BY <1>4, <1>5
<1> QED
  BY <1>4, <1>6

\* A ring index goes round once at most.
LEMMA RingIndexWraps ==
  ASSUME NEW a \in 0..2 * NodeSize - 1
  PROVE  /\ RingIndex(a) = IF a < NodeSize THEN a ELSE a - NodeSize
         /\ RingIndex(a) \in 0..NodeSize - 1
<1>1. CASE a < NodeSize
  BY <1>1, FifoAssumption, Z3 DEF RingIndex
<1>2. CASE a >= NodeSize
  BY <1>2, FifoAssumption, Z3 DEF RingIndex
<1> QED
  BY <1>1, <1>2, FifoAssumption

-----------------------------------------------------------------------------
(***************************************************************************)
(* Joined: of sequences of sequences of elements.                          *)
(***************************************************************************)
\* The recursion of Joined has a solution, for the first n sequences ...
IsUpTo(g, ss, S, n) ==
  /\ g \in [0..n -> Seq(S)]
  /\ g[0] = <<>>
  /\ \A i \in 0..n - 1 : g[i + 1] = g[i] \o ss[i + 1]

LEMMA UpToExists ==
  ASSUME NEW S, NEW ss \in Seq(Seq(S))
  PROVE  \E g : IsUpTo(g, ss, S, Len(ss))
<1> DEFINE K == {k \in Nat : k <= Len(ss) => \E g : IsUpTo(g, ss, S, k)}
<1>1. Len(ss) \in Nat
  OBVIOUS
<1>2. 0 \in K
  <2>1. IsUpTo([i \in 0..0 |-> <<>>], ss, S, 0)
    BY DEF IsUpTo
  <2> QED
    BY <2>1
<1>3. ASSUME NEW k \in Nat, k \in K, k + 1 <= Len(ss)
      PROVE  \E g : IsUpTo(g, ss, S, k + 1)
  <2>1. PICK g : IsUpTo(g, ss, S, k)
    BY <1>1, <1>3
  <2> HIDE DEF K
  <2> DEFINE h == [i \in 0..k + 1 |-> IF i <= k THEN g[i] ELSE g[k] \o ss[k + 1]]
  <2>2. ss[k + 1] \in Seq(S) /\ g[k] \in Seq(S)
    BY <1>1, <1>3, <2>1 DEF IsUpTo
  <2>3. g[k] \o ss[k + 1] \in Seq(S)
    BY <2>2, ConcatProperties
  <2>4. h \in [0..k + 1 -> Seq(S)]
    BY <2>1, <2>3 DEF IsUpTo
  <2>5. \A i \in 0..k : h[i] = g[i]
    OBVIOUS
  <2>6. h[k + 1] = g[k] \o ss[k + 1]
    <3>1. k + 1 \in 0..k + 1 /\ ~(k + 1 <= k)
      OBVIOUS
    <3> QED
      BY <3>1
  <2> HIDE DEF h
  <2>7. ASSUME NEW i \in 0..k
        PROVE  h[i + 1] = h[i] \o ss[i + 1]
    <3>1. CASE i = k
      BY <2>5, <2>6, <3>1
    <3>2. CASE i \in 0..k - 1
      <4>1. h[i] = g[i] /\ h[i + 1] = g[i + 1]
        BY <2>5, <3>2
      <4> QED
        BY <2>1, <3>2, <4>1 DEF IsUpTo
    <3>3. i = k \/ i \in 0..k - 1
      OBVIOUS
    <3> QED
      BY <3>1, <3>2, <3>3
  <2>8. h[0] = <<>>
    BY <2>1, <2>5 DEF IsUpTo
  <2>9. \A i \in 0..(k + 1) - 1 : h[i + 1] = h[i] \o ss[i + 1]
    <3>1. 0..(k + 1) - 1 = 0..k
      OBVIOUS
    <3> QED
      BY <2>7, <3>1, Zenon
  <2>10. IsUpTo(h, ss, S, k + 1)
    BY <2>4, <2>8, <2>9, Zenon DEF IsUpTo
  <2> QED
    BY <2>10
<1>4. ASSUME NEW k \in Nat, k \in K
      PROVE  k + 1 \in K
  <2>1. k + 1 <= Len(ss) => \E g : IsUpTo(g, ss, S, k + 1)
    BY <1>3, <1>4, Zenon
  <2> QED
    BY <2>1
<1>5. Nat \subseteq K
  <2> HIDE DEF K
  <2> QED
    BY <1>2, <1>4, NatInductionSet
<1> QED
  BY <1>1, <1>5

\* ... and solutions agree as far as the sequences do.
LEMMA UpToAgree ==
  ASSUME NEW S, NEW ss, NEW tt, NEW m \in Nat, NEW n \in Nat, m <= n,
         NEW g, IsUpTo(g, ss, S, n), NEW h, IsUpTo(h, tt, S, m),
         \A i \in 1..m : ss[i] = tt[i]
  PROVE  g[m] = h[m]
<1> DEFINE K == {k \in Nat : k <= m => g[k] = h[k]}
<1>1. 0 \in K
  BY DEF IsUpTo
<1>2. ASSUME NEW k \in Nat, k \in K, k + 1 <= m
      PROVE  g[k + 1] = h[k + 1]
  <2>1. g[k] = h[k] /\ ss[k + 1] = tt[k + 1]
    BY <1>2
  <2>2. k \in 0..n - 1 /\ k \in 0..m - 1
    BY <1>2
  <2>3. g[k + 1] = g[k] \o ss[k + 1] /\ h[k + 1] = h[k] \o tt[k + 1]
    BY <2>2 DEF IsUpTo
  <2> QED
    BY <2>1, <2>3
<1>3. \A k \in Nat : k \in K => k + 1 \in K
  BY <1>2
<1>4. Nat \subseteq K
  <2> HIDE DEF K
  <2> QED
    BY <1>1, <1>3, NatInductionSet
<1> QED
  BY <1>4

LEMMA JoinedIs ==
  ASSUME NEW S, NEW ss \in Seq(Seq(S)), NEW g, IsUpTo(g, ss, S, Len(ss))
  PROVE  Joined(ss) = g[Len(ss)]
<1> DEFINE Solves(f) == f = [i \in 0..Len(ss) |-> IF i = 0 THEN <<>> ELSE f[i - 1] \o ss[i]]
           upTo == CHOOSE f : Solves(f)
<1>1. Len(ss) \in Nat
  OBVIOUS
<1>2. Solves(g)
  <2>1. ASSUME NEW i \in 0..Len(ss), i # 0
        PROVE  g[i] = g[i - 1] \o ss[i]
    <3>1. i - 1 \in 0..Len(ss) - 1 /\ i - 1 + 1 = i
      BY <1>1, <2>1
    <3> QED
      BY <3>1 DEF IsUpTo
  <2>2. \A i \in 0..Len(ss) : g[i] = IF i = 0 THEN <<>> ELSE g[i - 1] \o ss[i]
    BY <2>1 DEF IsUpTo
  <2>3. g = [i \in 0..Len(ss) |-> g[i]]
    BY DEF IsUpTo
  <2> QED
    BY <2>2, <2>3
<1>3. Solves(upTo)
  BY <1>2
<1> HIDE DEF upTo
<1>4. \A i \in 0..Len(ss) : upTo[i] = IF i = 0 THEN <<>> ELSE upTo[i - 1] \o ss[i]
  BY <1>3, Zenon
<1> DEFINE K == {k \in Nat : k <= Len(ss) => upTo[k] = g[k]}
<1>5. 0 \in K
  BY <1>1, <1>4 DEF IsUpTo
<1>6. ASSUME NEW k \in Nat, k \in K, k + 1 <= Len(ss)
      PROVE  upTo[k + 1] = g[k + 1]
  <2>1. upTo[k] = g[k]
    BY <1>1, <1>6
  <2>2. k + 1 \in 0..Len(ss) /\ k + 1 # 0 /\ (k + 1) - 1 = k /\ k \in 0..Len(ss) - 1
    <3> HIDE DEF K
    <3> QED
      BY <1>1, <1>6
  <2>3. upTo[k + 1] = upTo[(k + 1) - 1] \o ss[k + 1]
    BY <1>4, <2>2, Zenon
  <2>4. g[k + 1] = g[k] \o ss[k + 1]
    BY <2>2 DEF IsUpTo
  <2> QED
    BY <2>1, <2>2, <2>3, <2>4
<1>7. \A k \in Nat : k \in K => k + 1 \in K
  BY <1>6
<1>8. Nat \subseteq K
  <2> HIDE DEF K
  <2> QED
    BY <1>5, <1>7, NatInductionSet
<1>9. upTo[Len(ss)] = g[Len(ss)]
  BY <1>1, <1>8
<1> QED
  BY <1>9 DEF upTo, Joined

LEMMA JoinedType ==
  ASSUME NEW S, NEW ss \in Seq(Seq(S))
  PROVE  Joined(ss) \in Seq(S)
<1>1. PICK g : IsUpTo(g, ss, S, Len(ss))
  BY UpToExists
<1>2. Joined(ss) = g[Len(ss)]
  BY <1>1, JoinedIs
<1>3. Len(ss) \in 0..Len(ss)
  OBVIOUS
<1> QED
  BY <1>1, <1>2, <1>3 DEF IsUpTo

LEMMA JoinedEmpty ==
  ASSUME NEW S
  PROVE  Joined(<<>>) = <<>>
<1>1. <<>> \in Seq(Seq(S)) /\ Len(<<>>) = 0
  OBVIOUS
<1>2. PICK g : IsUpTo(g, <<>>, S, 0)
  BY <1>1, UpToExists
<1> QED
  BY <1>1, <1>2, JoinedIs DEF IsUpTo

LEMMA JoinedAppend ==
  ASSUME NEW S, NEW ss \in Seq(Seq(S)), NEW s \in Seq(S)
  PROVE  Joined(Append(ss, s)) = Joined(ss) \o s
<1> DEFINE n == Len(ss)
           tt == Append(ss, s)
<1>1. n \in Nat /\ tt \in Seq(Seq(S)) /\ Len(tt) = n + 1
  OBVIOUS
<1>2. (\A i \in 1..n : tt[i] = ss[i]) /\ tt[n + 1] = s
  OBVIOUS
<1>3. PICK h : IsUpTo(h, ss, S, n)
  BY UpToExists
<1> HIDE DEF tt, n
<1>4. PICK g : IsUpTo(g, tt, S, n + 1)
  BY <1>1, UpToExists
<1>5. g[n] = h[n]
  <2>1. n + 1 \in Nat /\ n <= n + 1
    BY <1>1
  <2> QED
    BY <1>1, <1>2, <1>3, <1>4, <2>1, UpToAgree
<1>6. g[n + 1] = g[n] \o tt[n + 1]
  <2>1. n \in 0..(n + 1) - 1
    BY <1>1
  <2> QED
    BY <1>4, <2>1 DEF IsUpTo
<1>7. Joined(ss) = h[n] /\ Joined(tt) = g[n + 1]
  BY <1>1, <1>3, <1>4, JoinedIs DEF n
<1> QED
  BY <1>2, <1>5, <1>6, <1>7 DEF tt, n

\* What is joined starts with the first sequence.
LEMMA JoinedFirst ==
  ASSUME NEW S, NEW ss \in Seq(Seq(S)), ss # <<>>
  PROVE  Joined(ss) = ss[1] \o Joined(Tail(ss))
<1> DEFINE Q == Seq(Seq(S))
           Holds(tt) == Joined(tt) = tt[1] \o Joined(Tail(tt))
           K == {n \in Nat : \A tt \in Q : Len(tt) = n + 1 => Holds(tt)}
<1>1. 0 \in K
  <2> SUFFICES ASSUME NEW tt \in Q, Len(tt) = 1
               PROVE  Holds(tt)
    <3> HIDE DEF Q, Holds
    <3>1. 0 + 1 = 1 /\ 0 \in Nat
      OBVIOUS
    <3> QED
      BY <3>1
  <2>1. tt = Append(<<>>, tt[1]) /\ Tail(tt) = <<>> /\ <<>> \in Q /\ tt[1] \in Seq(S)
    <3>0. tt # <<>>
      <4>1. Len(<<>>) = 0
        OBVIOUS
      <4>2. Len(tt) # Len(<<>>)
        BY <4>1
      <4> QED
        BY <4>2, Zenon
    <3>1. PICK uu \in Q, e \in Seq(S) : tt = Append(uu, e)
      BY <3>0, SequenceEmptyOrAppend
    <3>2. uu = <<>>
      BY <3>1
    <3>3. Tail(tt) = <<>>
      BY <3>1, <3>2, HeadTailAppend
    <3> QED
      BY <3>1, <3>2, <3>3
  <2>2. Joined(<<>>) = <<>>
    BY JoinedEmpty
  <2>3. Joined(tt) = Joined(<<>>) \o tt[1]
    BY <2>1, JoinedAppend
  <2> QED
    BY <2>1, <2>2, <2>3, ConcatEmptySeq
<1>2. ASSUME NEW n \in Nat, n \in K, NEW tt \in Q, Len(tt) = n + 2
      PROVE  Holds(tt)
  <2>0. tt # <<>>
    BY <1>2
  <2>1. PICK uu \in Q, e \in Seq(S) : tt = Append(uu, e)
    BY <2>0, SequenceEmptyOrAppend
  <2>2. Len(uu) = n + 1
    BY <1>2, <2>1
  <2>3. Holds(uu)
    BY <1>2, <2>2
  <2>4. uu # <<>> /\ tt[1] = uu[1] /\ uu[1] \in Seq(S) /\ Tail(uu) \in Q
    BY <2>1, <2>2
  <2>5. Tail(tt) = Append(Tail(uu), e)
    BY <2>1, <2>4, HeadTailAppend
  <2> HIDE DEF K, Q
  <2>6. Joined(tt) = Joined(uu) \o e
    BY <2>1, JoinedAppend DEF Q
  <2>7. Joined(Tail(tt)) = Joined(Tail(uu)) \o e
    BY <2>1, <2>4, <2>5, JoinedAppend DEF Q
  <2>8. Joined(Tail(uu)) \in Seq(S)
    BY <2>4, JoinedType DEF Q
  <2>9. (uu[1] \o Joined(Tail(uu))) \o e = uu[1] \o (Joined(Tail(uu)) \o e)
    <3> DEFINE a == uu[1]
               b == Joined(Tail(uu))
    <3>1. a \in Seq(S) /\ b \in Seq(S) /\ e \in Seq(S)
      BY <2>4, <2>8
    <3> HIDE DEF a, b
    <3>2. (a \o b) \o e = a \o (b \o e)
      BY <3>1, ConcatAssociative
    <3> QED
      BY <3>2 DEF a, b
  <2> QED
    BY <2>3, <2>4, <2>6, <2>7, <2>9
<1>3. ASSUME NEW n \in Nat, n \in K
      PROVE  n + 1 \in K
  <2>1. (n + 1) + 1 = n + 2
    OBVIOUS
  <2>2. \A tt \in Q : Len(tt) = n + 2 => Holds(tt)
    <3> HIDE DEF K, Holds
    <3> QED
      BY <1>2, <1>3
  <2> HIDE DEF Q, Holds
  <2> QED
    BY <2>1, <2>2
<1>4. Nat \subseteq K
  <2> HIDE DEF K
  <2> QED
    BY <1>1, <1>3, NatInductionSet
<1>5. Len(ss) - 1 \in Nat /\ (Len(ss) - 1) + 1 = Len(ss)
  OBVIOUS
<1>6. Len(ss) - 1 \in K
  <2> HIDE DEF K
  <2> QED
    BY <1>4, <1>5
<1> QED
  BY <1>5, <1>6

-----------------------------------------------------------------------------
(***************************************************************************)
(* queueNode: its contents are a queue of at most NodeSize elements.       *)
(***************************************************************************)
Elements == Values \cup {NoValue}

QueueNode ==
  [buf : [0..NodeSize - 1 -> Elements], head : 0..NodeSize - 1, len : 0..NodeSize,
   next : Nodes \cup {Nil}]

LEMMA NodeContentsType ==
  ASSUME NEW qn \in QueueNode
  PROVE  /\ NodeContents(qn) \in Seq(Elements)
         /\ Len(NodeContents(qn)) = qn.len
<1>1. qn.len \in Nat /\ qn.len <= NodeSize
  BY FifoAssumption DEF QueueNode
<1>2. ASSUME NEW i \in 1..qn.len
      PROVE  qn.buf[RingIndex(qn.head + i - 1)] \in Elements
  <2>1. qn.head + i - 1 \in 0..2 * NodeSize - 1
    BY <1>1, FifoAssumption DEF QueueNode
  <2>2. RingIndex(qn.head + i - 1) \in 0..NodeSize - 1
    BY <2>1, RingIndexWraps, FifoAssumption
  <2> QED
    BY <2>2 DEF QueueNode
<1> QED
  BY <1>1, <1>2 DEF NodeContents

LEMMA NodePushBackAppends ==
  ASSUME NEW qn \in QueueNode, ~IsFull(qn), NEW v \in Elements
  PROVE  /\ NodePushBack(qn, v) \in QueueNode
         /\ NodeContents(NodePushBack(qn, v)) = Append(NodeContents(qn), v)
<1> DEFINE N == NodeSize
           rn == NodePushBack(qn, v)
           h == qn.head
           l == qn.len
           p == RingIndex(h + l)
<1>1. N \in Nat \ {0} /\ h \in 0..N - 1 /\ l \in 0..N - 1
  BY FifoAssumption DEF QueueNode, IsFull
<1>2. p = (IF h + l < N THEN h + l ELSE h + l - N) /\ p \in 0..N - 1
  <2>1. h + l \in 0..2 * N - 1
    BY <1>1
  <2>2. RingIndex(h + l) = IF h + l < N THEN h + l ELSE h + l - N
    BY <1>1, <2>1, RingIndexWraps
  <2> QED
    BY <1>1, <2>2
<1>3. /\ rn.buf = [qn.buf EXCEPT ![p] = v]
      /\ rn.head = h /\ rn.len = l + 1 /\ rn.next = qn.next
      /\ rn = [buf |-> rn.buf, head |-> rn.head, len |-> rn.len, next |-> rn.next]
  <2> HIDE DEF p
  <2>1. rn = [qn EXCEPT !.buf = [qn.buf EXCEPT ![p] = v], !.len = l + 1]
    BY DEF NodePushBack, QueueNode, p
  <2> QED
    BY <2>1 DEF QueueNode
<1>4. rn.buf \in [0..N - 1 -> Elements]
  BY <1>2, <1>3 DEF QueueNode
<1>5. rn \in QueueNode
  <2>1. rn.head \in 0..N - 1 /\ rn.len \in 0..N /\ rn.next \in Nodes \cup {Nil}
    BY <1>1, <1>3 DEF QueueNode
  <2> HIDE DEF rn
  <2> QED
    BY <1>3, <1>4, <2>1 DEF QueueNode
<1>6. ASSUME NEW i \in 1..l + 1
      PROVE  rn.buf[RingIndex(h + i - 1)] =
               IF i <= l THEN qn.buf[RingIndex(h + i - 1)] ELSE v
  <2>1. h + i - 1 \in 0..2 * N - 1
    BY <1>1
  <2>2. RingIndex(h + i - 1) = IF h + i - 1 < N THEN h + i - 1 ELSE h + i - 1 - N
    <3> QED
      BY <1>1, <2>1, RingIndexWraps
  <2>3. RingIndex(h + i - 1) \in 0..N - 1 /\ (RingIndex(h + i - 1) = p <=> i = l + 1)
    BY <1>1, <1>2, <2>2
  <2>4. qn.buf \in [0..N - 1 -> Elements]
    BY DEF QueueNode
  <2>5. i <= l <=> i # l + 1
    BY <1>1
  <2> HIDE DEF p
  <2> QED
    BY <1>2, <1>3, <2>3, <2>4, <2>5
<1> HIDE DEF rn, p
<1>7. Len(NodeContents(qn)) = l /\ NodeContents(qn) \in Seq(Elements)
  BY NodeContentsType
<1>8. Len(NodeContents(rn)) = l + 1 /\ NodeContents(rn) \in Seq(Elements)
  BY <1>3, <1>5, NodeContentsType
<1>9. ASSUME NEW i \in 1..l + 1
      PROVE  NodeContents(rn)[i] = Append(NodeContents(qn), v)[i]
  <2>1. NodeContents(rn)[i] = rn.buf[RingIndex(h + i - 1)]
    BY <1>3 DEF NodeContents
  <2>2. i \in 1..l => NodeContents(qn)[i] = qn.buf[RingIndex(h + i - 1)]
    BY DEF NodeContents
  <2>3. Append(NodeContents(qn), v)[i] = IF i <= l THEN NodeContents(qn)[i] ELSE v
    BY <1>1, <1>7
  <2> QED
    BY <1>1, <1>6, <2>1, <2>2, <2>3
<1>10. Append(NodeContents(qn), v) \in Seq(Elements) /\ Len(Append(NodeContents(qn), v)) = l + 1
  BY <1>7
<1>11. NodeContents(rn) = Append(NodeContents(qn), v)
  BY <1>8, <1>9, <1>10, SeqEqual
<1> QED
  BY <1>5, <1>11 DEF rn

LEMMA NodePopFrontRemoves ==
  ASSUME NEW qn \in QueueNode, qn.len > 0
  PROVE  /\ NodePopFront(qn) \in QueueNode
         /\ NodePopFront(qn).len = qn.len - 1
         /\ NodePopFront(qn).next = qn.next
         /\ NodeContents(qn) = <<NodePeekFront(qn)>> \o NodeContents(NodePopFront(qn))
<1> DEFINE N == NodeSize
           rn == NodePopFront(qn)
           h == qn.head
           l == qn.len
           p == RingIndex(h + 1)
<1>1. N \in Nat \ {0} /\ h \in 0..N - 1 /\ l \in 1..N
  BY FifoAssumption DEF QueueNode
<1>2. p = (IF h + 1 < N THEN h + 1 ELSE h + 1 - N) /\ p \in 0..N - 1
  <2>1. h + 1 \in 0..2 * N - 1
    BY <1>1
  <2>2. RingIndex(h + 1) = IF h + 1 < N THEN h + 1 ELSE h + 1 - N
    BY <1>1, <2>1, RingIndexWraps
  <2> QED
    BY <1>1, <2>2
<1>3. /\ rn.buf = [qn.buf EXCEPT ![h] = NoValue]
      /\ rn.head = p /\ rn.len = l - 1 /\ rn.next = qn.next
      /\ rn = [buf |-> rn.buf, head |-> rn.head, len |-> rn.len, next |-> rn.next]
  <2> HIDE DEF p
  <2>1. rn = [qn EXCEPT !.buf = [qn.buf EXCEPT ![h] = NoValue], !.head = p, !.len = l - 1]
    BY DEF NodePopFront, QueueNode, p
  <2> QED
    BY <2>1 DEF QueueNode
<1>4. qn.buf \in [0..N - 1 -> Elements] /\ rn.buf \in [0..N - 1 -> Elements]
  BY <1>1, <1>3 DEF QueueNode, Elements
<1>5. rn \in QueueNode
  <2>1. rn.head \in 0..N - 1 /\ rn.len \in 0..N /\ rn.next \in Nodes \cup {Nil}
    BY <1>1, <1>2, <1>3 DEF QueueNode
  <2> HIDE DEF rn
  <2> QED
    BY <1>3, <1>4, <2>1 DEF QueueNode
<1>6. ASSUME NEW i \in 1..l - 1
      PROVE  rn.buf[RingIndex(p + i - 1)] = qn.buf[RingIndex(h + i)]
  <2>1. p + i - 1 \in 0..2 * N - 1 /\ h + i \in 0..2 * N - 1
    BY <1>1, <1>2
  <2>2. RingIndex(p + i - 1) = IF p + i - 1 < N THEN p + i - 1 ELSE p + i - 1 - N
    <3> QED
      BY <1>1, <2>1, RingIndexWraps
  <2>3. RingIndex(h + i) = IF h + i < N THEN h + i ELSE h + i - N
    <3> QED
      BY <1>1, <2>1, RingIndexWraps
  <2>4. RingIndex(p + i - 1) = RingIndex(h + i) /\ RingIndex(h + i) # h /\ RingIndex(h + i) \in 0..N - 1
    <3> HIDE DEF N, h, l, p, rn
    <3> QED
      BY <1>1, <1>2, <2>2, <2>3
  <2> HIDE DEF p
  <2> QED
    BY <1>1, <1>3, <1>4, <2>4
<1> HIDE DEF rn, p
<1>7. Len(NodeContents(qn)) = l /\ NodeContents(qn) \in Seq(Elements)
  BY NodeContentsType
<1>8. Len(NodeContents(rn)) = l - 1 /\ NodeContents(rn) \in Seq(Elements)
  BY <1>3, <1>5, NodeContentsType
<1> DEFINE front == <<NodePeekFront(qn)>>
<1>9. front \in Seq(Elements) /\ Len(front) = 1 /\ front[1] = qn.buf[h]
  BY <1>1, <1>4 DEF NodePeekFront
<1> HIDE DEF front
<1>10. /\ front \o NodeContents(rn) \in Seq(Elements)
       /\ Len(front \o NodeContents(rn)) = l
       /\ \A i \in 1..l : (front \o NodeContents(rn))[i] =
                            IF i = 1 THEN front[1] ELSE NodeContents(rn)[i - 1]
  <2> DEFINE rest == NodeContents(rn)
  <2>1. front \in Seq(Elements) /\ rest \in Seq(Elements)
    BY <1>8, <1>9
  <2>2. /\ front \o rest \in Seq(Elements)
        /\ Len(front \o rest) = Len(front) + Len(rest)
        /\ \A i \in 1..Len(front) + Len(rest) :
             (front \o rest)[i] = IF i <= Len(front) THEN front[i] ELSE rest[i - Len(front)]
    BY <2>1, ConcatProperties, Zenon
  <2>3. Len(front) = 1 /\ Len(rest) = l - 1 /\ l \in Nat
    BY <1>1, <1>8, <1>9
  <2> HIDE DEF rest, l
  <2> QED
    BY <2>2, <2>3 DEF rest
<1>11. ASSUME NEW i \in 1..l
       PROVE  NodeContents(qn)[i] = (front \o NodeContents(rn))[i]
  <2>1. NodeContents(qn)[i] = qn.buf[RingIndex(h + i - 1)]
    BY DEF NodeContents
  <2>2. CASE i = 1
    <3>1. h + i - 1 = h /\ RingIndex(h) = h
      BY <1>1, <2>2, RingIndexWraps, FifoAssumption
    <3> QED
      BY <1>9, <1>10, <2>1, <2>2, <3>1
  <2>3. CASE i # 1
    <3>1. i - 1 \in 1..l - 1 /\ h + (i - 1) = h + i - 1
      BY <1>1, <2>3
    <3>2. NodeContents(rn)[i - 1] = rn.buf[RingIndex(p + (i - 1) - 1)]
      BY <1>3, <3>1 DEF NodeContents
    <3>3. rn.buf[RingIndex(p + (i - 1) - 1)] = qn.buf[RingIndex(h + (i - 1))]
      BY <1>6, <3>1
    <3> QED
      BY <1>10, <2>1, <2>3, <3>1, <3>2, <3>3
  <2> QED
    BY <2>2, <2>3
<1>12. NodeContents(qn) = front \o NodeContents(rn)
  BY <1>7, <1>10, <1>11, SeqEqual
<1> QED
  BY <1>3, <1>5, <1>12 DEF rn, front

-----------------------------------------------------------------------------
(***************************************************************************)
(* Chains of nodes.                                                        *)
(***************************************************************************)
\* The list that starts at n consists of the nodes of c, and ends.
IsList(heap, n, c) ==
  /\ c \in Seq(Nodes)
  /\ \A i, j \in 1..Len(c) : c[i] = c[j] => i = j
  /\ n = IF Len(c) = 0 THEN Nil ELSE c[1]
  /\ \A i \in 1..Len(c) : heap[c[i]].next = IF i = Len(c) THEN Nil ELSE c[i + 1]

LEMMA ListIsShort ==
  ASSUME NEW c \in Seq(Nodes), \A i, j \in 1..Len(c) : c[i] = c[j] => i = j
  PROVE  Cardinality(Nodes) \in Nat /\ Len(c) <= Cardinality(Nodes)
<1>1. Len(c) \in Nat /\ c \in [1..Len(c) -> Nodes]
  OBVIOUS
<1>2. c \in Injection(1..Len(c), Nodes)
  BY <1>1 DEF Injection, IsInjective
<1>3. Cardinality(1..Len(c)) <= Cardinality(Nodes)
  BY <1>2, FS_Injection, FifoAssumption
<1>4. Cardinality(1..Len(c)) = Len(c)
  BY <1>1, FS_Interval
<1> QED
  BY <1>3, <1>4, FS_CardinalityType, FifoAssumption

\* Chain follows the list to its end.
LEMMA ChainOfList ==
  ASSUME NEW heap, NEW n, NEW c, IsList(heap, n, c)
  PROVE  Chain(heap, n) = c
<1> DEFINE K == Cardinality(Nodes)
           l == Len(c)
           Next1(x) == IF x = Nil THEN Nil ELSE heap[x].next
           Solves(f) == f = [i \in 0..K |-> IF i = 0 THEN n ELSE Next1(f[i - 1])]
           walk == [i \in 0..K |-> IF i < l THEN c[i + 1] ELSE Nil]
           at == CHOOSE f : Solves(f)
<1>1. K \in Nat /\ l \in 0..K /\ c \in [1..l -> Nodes]
  BY ListIsShort DEF IsList
<1>0. /\ n = IF l = 0 THEN Nil ELSE c[1]
      /\ \A i \in 1..l : heap[c[i]].next = IF i = l THEN Nil ELSE c[i + 1]
  BY DEF IsList
<1> HIDE DEF K, l
<1>2. \A i \in 0..K : walk[i] = IF i < l THEN c[i + 1] ELSE Nil
  OBVIOUS
<1>3. ASSUME NEW i \in 0..K
      PROVE  walk[i] = IF i = 0 THEN n ELSE Next1(walk[i - 1])
  <2> HIDE DEF walk
  <2>1. CASE i = 0
    <3>1. 0 < l <=> l # 0
      BY <1>1
    <3>2. 0 + 1 = 1
      OBVIOUS
    <3> QED
      BY <1>0, <1>2, <2>1, <3>1, <3>2
  <2>2. CASE i # 0 /\ i <= l
    <3>1. walk[i - 1] = c[i]
      <4>1. i - 1 \in 0..K /\ i - 1 < l /\ (i - 1) + 1 = i
        BY <1>1, <2>2
      <4> QED
        BY <1>2, <4>1
    <3>2. c[i] \in Nodes /\ c[i] # Nil
      BY <1>1, <2>2, FifoAssumption
    <3>3. heap[c[i]].next = IF i = l THEN Nil ELSE c[i + 1]
      BY <1>0, <1>1, <2>2
    <3>4. i < l <=> i # l
      BY <1>1, <2>2
    <3> QED
      BY <1>2, <2>2, <3>1, <3>2, <3>3, <3>4
  <2>3. CASE i > l
    <3>1. i - 1 \in 0..K /\ ~(i - 1 < l) /\ ~(i < l) /\ i # 0
      BY <1>1, <2>3
    <3>2. walk[i - 1] = Nil /\ walk[i] = Nil
      BY <1>2, <3>1
    <3> QED
      BY <3>1, <3>2
  <2> QED
    BY <1>1, <2>1, <2>2, <2>3
<1>4. Solves(walk)
  <2>1. walk = [i \in 0..K |-> walk[i]]
    OBVIOUS
  <2> HIDE DEF walk, Next1
  <2> QED
    BY <1>3, <2>1
<1>5. Solves(at)
  <2> HIDE DEF walk, Solves
  <2> QED
    BY <1>4
<1> HIDE DEF at
<1>6. \A i \in 0..K : at[i] = IF i = 0 THEN n ELSE Next1(at[i - 1])
  <2> HIDE DEF Next1
  <2> QED
    BY <1>5, Zenon
<1> DEFINE Agree == {i \in Nat : i <= K => at[i] = walk[i]}
<1>7. 0 \in Agree
  <2>1. at[0] = n /\ walk[0] = n
    <3> HIDE DEF walk, Next1
    <3>1. 0 \in 0..K
      BY <1>1
    <3> QED
      BY <1>3, <1>6, <3>1
  <2> HIDE DEF walk
  <2> QED
    BY <2>1
<1>8. ASSUME NEW i \in Nat, i \in Agree
      PROVE  i + 1 \in Agree
  <2> HIDE DEF walk, Next1
  <2> SUFFICES ASSUME i + 1 <= K
               PROVE  at[i + 1] = walk[i + 1]
    OBVIOUS
  <2>1. at[i] = walk[i]
    BY <1>1, <1>8
  <2> HIDE DEF Agree
  <2>2. i + 1 \in 0..K /\ i + 1 # 0 /\ (i + 1) - 1 = i
    BY <1>1
  <2>3. at[i + 1] = Next1(at[(i + 1) - 1]) /\ walk[i + 1] = Next1(walk[(i + 1) - 1])
    BY <1>3, <1>6, <2>2, Zenon
  <2> QED
    BY <2>1, <2>2, <2>3
<1>9. Nat \subseteq Agree
  <2> HIDE DEF Agree
  <2> QED
    BY <1>7, <1>8, NatInductionSet
<1>10. \A i \in 0..K : at[i] = IF i < l THEN c[i + 1] ELSE Nil
  <2>1. \A i \in 0..K : at[i] = walk[i]
    <3> HIDE DEF walk
    <3> QED
      BY <1>1, <1>9
  <2> HIDE DEF walk
  <2> QED
    BY <1>2, <2>1
<1> DEFINE L == {i \in 0..K : at[i] # Nil}
<1>11. L = 0..l - 1
  BY <1>1, <1>10, FifoAssumption
<1>12. Cardinality(L) = l
  <2>1. Cardinality(0..l - 1) = IF 0 > l - 1 THEN 0 ELSE (l - 1) - 0 + 1
    <3>1. 0 \in Int /\ l - 1 \in Int
      BY <1>1
    <3> QED
      BY <3>1, FS_Interval, Zenon
  <2>2. (IF 0 > l - 1 THEN 0 ELSE (l - 1) - 0 + 1) = l
    BY <1>1
  <2> HIDE DEF L
  <2> QED
    BY <1>11, <2>1, <2>2
<1>13. [i \in 1..l |-> at[i - 1]] = c
  <2>1. ASSUME NEW i \in 1..l
        PROVE  at[i - 1] = c[i]
    <3>1. i - 1 \in 0..K /\ i - 1 < l /\ (i - 1) + 1 = i
      BY <1>1
    <3> QED
      BY <1>10, <3>1
  <2> QED
    BY <1>1, <2>1
<1>14. Chain(heap, n) = [i \in 1..Cardinality(L) |-> at[i - 1]]
  BY DEF Chain, at, K
<1> HIDE DEF L
<1> QED
  BY <1>12, <1>13, <1>14


-----------------------------------------------------------------------------
(***************************************************************************)
(* The invariant.  A node in use holds an element, a free one none: the    *)
(* lists cannot meet.                                                      *)
(***************************************************************************)
FifoTypeOK ==
  /\ node \in [Nodes -> QueueNode]
  /\ popped \in Elements

UsedOK ==
  LET c == Chain(node, head) IN
  /\ IsList(node, head, c)
  /\ Len(c) > 0 => tail = c[Len(c)]
  /\ \A i \in 1..Len(c) : node[c[i]].len > 0

FreeOK ==
  LET f == Chain(node, free) IN
  /\ IsList(node, free, f)
  /\ \A i \in 1..Len(f) : node[f[i]].len = 0

LenOK == len = Len(Contents)

FifoIInv == FifoTypeOK /\ UsedOK /\ FreeOK /\ LenOK

\* What the nodes of a list hold, one sequence a node.
Parts(heap, c) == [i \in 1..Len(c) |-> NodeContents(heap[c[i]])]

LEMMA PartsType ==
  ASSUME NEW heap \in [Nodes -> QueueNode], NEW c \in Seq(Nodes)
  PROVE  /\ Parts(heap, c) \in Seq(Seq(Elements))
         /\ Len(Parts(heap, c)) = Len(c)
<1>1. ASSUME NEW i \in 1..Len(c)
      PROVE  NodeContents(heap[c[i]]) \in Seq(Elements)
  BY NodeContentsType
<1> QED
  BY <1>1 DEF Parts

LEMMA ContentsType ==
  ASSUME FifoTypeOK, UsedOK
  PROVE  /\ Contents = Joined(Parts(node, Chain(node, head)))
         /\ Contents \in Seq(Elements)
<1>1. Contents = Joined(Parts(node, Chain(node, head)))
  BY DEF Contents, Parts
<1>2. Parts(node, Chain(node, head)) \in Seq(Seq(Elements))
  BY PartsType DEF FifoTypeOK, UsedOK, IsList
<1> QED
  BY <1>1, <1>2, JoinedType

\* No element is written into a node that get() may hand out (queue.go:40-55).
LEMMA UsedNotFree ==
  ASSUME FifoIInv
  PROVE  ListsDisjoint
<1> DEFINE c == Chain(node, head)
           f == Chain(node, free)
<1>1. /\ c \in Seq(Nodes) /\ f \in Seq(Nodes)
      /\ \A i \in 1..Len(c) : node[c[i]].len > 0
      /\ \A i \in 1..Len(f) : node[f[i]].len = 0
  BY DEF FifoIInv, UsedOK, FreeOK, IsList
<1>2. ChainSet(head) = {c[i] : i \in 1..Len(c)} /\ ChainSet(free) = {f[i] : i \in 1..Len(f)}
  BY <1>1 DEF ChainSet
<1> HIDE DEF c, f
<1> QED
  BY <1>1, <1>2 DEF ListsDisjoint

\* The next state has the invariant when its lists are known.
LEMMA ListsGiveInvariant ==
  ASSUME NEW c, NEW f,
         FifoTypeOK',
         IsList(node', head', c), Len(c) > 0 => tail' = c[Len(c)],
         \A i \in 1..Len(c) : node'[c[i]].len > 0,
         IsList(node', free', f), \A i \in 1..Len(f) : node'[f[i]].len = 0,
         len' = Len(Joined(Parts(node', c)))
  PROVE  FifoIInv' /\ Contents' = Joined(Parts(node', c))
<1>1. Chain(node', head') = c /\ Chain(node', free') = f
  BY ChainOfList
<1>2. Contents' = Joined(Parts(node', c))
  BY <1>1 DEF Contents, Parts
<1>3. UsedOK' /\ FreeOK'
  BY <1>1 DEF UsedOK, FreeOK
<1> QED
  BY <1>2, <1>3 DEF FifoIInv, LenOK

LEMMA FifoInitIInv == Init => FifoIInv /\ Contents = <<>>
<1> SUFFICES ASSUME Init
             PROVE  FifoIInv /\ Contents = <<>>
  OBVIOUS
<1>1. EmptyNode \in QueueNode
  BY FifoAssumption DEF EmptyNode, QueueNode, Elements
<1>2. FifoTypeOK
  BY <1>1 DEF Init, FifoTypeOK, Elements
<1>3. IsList(node, Nil, <<>>)
  BY DEF IsList
<1>4. Chain(node, Nil) = <<>>
  BY <1>3, ChainOfList
<1>5. UsedOK /\ FreeOK
  BY <1>3, <1>4 DEF Init, UsedOK, FreeOK
<1>6. Parts(node, <<>>) = <<>>
  BY DEF Parts
<1>7. Contents = <<>>
  BY <1>2, <1>4, <1>5, <1>6, ContentsType, JoinedEmpty DEF Init
<1> QED
  BY <1>2, <1>5, <1>7 DEF FifoIInv, LenOK, Init

-----------------------------------------------------------------------------
(***************************************************************************)
(* The steps: each keeps the invariant and does to the contents what a     *)
(* queue does.                                                             *)
(***************************************************************************)
\* An element added to the last of the parts is added at the end.
LEMMA JoinedLast ==
  ASSUME NEW S, NEW ss \in Seq(Seq(S)), NEW tt \in Seq(Seq(S)), NEW v \in S,
         Len(ss) > 0, Len(tt) = Len(ss),
         \A i \in 1..Len(ss) - 1 : tt[i] = ss[i],
         tt[Len(ss)] = Append(ss[Len(ss)], v)
  PROVE  Joined(tt) = Append(Joined(ss), v)
<1> DEFINE n == Len(ss)
           front == [i \in 1..n - 1 |-> ss[i]]
<1>1. n \in Nat \ {0} /\ ss[n] \in Seq(S) /\ tt[n] \in Seq(S)
  OBVIOUS
<1>2. front \in Seq(Seq(S)) /\ Len(front) = n - 1
  <2>1. \A i \in 1..n - 1 : ss[i] \in Seq(S)
    OBVIOUS
  <2> QED
    BY <1>1, <2>1
<1>3. ss = Append(front, ss[n]) /\ tt = Append(front, tt[n])
  <2> DEFINE a == Append(front, ss[n])
             b == Append(front, tt[n])
  <2>1. /\ a \in Seq(Seq(S)) /\ Len(a) = n
        /\ \A i \in 1..n : a[i] = IF i < n THEN ss[i] ELSE ss[n]
    BY <1>1, <1>2
  <2>2. /\ b \in Seq(Seq(S)) /\ Len(b) = n
        /\ \A i \in 1..n : b[i] = IF i < n THEN ss[i] ELSE tt[n]
    BY <1>1, <1>2
  <2> HIDE DEF a, b, front
  <2>3. \A i \in 1..n : a[i] = ss[i] /\ b[i] = tt[i]
    <3>1. \A i \in 1..n - 1 : tt[i] = ss[i]
      OBVIOUS
    <3>2. \A i \in 1..n : i = n \/ (i \in 1..n - 1 /\ i < n)
      BY <1>1
    <3>3. n \in 1..n /\ ~(n < n)
      BY <1>1
    <3> HIDE DEF n
    <3> QED
      BY <2>1, <2>2, <3>1, <3>2, <3>3
  <2>4. ss = a
    BY <2>1, <2>3, SeqEqual
  <2>5. tt = b
    BY <2>2, <2>3, SeqEqual
  <2> QED
    BY <2>4, <2>5 DEF a, b
<1> HIDE DEF front
<1>4. Joined(ss) = Joined(front) \o ss[n] /\ Joined(tt) = Joined(front) \o tt[n]
  BY <1>1, <1>2, <1>3, JoinedAppend
<1>5. Joined(front) \in Seq(S)
  BY <1>2, JoinedType
<1>6. Joined(front) \o Append(ss[n], v) = Append(Joined(front) \o ss[n], v)
  <2> DEFINE x == Joined(front)
             y == ss[n]
  <2>1. x \in Seq(S) /\ y \in Seq(S)
    BY <1>1, <1>5
  <2> HIDE DEF x, y
  <2>2. x \o Append(y, v) = Append(x \o y, v)
    BY <2>1
  <2> QED
    BY <2>2 DEF x, y
<1> QED
  BY <1>4, <1>6

LEMMA PushIntoTailStep ==
  ASSUME FifoIInv, NEW v \in Values, PushIntoTail(v)
  PROVE  FifoIInv' /\ Contents' = Append(Contents, v)
<1> DEFINE c == Chain(node, head)
           f == Chain(node, free)
           l == Len(c)
<1>1. /\ IsList(node, head, c) /\ IsList(node, free, f)
      /\ l > 0 => tail = c[l]
      /\ \A i \in 1..l : node[c[i]].len > 0
      /\ \A i \in 1..Len(f) : node[f[i]].len = 0
  BY DEF FifoIInv, UsedOK, FreeOK
<1> HIDE DEF c, f
<1>2. /\ c \in Seq(Nodes) /\ f \in Seq(Nodes) /\ l \in Nat /\ Len(f) \in Nat
      /\ \A i, j \in 1..l : c[i] = c[j] => i = j
      /\ l # 0 /\ c[l] \in Nodes
  BY <1>1 DEF IsList, PushIntoTail
<1>3. tail = c[l] /\ node \in [Nodes -> QueueNode] /\ v \in Elements
  BY <1>1, <1>2 DEF FifoIInv, FifoTypeOK, Elements
<1>4. /\ node' = [node EXCEPT ![tail] = NodePushBack(node[tail], v)]
      /\ len' = len + 1 /\ head' = head /\ tail' = tail /\ free' = free /\ popped' = popped
      /\ ~IsFull(node[tail])
  BY DEF PushIntoTail
<1>5. /\ NodePushBack(node[tail], v) \in QueueNode
      /\ NodeContents(NodePushBack(node[tail], v)) = Append(NodeContents(node[tail]), v)
  BY <1>2, <1>3, <1>4, NodePushBackAppends
<1>6. FifoTypeOK'
  BY <1>3, <1>4, <1>5 DEF FifoIInv, FifoTypeOK
<1>7. \A n \in Nodes : /\ n # tail => node'[n] = node[n]
                       /\ node'[n].next = node[n].next
                       /\ node'[n].len = IF n = tail THEN node[n].len + 1 ELSE node[n].len
  BY <1>2, <1>3, <1>4 DEF NodePushBack, QueueNode
<1>8. node'[tail] = NodePushBack(node[tail], v)
  BY <1>2, <1>3, <1>4
<1>9. IsList(node', head', c) /\ IsList(node', free', f)
  BY <1>1, <1>2, <1>4, <1>7 DEF IsList
<1>10. \A i \in 1..l : node'[c[i]].len > 0
  BY <1>1, <1>2, <1>3, <1>7 DEF QueueNode
<1>11. \A i \in 1..Len(f) : node'[f[i]].len = 0
  BY <1>1, <1>2, <1>3, <1>7
<1> DEFINE ss == Parts(node, c)
           tt == Parts(node', c)
<1>12. ss \in Seq(Seq(Elements)) /\ Len(ss) = l
  BY <1>2, <1>3, PartsType
<1>13. tt \in Seq(Seq(Elements)) /\ Len(tt) = l
  BY <1>2, <1>6, PartsType DEF FifoTypeOK
<1>14. ASSUME NEW i \in 1..l - 1
       PROVE  tt[i] = ss[i]
  <2>1. i \in 1..l /\ i # l /\ l \in 1..l
    BY <1>2
  <2>2. c[i] # tail /\ c[i] \in Nodes
    BY <1>2, <1>3, <2>1
  <2>3. node'[c[i]] = node[c[i]]
    BY <1>7, <2>2
  <2> QED
    BY <2>1, <2>3 DEF Parts
<1>15. tt[l] = Append(ss[l], v)
  <2>1. l \in 1..l
    BY <1>2
  <2> QED
    BY <1>3, <1>5, <1>8, <2>1 DEF Parts
<1> HIDE DEF ss, tt
<1>16. Joined(tt) = Append(Joined(ss), v)
  <2>1. l > 0
    BY <1>2
  <2> HIDE DEF l
  <2> QED
    <3>1. Len(ss) = l /\ Len(tt) = l
      BY <1>12, <1>13
    <3>2. \A i \in 1..Len(ss) - 1 : tt[i] = ss[i]
      BY <1>14, <3>1
    <3>3. tt[Len(ss)] = Append(ss[Len(ss)], v) /\ Len(ss) > 0 /\ Len(tt) = Len(ss)
      BY <1>15, <2>1, <3>1
    <3> QED
      BY <1>3, <1>12, <1>13, <3>2, <3>3, JoinedLast
<1>17. Joined(ss) \in Seq(Elements) /\ Contents = Joined(ss) /\ len = Len(Joined(ss))
  BY ContentsType DEF FifoIInv, LenOK, ss, c
<1>18. len' = Len(Joined(tt))
  BY <1>3, <1>4, <1>16, <1>17
<1> QED
  BY <1>3, <1>4, <1>6, <1>9, <1>10, <1>11, <1>16, <1>17, <1>18, ListsGiveInvariant DEF tt

\* A node that get() returns is on neither list and holds nothing.
LEMMA GotIsFresh ==
  ASSUME FifoIInv, NEW n \in Nodes, Gets(n)
  PROVE  /\ Got(n) \in QueueNode
         /\ Got(n).len = 0
         /\ Got(n).next = Nil
         /\ \A i \in 1..Len(Chain(node, head)) : Chain(node, head)[i] # n
<1> DEFINE c == Chain(node, head)
           f == Chain(node, free)
<1>1. /\ IsList(node, free, f) /\ c \in Seq(Nodes)
      /\ \A i \in 1..Len(c) : node[c[i]].len > 0
      /\ \A i \in 1..Len(f) : node[f[i]].len = 0
      /\ node \in [Nodes -> QueueNode]
  BY DEF FifoIInv, FifoTypeOK, UsedOK, FreeOK, IsList
<1>2. ChainSet(head) = {c[i] : i \in 1..Len(c)}
  BY <1>1 DEF ChainSet
<1> HIDE DEF c, f
<1>3. CASE free # Nil
  <2>1. n = free /\ Got(n) = [node[n] EXCEPT !.next = Nil]
    BY <1>3 DEF Gets, Got
  <2>2. 1 \in 1..Len(f) /\ n = f[1]
    BY <1>1, <1>3, <2>1 DEF IsList
  <2>3. node[n].len = 0
    BY <1>1, <2>2
  <2>4. \A i \in 1..Len(c) : c[i] # n
    BY <1>1, <2>3
  <2>5. Got(n) \in QueueNode /\ Got(n).len = 0 /\ Got(n).next = Nil
    BY <1>1, <2>1, <2>3 DEF QueueNode
  <2> QED
    BY <2>4, <2>5 DEF c
<1>4. CASE free = Nil
  <2>1. Got(n) = EmptyNode /\ n \notin ChainSet(head)
    BY <1>4 DEF Gets, Got
  <2>2. \A i \in 1..Len(c) : c[i] # n
    BY <1>2, <2>1
  <2>3. EmptyNode \in QueueNode /\ EmptyNode.len = 0 /\ EmptyNode.next = Nil
    BY FifoAssumption DEF EmptyNode, QueueNode, Elements
  <2> QED
    BY <2>1, <2>2, <2>3 DEF c
<1> QED
  BY <1>3, <1>4

LEMMA PushIntoNewStep ==
  ASSUME FifoIInv, NEW v \in Values, NEW n \in Nodes, PushIntoNew(v, n)
  PROVE  FifoIInv' /\ Contents' = Append(Contents, v)
<1> DEFINE c == Chain(node, head)
           l == Len(c)
           d == Append(c, n)
           new == NodePushBack(Got(n), v)
<1>1. /\ IsList(node, head, c)
      /\ l > 0 => tail = c[l]
      /\ \A i \in 1..l : node[c[i]].len > 0
  BY DEF FifoIInv, UsedOK
<1>2. Gets(n)
  BY DEF PushIntoNew
<1>3. /\ Got(n) \in QueueNode /\ Got(n).len = 0 /\ Got(n).next = Nil
      /\ \A i \in 1..l : c[i] # n
  BY <1>2, GotIsFresh
<1> HIDE DEF c
<1>4. /\ c \in Seq(Nodes) /\ l \in Nat /\ \A i \in 1..l : c[i] \in Nodes
      /\ \A i, j \in 1..l : c[i] = c[j] => i = j
      /\ head = IF l = 0 THEN Nil ELSE c[1]
      /\ \A i \in 1..l : node[c[i]].next = IF i = l THEN Nil ELSE c[i + 1]
  BY <1>1 DEF IsList
<1>5. head = Nil <=> l = 0
  BY <1>4, FifoAssumption
<1>6. node \in [Nodes -> QueueNode] /\ popped \in Elements /\ v \in Elements
  BY DEF FifoIInv, FifoTypeOK, Elements
<1>7. ~IsFull(Got(n))
  BY <1>3, FifoAssumption DEF IsFull
<1>8. new \in QueueNode /\ NodeContents(new) = Append(NodeContents(Got(n)), v)
  BY <1>3, <1>6, <1>7, NodePushBackAppends
<1>9. NodeContents(new) = <<v>>
  <2>1. NodeContents(Got(n)) = <<>>
    BY <1>3 DEF NodeContents
  <2> HIDE DEF new
  <2> QED
    BY <1>8, <2>1
<1>10. new.len = 1 /\ new.next = Nil
  BY <1>3 DEF NodePushBack, QueueNode
<1>11. /\ head' = IF l = 0 THEN n ELSE head
       /\ node' = IF l = 0 THEN [node EXCEPT ![n] = new]
                  ELSE [node EXCEPT ![n] = new, ![tail].next = n]
       /\ tail' = n /\ free' = Nil /\ len' = len + 1 /\ popped' = popped
  BY <1>5 DEF PushIntoNew
<1> HIDE DEF new
<1>12. l > 0 => tail \in Nodes /\ tail # n /\ tail = c[l]
  BY <1>1, <1>3, <1>4
<1>13. /\ node'[n] = new
       /\ \A m \in Nodes \ {n} :
            node'[m] = IF l > 0 /\ m = tail THEN [node[m] EXCEPT !.next = n] ELSE node[m]
       /\ node' \in [Nodes -> QueueNode]
  <2>1. CASE l = 0
    BY <1>6, <1>8, <1>11, <2>1
  <2>2. CASE l > 0
    <3>1. [node[tail] EXCEPT !.next = n] \in QueueNode
      BY <1>6, <1>12, <2>2 DEF QueueNode
    <3>2. node' = [node EXCEPT ![n] = new, ![tail].next = n]
      BY <1>11, <2>2
    <3> QED
      BY <1>6, <1>8, <1>12, <2>2, <3>1, <3>2
  <2>3. l = 0 \/ l > 0
    BY <1>4
  <2> HIDE DEF l
  <2> QED
    BY <2>1, <2>2, <2>3
<1>14. FifoTypeOK'
  BY <1>6, <1>11, <1>13 DEF FifoTypeOK
<1>15. /\ d \in Seq(Nodes) /\ Len(d) = l + 1 /\ d[l + 1] = n
       /\ \A i \in 1..l : d[i] = c[i]
       /\ \A i \in 1..l + 1 : i = l + 1 \/ i \in 1..l
  BY <1>4
<1> HIDE DEF d
<1>16. \A i, j \in 1..l + 1 : d[i] = d[j] => i = j
  BY <1>3, <1>4, <1>15
<1>17. head' = d[1]
  <2>1. CASE l = 0
    BY <1>11, <1>15, <2>1
  <2>2. CASE l > 0
    BY <1>4, <1>11, <1>15, <2>2
  <2> QED
    BY <1>4, <2>1, <2>2
<1>18. ASSUME NEW i \in 1..l
       PROVE  node'[d[i]].next = d[i + 1] /\ node'[d[i]].len = node[c[i]].len
  <2>1. d[i] = c[i] /\ c[i] \in Nodes \ {n} /\ node[c[i]] \in QueueNode /\ l > 0
    BY <1>3, <1>4, <1>6, <1>15
  <2>2. node'[c[i]] = IF c[i] = tail THEN [node[c[i]] EXCEPT !.next = n] ELSE node[c[i]]
    BY <1>13, <2>1
  <2>3. CASE i = l
    <3>1. c[i] = tail /\ d[i + 1] = n
      BY <1>12, <1>15, <2>1, <2>3
    <3> QED
      BY <2>1, <2>2, <3>1 DEF QueueNode
  <2>4. CASE i # l
    <3>1. i + 1 \in 1..l /\ l \in 1..l
      BY <1>4, <2>4
    <3>2. c[i] # tail
      BY <1>4, <1>12, <2>1, <2>4, <3>1
    <3>3. node[c[i]].next = c[i + 1] /\ d[i + 1] = c[i + 1]
      BY <1>4, <1>15, <2>4, <3>1
    <3> QED
      BY <2>1, <2>2, <3>2, <3>3
  <2> QED
    BY <2>3, <2>4
<1>19. IsList(node', head', d)
  <2>1. ASSUME NEW i \in 1..Len(d)
        PROVE  node'[d[i]].next = IF i = Len(d) THEN Nil ELSE d[i + 1]
    <3>1. CASE i = l + 1
      BY <1>10, <1>13, <1>15, <3>1
    <3>2. CASE i # l + 1
      <4>1. i \in 1..l
        BY <1>15, <3>2
      <4> QED
        BY <1>15, <1>18, <3>2, <4>1
    <3> QED
      BY <3>1, <3>2
  <2>2. Len(d) # 0
    BY <1>4, <1>15
  <2> QED
    BY <1>15, <1>16, <1>17, <2>1, <2>2 DEF IsList
<1>20. \A i \in 1..Len(d) : node'[d[i]].len > 0
  BY <1>1, <1>10, <1>13, <1>15, <1>18
<1>21. IsList(node', free', <<>>)
  BY <1>11 DEF IsList
<1> DEFINE ss == Parts(node, c)
           tt == Parts(node', d)
<1>22. ss \in Seq(Seq(Elements)) /\ Len(ss) = l
  BY <1>4, <1>6, PartsType
<1>23. tt \in Seq(Seq(Elements)) /\ Len(tt) = l + 1
  BY <1>13, <1>15, PartsType
<1>24. ASSUME NEW i \in 1..l
       PROVE  tt[i] = ss[i]
  <2>1. d[i] = c[i] /\ c[i] \in Nodes \ {n} /\ node[c[i]] \in QueueNode /\ i \in 1..Len(d)
    BY <1>3, <1>4, <1>6, <1>15
  <2>2. \/ node'[c[i]] = node[c[i]]
        \/ node'[c[i]] = [node[c[i]] EXCEPT !.next = n]
    BY <1>13, <2>1
  <2>3. NodeContents(node'[c[i]]) = NodeContents(node[c[i]])
    BY <2>1, <2>2 DEF NodeContents, QueueNode
  <2> QED
    BY <2>1, <2>3 DEF Parts
<1>25. tt[l + 1] = <<v>>
  <2>1. l + 1 \in 1..Len(d)
    BY <1>4, <1>15
  <2> QED
    BY <1>9, <1>13, <1>15, <2>1 DEF Parts
<1> HIDE DEF ss, tt
<1>26. tt = Append(ss, <<v>>)
  <2> DEFINE a == Append(ss, <<v>>)
  <2>1. <<v>> \in Seq(Elements)
    BY <1>6
  <2> HIDE DEF l
  <2>2. a \in Seq(Seq(Elements)) /\ Len(a) = l + 1
    BY <1>22, <2>1
  <2>3. \A i \in 1..l + 1 : a[i] = IF i \in 1..l THEN ss[i] ELSE <<v>>
    BY <1>4, <1>22, <2>1
  <2> HIDE DEF a
  <2>4. \A i \in 1..l + 1 : tt[i] = a[i]
    <3>1. l + 1 \notin 1..l
      BY <1>4
    <3> QED
      BY <1>15, <1>24, <1>25, <2>3, <3>1
  <2>5. tt = a
    BY <1>23, <2>2, <2>4, SeqEqual
  <2> QED
    BY <2>5 DEF a
<1>27. Joined(tt) = Joined(ss) \o <<v>>
  <2>1. <<v>> \in Seq(Elements)
    BY <1>6
  <2> QED
    BY <1>22, <1>26, <2>1, JoinedAppend
<1>28. Joined(ss) \in Seq(Elements) /\ Contents = Joined(ss) /\ len = Len(Joined(ss))
  BY ContentsType DEF FifoIInv, LenOK, ss, c
<1>29. Joined(tt) = Append(Joined(ss), v)
  BY <1>6, <1>27, <1>28
<1>30. len' = Len(Joined(tt))
  BY <1>6, <1>11, <1>28, <1>29
<1>31. tail' = d[Len(d)]
  BY <1>11, <1>15
<1>32. \A i \in 1..Len(<<>>) : node'[<<>>[i]].len = 0
  OBVIOUS
<1>33. FifoIInv' /\ Contents' = Joined(tt)
  BY <1>14, <1>19, <1>20, <1>21, <1>30, <1>31, <1>32, ListsGiveInvariant DEF tt
<1> QED
  BY <1>28, <1>29, <1>33

\* What both outcomes of Pop share: the oldest element leaves the first node.
LEMMA PopTakesFirst ==
  ASSUME FifoIInv, Pop, NEW c, c = Chain(node, head), NEW qn, qn = NodePopFront(node[head])
  PROVE  /\ c \in Seq(Nodes) /\ Len(c) > 0 /\ head = c[1] /\ head \in Nodes
         /\ popped' \in Elements
         /\ qn \in QueueNode /\ qn.next = node[head].next
         /\ Parts(node, c) \in Seq(Seq(Elements)) /\ Len(Parts(node, c)) = Len(c)
         /\ Parts(node, c)[1] = <<popped'>> \o NodeContents(qn)
         /\ Contents = Parts(node, c)[1] \o Joined(Tail(Parts(node, c)))
         /\ len = Len(Contents)
<1>1. IsList(node, head, c) /\ \A i \in 1..Len(c) : node[c[i]].len > 0
  BY DEF FifoIInv, UsedOK
<1>2. c \in Seq(Nodes) /\ head = IF Len(c) = 0 THEN Nil ELSE c[1]
  BY <1>1 DEF IsList
<1>3. node \in [Nodes -> QueueNode]
  BY DEF FifoIInv, FifoTypeOK
<1>4. Parts(node, c) \in Seq(Seq(Elements)) /\ Len(Parts(node, c)) = Len(c)
  BY <1>2, <1>3, PartsType
<1>5. Contents = Joined(Parts(node, c)) /\ len = Len(Contents)
  BY ContentsType DEF FifoIInv, LenOK
<1>6. Len(c) > 0
  <2>1. CASE Len(c) = 0
    <3>1. Parts(node, c) = <<>>
      BY <1>4, <2>1
    <3>2. len = 0
      BY <1>5, <3>1, JoinedEmpty
    <3> QED
      BY <3>2 DEF Pop
  <2> QED
    BY <1>2, <2>1
<1>7. 1 \in 1..Len(c) /\ head = c[1] /\ head \in Nodes /\ node[head].len > 0
  BY <1>1, <1>2, <1>6
<1>8. node[head] \in QueueNode
  BY <1>3, <1>7
<1>9. /\ qn \in QueueNode /\ qn.next = node[head].next
      /\ NodePeekFront(node[head]) \in Elements
      /\ NodeContents(node[head]) = <<NodePeekFront(node[head])>> \o NodeContents(qn)
  <2>1. NodePeekFront(node[head]) \in Elements
    BY <1>8 DEF NodePeekFront, QueueNode
  <2> QED
    BY <1>7, <1>8, <2>1, NodePopFrontRemoves
<1>10. popped' = NodePeekFront(node[head])
  BY DEF Pop
<1>11. Parts(node, c)[1] = NodeContents(node[head])
  BY <1>7 DEF Parts
<1>12. Contents = Parts(node, c)[1] \o Joined(Tail(Parts(node, c)))
  <2> DEFINE ss == Parts(node, c)
  <2>1. ss \in Seq(Seq(Elements)) /\ Len(ss) = Len(c) /\ Contents = Joined(ss)
    BY <1>4, <1>5
  <2> HIDE DEF ss
  <2>2. ss # <<>>
    BY <1>6, <2>1
  <2>3. Joined(ss) = ss[1] \o Joined(Tail(ss))
    BY <2>1, <2>2, JoinedFirst
  <2> QED
    BY <2>1, <2>3 DEF ss
<1> QED
  BY <1>2, <1>4, <1>5, <1>6, <1>7, <1>9, <1>10, <1>11, <1>12

LEMMA PopLeavesNode ==
  ASSUME FifoIInv, Pop, NodePopFront(node[head]).len # 0
  PROVE  FifoIInv' /\ Contents = <<popped'>> \o Contents' /\ Contents' \in Seq(Elements)
<1> DEFINE c == Chain(node, head)
           f == Chain(node, free)
           qn == NodePopFront(node[head])
           l == Len(c)
           ss == Parts(node, c)
           tt == Parts(node', c)
<1>1. /\ IsList(node, head, c) /\ IsList(node, free, f)
      /\ l > 0 => tail = c[l]
      /\ \A i \in 1..l : node[c[i]].len > 0
      /\ \A i \in 1..Len(f) : node[f[i]].len = 0
      /\ node \in [Nodes -> QueueNode]
  BY DEF FifoIInv, FifoTypeOK, UsedOK, FreeOK
<1>2. /\ c \in Seq(Nodes) /\ l > 0 /\ head = c[1] /\ head \in Nodes
      /\ popped' \in Elements
      /\ qn \in QueueNode /\ qn.next = node[head].next
      /\ ss \in Seq(Seq(Elements)) /\ Len(ss) = l
      /\ ss[1] = <<popped'>> \o NodeContents(qn)
      /\ Contents = ss[1] \o Joined(Tail(ss))
      /\ len = Len(Contents)
  BY PopTakesFirst
<1>3. /\ node' = [node EXCEPT ![head] = qn] /\ head' = head /\ free' = free
      /\ tail' = tail /\ len' = len - 1 /\ qn.len # 0
  BY DEF Pop
<1> HIDE DEF c, f, qn
<1>4. /\ f \in Seq(Nodes)
      /\ \A i, j \in 1..l : c[i] = c[j] => i = j
  BY <1>1 DEF IsList
<1>5. /\ node' \in [Nodes -> QueueNode] /\ node'[head] = qn
      /\ \A m \in Nodes : m # head => node'[m] = node[m]
      /\ \A m \in Nodes : node'[m].next = node[m].next
  BY <1>1, <1>2, <1>3
<1>6. FifoTypeOK'
  BY <1>2, <1>5 DEF FifoTypeOK
<1>7. IsList(node', head', c) /\ IsList(node', free', f)
  <2>1. \A i \in 1..l : node'[c[i]].next = node[c[i]].next
    BY <1>2, <1>5
  <2>2. \A i \in 1..Len(f) : node'[f[i]].next = node[f[i]].next
    BY <1>4, <1>5
  <2>3. IsList(node', head', c)
    BY <1>1, <1>3, <2>1 DEF IsList
  <2>4. IsList(node', free', f)
    BY <1>1, <1>3, <2>2 DEF IsList
  <2> QED
    BY <2>3, <2>4
<1>8. ASSUME NEW i \in 1..l
      PROVE  node'[c[i]].len > 0
  <2>1. c[i] \in Nodes /\ node[c[i]].len > 0
    BY <1>1, <1>2
  <2>2. qn.len > 0
    BY <1>2, <1>3 DEF QueueNode
  <2> QED
    BY <1>5, <2>1, <2>2
<1>9. ASSUME NEW i \in 1..Len(f)
      PROVE  node'[f[i]].len = 0
  <2>1. f[i] \in Nodes /\ node[f[i]].len = 0
    BY <1>1, <1>4
  <2>2. node[head].len > 0
    BY <1>1, <1>2
  <2> QED
    BY <1>5, <2>1, <2>2
<1>10. tt \in Seq(Seq(Elements)) /\ Len(tt) = l
  BY <1>2, <1>5, PartsType
<1>11. tt[1] = NodeContents(qn)
  BY <1>2, <1>5 DEF Parts
<1>12. ASSUME NEW i \in 2..l
       PROVE  tt[i] = ss[i]
  <2>1. i \in 1..l /\ 1 \in 1..l /\ i # 1
    BY <1>2
  <2>2. c[i] # head /\ c[i] \in Nodes
    BY <1>2, <1>4, <2>1
  <2> QED
    BY <1>5, <2>1, <2>2 DEF Parts
<1> HIDE DEF ss, tt
<1>13. Tail(tt) = Tail(ss)
  <2>1. Len(Tail(tt)) = l - 1 /\ Len(Tail(ss)) = l - 1
    BY <1>2, <1>10
  <2>2. Tail(tt) \in Seq(Seq(Elements)) /\ Tail(ss) \in Seq(Seq(Elements))
    BY <1>2, <1>10
  <2>3. ASSUME NEW i \in 1..l - 1
        PROVE  Tail(tt)[i] = Tail(ss)[i]
    <3>1. Tail(tt)[i] = tt[i + 1] /\ Tail(ss)[i] = ss[i + 1] /\ i + 1 \in 2..l
      BY <1>2, <1>10
    <3> QED
      BY <1>12, <3>1
  <2> QED
    BY <2>1, <2>2, <2>3, SeqEqual
<1>14. Joined(tt) = tt[1] \o Joined(Tail(tt))
  <2>1. tt # <<>>
    BY <1>2, <1>10
  <2> QED
    BY <1>10, <2>1, JoinedFirst
<1>15. Contents = <<popped'>> \o Joined(tt)
  <2> DEFINE x == NodeContents(qn)
             y == Joined(Tail(ss))
  <2>1. x \in Seq(Elements) /\ y \in Seq(Elements)
    <3>1. Tail(ss) \in Seq(Seq(Elements))
      BY <1>2
    <3> QED
      BY <1>2, <3>1, NodeContentsType, JoinedType
  <2> HIDE DEF x, y
  <2>2. (<<popped'>> \o x) \o y = <<popped'>> \o (x \o y)
    <3>1. <<popped'>> \in Seq(Elements)
      BY <1>2
    <3> QED
      BY <2>1, <3>1, ConcatAssociative
  <2>3. Joined(tt) = x \o y
    BY <1>11, <1>13, <1>14 DEF x, y
  <2>4. Contents = (<<popped'>> \o x) \o y
    BY <1>2 DEF x, y
  <2> QED
    BY <2>2, <2>3, <2>4
<1>16. Joined(tt) \in Seq(Elements)
  BY <1>10, JoinedType
<1>17. len' = Len(Joined(tt))
  BY <1>2, <1>3, <1>15, <1>16
<1>18. FifoIInv' /\ Contents' = Joined(tt)
  BY <1>1, <1>3, <1>6, <1>7, <1>8, <1>9, <1>17, ListsGiveInvariant DEF tt
<1> QED
  BY <1>15, <1>16, <1>18

LEMMA PopFreesNode ==
  ASSUME FifoIInv, Pop, NodePopFront(node[head]).len = 0
  PROVE  FifoIInv' /\ Contents = <<popped'>> \o Contents' /\ Contents' \in Seq(Elements)
<1> DEFINE c == Chain(node, head)
           f == Chain(node, free)
           qn == NodePopFront(node[head])
           l == Len(c)
           k == Len(f)
           d == Tail(c)
           g == <<head>> \o f
           ss == Parts(node, c)
           tt == Parts(node', d)
<1>1. /\ IsList(node, head, c) /\ IsList(node, free, f)
      /\ l > 0 => tail = c[l]
      /\ \A i \in 1..l : node[c[i]].len > 0
      /\ \A i \in 1..k : node[f[i]].len = 0
      /\ node \in [Nodes -> QueueNode]
  BY DEF FifoIInv, FifoTypeOK, UsedOK, FreeOK
<1>2. /\ c \in Seq(Nodes) /\ l > 0 /\ head = c[1] /\ head \in Nodes
      /\ popped' \in Elements
      /\ qn \in QueueNode /\ qn.next = node[head].next
      /\ ss \in Seq(Seq(Elements)) /\ Len(ss) = l
      /\ ss[1] = <<popped'>> \o NodeContents(qn)
      /\ Contents = ss[1] \o Joined(Tail(ss))
      /\ len = Len(Contents)
  BY PopTakesFirst
<1>3. /\ node' = [node EXCEPT ![head] = Put(qn)] /\ head' = qn.next /\ free' = head
      /\ tail' = tail /\ len' = len - 1 /\ qn.len = 0
  BY DEF Pop
<1> HIDE DEF c, f, qn
<1>4. /\ f \in Seq(Nodes) /\ k \in Nat /\ l \in Nat
      /\ \A i, j \in 1..l : c[i] = c[j] => i = j
      /\ \A i, j \in 1..k : f[i] = f[j] => i = j
      /\ free = IF k = 0 THEN Nil ELSE f[1]
      /\ \A i \in 1..l : node[c[i]].next = IF i = l THEN Nil ELSE c[i + 1]
      /\ \A i \in 1..k : node[f[i]].next = IF i = k THEN Nil ELSE f[i + 1]
  BY <1>1, <1>2 DEF IsList
<1>5. Put(qn) \in QueueNode /\ Put(qn).len = 0 /\ Put(qn).next = free
  <2>1. free \in Nodes \cup {Nil}
    BY <1>4
  <2> QED
    <3>1. free \in Nodes \cup {Nil}
      BY <2>1
    <3>2. 0 \in 0..NodeSize - 1 /\ 0 \in 0..NodeSize
      BY FifoAssumption
    <3>3. Put(qn) = [buf |-> qn.buf, head |-> 0, len |-> 0, next |-> free]
      <4>1. qn = [buf |-> qn.buf, head |-> qn.head, len |-> qn.len, next |-> qn.next]
        BY <1>2 DEF QueueNode
      <4>2. Put(qn) = [qn EXCEPT !.head = 0, !.len = 0, !.next = free]
        BY DEF Put
      <4> QED
        BY <4>1, <4>2
    <3>4. qn.buf \in [0..NodeSize - 1 -> Elements]
      BY <1>2 DEF QueueNode
    <3> QED
      BY <3>1, <3>2, <3>3, <3>4 DEF QueueNode
<1>6. /\ node' \in [Nodes -> QueueNode] /\ node'[head] = Put(qn)
      /\ \A m \in Nodes : m # head => node'[m] = node[m]
  BY <1>1, <1>2, <1>3, <1>5
<1>7. FifoTypeOK'
  BY <1>2, <1>6 DEF FifoTypeOK
<1>8. /\ d \in Seq(Nodes) /\ Len(d) = l - 1
      /\ \A i \in 1..l - 1 : d[i] = c[i + 1] /\ i + 1 \in 1..l /\ c[i + 1] \in Nodes
  BY <1>2, <1>4
<1>9. \A i \in 1..l - 1 : d[i] \in Nodes /\ d[i] # head
  <2> SUFFICES ASSUME NEW i \in 1..l - 1
               PROVE  d[i] \in Nodes /\ d[i] # head
    OBVIOUS
  <2>1. i + 1 # 1 /\ 1 \in 1..l
    BY <1>2, <1>4
  <2> QED
    BY <1>2, <1>4, <1>8, <2>1
<1> HIDE DEF d
<1>10. IsList(node', head', d)
  <2>1. \A i, j \in 1..l - 1 : d[i] = d[j] => i = j
    <3> SUFFICES ASSUME NEW i \in 1..l - 1, NEW j \in 1..l - 1, d[i] = d[j]
                 PROVE  i = j
      OBVIOUS
    <3>1. i + 1 = j + 1
      BY <1>4, <1>8
    <3> QED
      BY <3>1
  <2>2. head' = IF l - 1 = 0 THEN Nil ELSE d[1]
    <3>1. 1 \in 1..l /\ (l - 1 = 0 <=> 1 = l)
      BY <1>2, <1>4
    <3>2. head' = IF 1 = l THEN Nil ELSE c[1 + 1]
      BY <1>2, <1>3, <1>4, <3>1
    <3>3. 1 # l => 1 \in 1..l - 1
      BY <1>2, <1>4
    <3> QED
      BY <1>8, <3>1, <3>2, <3>3
  <2>3. ASSUME NEW i \in 1..l - 1
        PROVE  node'[d[i]].next = IF i = l - 1 THEN Nil ELSE d[i + 1]
    <3>1. node'[d[i]] = node[c[i + 1]] /\ i + 1 \in 1..l
      BY <1>6, <1>8, <1>9
    <3>2. node[c[i + 1]].next = IF i + 1 = l THEN Nil ELSE c[(i + 1) + 1]
      BY <1>4, <3>1
    <3>3. (i + 1 = l <=> i = l - 1) /\ (i # l - 1 => i + 1 \in 1..l - 1)
      BY <1>4
    <3>4. i # l - 1 => d[i + 1] = c[(i + 1) + 1]
      BY <1>8, <3>3
    <3> QED
      BY <3>1, <3>2, <3>3, <3>4
  <2> QED
    BY <1>8, <2>1, <2>2, <2>3 DEF IsList
<1>11. Len(d) > 0 => tail' = d[Len(d)]
  <2> SUFFICES ASSUME Len(d) > 0
               PROVE  tail' = d[Len(d)]
    OBVIOUS
  <2>1. l - 1 \in 1..l - 1 /\ (l - 1) + 1 = l /\ Len(d) = l - 1
    BY <1>4, <1>8
  <2>2. d[l - 1] = c[(l - 1) + 1]
    BY <1>8, <2>1
  <2> QED
    BY <1>1, <1>2, <1>3, <2>1, <2>2
<1>12. \A i \in 1..Len(d) : node'[d[i]].len > 0
  BY <1>1, <1>6, <1>8, <1>9
<1>13. \A i \in 1..k : f[i] \in Nodes /\ f[i] # head
  <2>1. node[head].len > 0
    BY <1>1, <1>2
  <2>2. \A i \in 1..k : f[i] \in Nodes /\ node[f[i]].len = 0
    BY <1>1, <1>4
  <2> QED
    BY <2>1, <2>2
<1>14. /\ g \in Seq(Nodes) /\ Len(g) = k + 1 /\ g[1] = head
       /\ \A i \in 2..k + 1 : g[i] = f[i - 1] /\ i - 1 \in 1..k
  <2>1. <<head>> \in Seq(Nodes) /\ Len(<<head>>) = 1 /\ <<head>>[1] = head
    BY <1>2
  <2> QED
    BY <1>4, <2>1
<1> HIDE DEF g
<1>15. IsList(node', free', g)
  <2>1. ASSUME NEW i \in 1..k + 1, NEW j \in 1..k + 1, g[i] = g[j]
        PROVE  i = j
    <3>1. CASE i = 1 \/ j = 1
      BY <1>13, <1>14, <2>1, <3>1
    <3>2. CASE i # 1 /\ j # 1
      <4>1. i \in 2..k + 1 /\ j \in 2..k + 1
        BY <1>4, <3>2
      <4>2. i - 1 = j - 1
        <5>1. f[i - 1] = f[j - 1] /\ i - 1 \in 1..k /\ j - 1 \in 1..k
          BY <1>14, <2>1, <4>1
        <5> QED
          BY <1>4, <5>1
      <4> QED
        BY <4>2
    <3> QED
      BY <3>1, <3>2
  <2>2. ASSUME NEW i \in 1..k + 1
        PROVE  node'[g[i]].next = IF i = k + 1 THEN Nil ELSE g[i + 1]
    <3>1. i + 1 \in 2..k + 1 => g[i + 1] = f[i]
      <4>1. (i + 1) - 1 = i
        OBVIOUS
      <4> QED
        BY <1>14, <4>1
    <3>2. i # k + 1 => i + 1 \in 2..k + 1
      BY <1>4
    <3>3. CASE i = 1
      <4>1. node'[g[i]].next = free
        BY <1>5, <1>6, <1>14, <3>3
      <4>2. i = k + 1 <=> k = 0
        BY <1>4, <3>3
      <4> QED
        BY <1>4, <3>1, <3>2, <3>3, <4>1, <4>2
    <3>4. CASE i # 1
      <4>1. i \in 2..k + 1 /\ i - 1 \in 1..k /\ (i - 1) + 1 = i /\ (i - 1 = k <=> i = k + 1)
        BY <1>4, <3>4
      <4>2. node'[g[i]] = node[f[i - 1]]
        BY <1>6, <1>13, <1>14, <4>1
      <4>3. node[f[i - 1]].next = IF i - 1 = k THEN Nil ELSE f[i]
        BY <1>4, <4>1
      <4> QED
        BY <3>1, <3>2, <4>1, <4>2, <4>3
    <3> QED
      BY <3>3, <3>4
  <2>3. Len(g) # 0
    BY <1>4, <1>14
  <2> QED
    BY <1>3, <1>14, <2>1, <2>2, <2>3 DEF IsList
<1>16. ASSUME NEW i \in 1..Len(g)
       PROVE  node'[g[i]].len = 0
  <2>1. CASE i = 1
    BY <1>5, <1>6, <1>14, <2>1
  <2>2. CASE i # 1
    <3>1. i \in 2..k + 1
      BY <1>4, <1>14, <2>2
    <3> QED
      BY <1>1, <1>6, <1>13, <1>14, <3>1
  <2> QED
    BY <2>1, <2>2
<1>17. tt \in Seq(Seq(Elements)) /\ Len(tt) = l - 1
  BY <1>6, <1>8, PartsType
<1>18. ASSUME NEW i \in 1..l - 1
       PROVE  tt[i] = ss[i + 1]
  <2>1. node'[d[i]] = node[c[i + 1]] /\ i + 1 \in 1..l /\ i \in 1..Len(d)
    BY <1>6, <1>8, <1>9
  <2> QED
    BY <2>1 DEF Parts
<1> HIDE DEF ss, tt
<1>19. tt = Tail(ss)
  <2>1. Tail(ss) \in Seq(Seq(Elements)) /\ Len(Tail(ss)) = l - 1
    BY <1>2
  <2>2. \A i \in 1..l - 1 : Tail(ss)[i] = ss[i + 1]
    BY <1>2
  <2> QED
    BY <1>17, <1>18, <2>1, <2>2, SeqEqual
<1>20. ss[1] = <<popped'>>
  <2>1. NodeContents(qn) = <<>>
    BY <1>3 DEF NodeContents
  <2> QED
    BY <1>2, <2>1
<1>21. Contents = <<popped'>> \o Joined(tt)
  BY <1>2, <1>19, <1>20
<1>22. Joined(tt) \in Seq(Elements)
  BY <1>17, JoinedType
<1>23. len' = Len(Joined(tt))
  BY <1>2, <1>3, <1>21, <1>22
<1>24. FifoIInv' /\ Contents' = Joined(tt)
  BY <1>7, <1>10, <1>11, <1>12, <1>15, <1>16, <1>23, ListsGiveInvariant DEF tt
<1> QED
  BY <1>21, <1>22, <1>24

LEMMA PopStep ==
  ASSUME FifoIInv, Pop
  PROVE  /\ FifoIInv'
         /\ Contents # <<>> /\ popped' = Head(Contents) /\ Contents' = Tail(Contents)
<1>1. FifoIInv' /\ Contents = <<popped'>> \o Contents' /\ Contents' \in Seq(Elements)
  BY PopLeavesNode, PopFreesNode
<1>2. popped' \in Elements
  BY <1>1 DEF FifoIInv, FifoTypeOK
<1> DEFINE x == popped'
           y == Contents'
           z == Contents
<1>3. x \in Elements /\ y \in Seq(Elements) /\ z = <<x>> \o y
  BY <1>1, <1>2
<1> HIDE DEF x, y, z
<1>4. z # <<>> /\ x = Head(z) /\ y = Tail(z)
  <2>1. <<x>> \in Seq(Elements) /\ <<x>> # <<>> /\ Head(<<x>>) = x /\ Tail(<<x>>) = <<>>
    BY <1>3
  <2>2. Len(z) = 1 + Len(y) /\ z \in Seq(Elements)
    BY <1>3, <2>1
  <2>3. z # <<>>
    BY <1>3, <2>2
  <2>4. Head(z) = x
    BY <1>3, <2>2
  <2>5. Tail(z) = y
    BY <1>3, <2>2
  <2> QED
    BY <2>3, <2>4, <2>5
<1> QED
  BY <1>1, <1>4 DEF x, y, z

LEMMA FifoUnchanged ==
  ASSUME FifoIInv, UNCHANGED vars
  PROVE  FifoIInv' /\ Contents' = Contents
<1>1. /\ node' = node /\ head' = head /\ tail' = tail /\ free' = free
      /\ len' = len /\ popped' = popped
  BY DEF vars
<1>2. Contents' = Contents
  BY <1>1 DEF Contents
<1>3. FifoTypeOK' /\ UsedOK' /\ FreeOK'
  BY <1>1 DEF FifoIInv, FifoTypeOK, UsedOK, FreeOK
<1> QED
  BY <1>1, <1>2, <1>3 DEF FifoIInv, LenOK

\* A step of the list is a step of the queue, or leaves the queue alone.
LEMMA FifoStep ==
  ASSUME FifoIInv, [Next]_vars
  PROVE  FifoIInv' /\ [Fifo!Next]_(Fifo!vars)
<1>1. CASE Pop
  BY <1>1, PopStep DEF Fifo!Next, Fifo!Pop
<1>2. ASSUME NEW v \in Values, Contents' = Append(Contents, v), len < MaxLen, popped' = popped
      PROVE  Fifo!Next
  <2>1. Len(Contents) < MaxLen
    BY <1>2 DEF FifoIInv, LenOK
  <2> QED
    BY <1>2, <2>1 DEF Fifo!Next, Fifo!Push
<1>3. ASSUME NEW v \in Values, PushIntoTail(v)
      PROVE  FifoIInv' /\ Fifo!Next
  <2>1. len < MaxLen /\ popped' = popped
    BY <1>3 DEF PushIntoTail
  <2> QED
    BY <1>2, <1>3, <2>1, PushIntoTailStep
<1>4. ASSUME NEW v \in Values, NEW n \in Nodes, PushIntoNew(v, n)
      PROVE  FifoIInv' /\ Fifo!Next
  <2>1. len < MaxLen /\ popped' = popped
    BY <1>4 DEF PushIntoNew
  <2> QED
    BY <1>2, <1>4, <2>1, PushIntoNewStep
<1>5. CASE UNCHANGED vars
  BY <1>5, FifoUnchanged DEF vars, Fifo!vars
<1> QED
  BY <1>1, <1>3, <1>4, <1>5 DEF Next

-----------------------------------------------------------------------------
\* The lists are what PushBack and PopFront take them for, in every state (queue.go:25-110).
THEOREM FifoInvariant == Spec => []FifoIInv
<1>1. Init => FifoIInv
  BY FifoInitIInv
<1>2. FifoIInv /\ [Next]_vars => FifoIInv'
  BY FifoStep
<1> QED
  BY <1>1, <1>2, PTL DEF Spec

\* A node that get() may hand out is not one that holds elements (queue.go:40-55).
THEOREM FifoDisjoint == Spec => []ListsDisjoint
<1>1. FifoIInv => ListsDisjoint
  BY UsedNotFree
<1> QED
  BY <1>1, FifoInvariant, PTL

\* PushBack and PopFront of the list of ring buffers behave as those of one queue: the
\* elements come out in the order they went in, none lost and none twice (queue.go:25-110).
THEOREM FifoIsFifo == Spec => IsFifo
<1>1. Init => FifoIInv /\ Fifo!Init
  BY FifoInitIInv DEF Init, Fifo!Init
<1>2. FifoIInv /\ [Next]_vars => [Fifo!Next]_(Fifo!vars)
  BY FifoStep
<1> QED
  BY <1>1, <1>2, FifoInvariant, PTL DEF Spec, IsFifo, Fifo!Spec
=============================================================================
