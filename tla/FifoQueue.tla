------------------------------ MODULE FifoQueue ------------------------------
(***************************************************************************)
(* fifo.Queue (internal/fifo/queue.go): a linked list of nodes, each a     *)
(* ring buffer of NodeSize elements, with a list of free nodes.  Nodes are *)
(* pointers; one that neither list reaches any more is garbage and may be  *)
(* what new() returns.                                                     *)
(***************************************************************************)
EXTENDS Integers, Sequences, FiniteSets

CONSTANTS
  Values,    \* elements
  NoValue,   \* the zero value of an element
  Nodes,     \* heap
  Nil,
  NodeSize,  \* queueNodeSize
  MaxLen     \* bound on the length of the queue

ASSUME FifoAssumption ==
  /\ NodeSize \in Nat \ {0}
  /\ MaxLen \in Nat
  /\ NoValue \notin Values
  /\ Nil \notin Nodes
  /\ IsFiniteSet(Nodes)

VARIABLES
  len, head, tail,   \* fields of Queue
  free,              \* freeList.head
  node,              \* queueNode: buf, head, len, next
  popped             \* result of the last Pop

vars == <<len, head, tail, free, node, popped>>

EmptyNode ==
  [buf |-> [i \in 0..NodeSize - 1 |-> NoValue], head |-> 0, len |-> 0, next |-> Nil]

Init ==
  /\ len = 0
  /\ head = Nil
  /\ tail = Nil
  /\ free = Nil
  /\ node = [n \in Nodes |-> EmptyNode]
  /\ popped = NoValue

-----------------------------------------------------------------------------
\* The nodes on the list that starts at n, in order.
Chain(heap, n) ==
  LET K == Cardinality(Nodes)
      at[i \in 0..K] ==
        IF i = 0 THEN n ELSE IF at[i - 1] = Nil THEN Nil ELSE heap[at[i - 1]].next
      L == {i \in 0..K : at[i] # Nil}
  IN [i \in 1..Cardinality(L) |-> at[i - 1]]

ChainSet(n) == LET c == Chain(node, n) IN {c[i] : i \in DOMAIN c}

(***************************************************************************)
(* queueNode.                                                              *)
(***************************************************************************)
IsFull(qn) == qn.len = NodeSize

\* The place in the ring that is i places after the start of the array.
RingIndex(i) == i % NodeSize

\* Mutant: the ring does not wrap around at head.
NodePushBackAtLen(qn, v) == [qn EXCEPT !.buf[RingIndex(qn.len)] = v, !.len = @ + 1]

NodePushBack(qn, v) ==
  [qn EXCEPT !.buf[RingIndex(qn.head + qn.len)] = v, !.len = @ + 1]

NodePeekFront(qn) == qn.buf[qn.head]

NodePopFront(qn) ==
  [qn EXCEPT !.buf[qn.head] = NoValue, !.head = RingIndex(@ + 1), !.len = @ - 1]

(***************************************************************************)
(* freeList.  get() clears the next pointer of the node it returns before  *)
(* it reads it, so the rest of the list is dropped.                        *)
(***************************************************************************)
\* The node that get() returns: the first free one, or a new one.
Gets(n) ==
  IF free # Nil THEN n = free
  ELSE n \in Nodes \ (ChainSet(head) \cup ChainSet(free))

Got(n) == IF free # Nil THEN [node[n] EXCEPT !.next = Nil] ELSE EmptyNode

Put(qn) == [qn EXCEPT !.head = 0, !.len = 0, !.next = free]

-----------------------------------------------------------------------------
(***************************************************************************)
(* PushBack: into the tail, into a first node or into a node added because *)
(* the tail is full.                                                       *)
(***************************************************************************)
PushIntoTail(v) ==
  /\ len < MaxLen
  /\ head # Nil
  /\ ~IsFull(node[tail])
  /\ node' = [node EXCEPT ![tail] = NodePushBack(@, v)]
  /\ len' = len + 1
  /\ UNCHANGED <<head, tail, free, popped>>

\* Mutant: get() leaves the node on the free list.
PushFreeNode(v, n) ==
  /\ len < MaxLen
  /\ Gets(n)
  /\ \/ head = Nil /\ head' = n /\ node' = [node EXCEPT ![n] = NodePushBack(Got(n), v)]
     \/ /\ head # Nil
        /\ IsFull(node[tail])
        /\ node' = [node EXCEPT ![n] = NodePushBack(Got(n), v), ![tail].next = n]
        /\ UNCHANGED head
  /\ tail' = n
  /\ len' = len + 1
  /\ UNCHANGED <<free, popped>>

PushIntoNew(v, n) ==
  /\ len < MaxLen
  /\ Gets(n)
  /\ \/ head = Nil /\ head' = n /\ node' = [node EXCEPT ![n] = NodePushBack(Got(n), v)]
     \/ /\ head # Nil
        /\ IsFull(node[tail])
        /\ node' = [node EXCEPT ![n] = NodePushBack(Got(n), v), ![tail].next = n]
        /\ UNCHANGED head
  /\ tail' = n
  /\ free' = Nil
  /\ len' = len + 1
  /\ UNCHANGED popped

\* PeekFront, then PopFront: a node that is empty goes to the free list.
Pop ==
  /\ len > 0
  /\ popped' = NodePeekFront(node[head])
  /\ LET qn == NodePopFront(node[head]) IN
     IF qn.len = 0
     THEN /\ node' = [node EXCEPT ![head] = Put(qn)]
          /\ head' = qn.next
          /\ free' = head
     ELSE /\ node' = [node EXCEPT ![head] = qn]
          /\ UNCHANGED <<head, free>>
  /\ len' = len - 1
  /\ UNCHANGED tail

Next ==
  \/ Pop
  \/ \E v \in Values : PushIntoTail(v) \/ \E n \in Nodes : PushIntoNew(v, n)

Spec == Init /\ [][Next]_vars

-----------------------------------------------------------------------------
\* A node is in use or free, never both: an element is never written into a node
\* that get() may hand out.
ListsDisjoint == ChainSet(head) \cap ChainSet(free) = {}

\* The elements of a node, and those of the nodes along the list.
NodeContents(qn) == [i \in 1..qn.len |-> qn.buf[RingIndex(qn.head + i - 1)]]

Joined(ss) ==
  LET upTo[i \in 0..Len(ss)] == IF i = 0 THEN <<>> ELSE upTo[i - 1] \o ss[i]
  IN upTo[Len(ss)]

Contents ==
  LET c == Chain(node, head) IN Joined([i \in 1..Len(c) |-> NodeContents(node[c[i]])])

\* The list of ring buffers behaves as a queue: Pop returns the oldest element.
Fifo == INSTANCE AbstractFifo WITH contents <- Contents
IsFifo == Fifo!Spec
=============================================================================
