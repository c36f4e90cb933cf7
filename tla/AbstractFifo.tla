---------------------------- MODULE AbstractFifo ----------------------------
(***************************************************************************)
(* What the snapshotter expects of fifo.Queue: first in, first out.        *)
(***************************************************************************)
EXTENDS Sequences, Naturals

CONSTANTS Values, NoValue, MaxLen

VARIABLES
  contents,   \* elements pushed and not popped, oldest first
  popped      \* the element that the last Pop returned

vars == <<contents, popped>>

Init == contents = <<>> /\ popped = NoValue

Push(v) ==
  /\ Len(contents) < MaxLen
  /\ contents' = Append(contents, v)
  /\ UNCHANGED popped

Pop ==
  /\ contents # <<>>
  /\ popped' = Head(contents)
  /\ contents' = Tail(contents)

Next == Pop \/ \E v \in Values : Push(v)

Spec == Init /\ [][Next]_vars
=============================================================================
