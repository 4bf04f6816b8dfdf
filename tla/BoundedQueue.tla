---------------------------- MODULE BoundedQueue ----------------------------
(***************************************************************************)
(* What the watcher's feedback FIFO promises, with no ring, no cursors and *)
(* no threads: at most Capacity values wait at any time, a value is either *)
(* accepted at the tail or dropped because the queue is full, and accepted *)
(* values are taken from the head exactly once and in order.               *)
(***************************************************************************)
EXTENDS Naturals, Sequences

CONSTANTS Values, Capacity

VARIABLES
  waiting,    \* the values accepted and not yet taken, oldest first
  taken       \* the values taken so far, in the order they were taken

vars == <<waiting, taken>>

Init == waiting = <<>> /\ taken = <<>>

Put(v) ==
  /\ Len(waiting) < Capacity
  /\ waiting' = Append(waiting, v)
  /\ UNCHANGED taken

Take ==
  /\ waiting # <<>>
  /\ taken' = Append(taken, Head(waiting))
  /\ waiting' = Tail(waiting)

Next == Take \/ \E v \in Values : Put(v)

Spec == Init /\ [][Next]_vars
=============================================================================
