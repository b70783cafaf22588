---------------------------- MODULE BoundedQueue ----------------------------
(***************************************************************************)
(* What the byte FIFOs of the firmware promise their clients: a queue of   *)
(* at most Capacity elements, delivered in the order they were put in.     *)
(* FifoBuf (bertos/struct/fifobuf.h) is shown to implement it.             *)
(***************************************************************************)
EXTENDS Naturals, Sequences

CONSTANTS
  Data,      \* what the queue stores
  Capacity,  \* how many elements it can hold
  None       \* the value of popped before the first Pop

VARIABLES
  queue,     \* the elements, oldest first
  popped     \* what the last Pop returned

vars == <<queue, popped>>

Init ==
  /\ queue = << >>
  /\ popped = None

Push(c) ==
  /\ Len(queue) < Capacity
  /\ queue' = Append(queue, c)
  /\ UNCHANGED popped

Pop ==
  /\ queue # << >>
  /\ popped' = Head(queue)
  /\ queue' = Tail(queue)

Flush ==
  /\ queue' = << >>
  /\ UNCHANGED popped

Next == (\E c \in Data : Push(c)) \/ Pop \/ Flush

Spec == Init /\ [][Next]_vars
=============================================================================
