------------------------------ MODULE FifoBuf ------------------------------
(***************************************************************************)
(* The circular byte buffer of bertos/struct/fifobuf.h, with its two       *)
(* clients: a producer and a consumer, one of them the main program and    *)
(* the other an interrupt handler.  Every operation is a *_locked one or   *)
(* runs inside a handler, so each is one step; but a client tests the      *)
(* buffer in one operation and changes it in the next, and the other       *)
(* client may run in between.                                              *)
(*                                                                         *)
(* Pointers are offsets from fb->begin, so begin is 0 and end is Size - 1. *)
(***************************************************************************)
EXTENDS Integers, Sequences

CONSTANTS
  Size,      \* the length of the array given to fifo_init()
  Data,      \* the bytes
  None       \* "no byte yet"

\* fifo_init() asserts size > 1.
ASSUME SizeAssumption == Size \in Nat /\ Size > 1
ASSUME NoneAssumption == None \notin Data

VARIABLES
  mem,       \* the array
  head,      \* offset of the next byte to pop
  tail,      \* offset of the next byte to push
  popped,    \* what the last fifo_pop() returned
  roomSeen,  \* the producer has seen fifo_isfull() = false and may push
  byteSeen   \* the consumer has seen fifo_isempty() = false and may pop

fifoVars == <<mem, head, tail, popped, roomSeen, byteSeen>>

end == Size - 1

Offsets == 0 .. end

isempty(h, t) == h = t

\* Mutant: the second half of the test is forgotten.
isfull_NoWrapTest(h, t) == h = 0 /\ t = end

isfull(h, t) == (h = 0 /\ t = end) \/ t = h - 1

\* The offset after p, as fifo_push() and fifo_pop() move their pointer.
advance(p) == IF p = end THEN 0 ELSE p + 1

\* fifo_init(): the array itself is not written.
FifoInit ==
  /\ mem \in [Offsets -> Data]
  /\ head = 0
  /\ tail = 0
  /\ popped = None
  /\ roomSeen = FALSE
  /\ byteSeen = FALSE

\* Mutant: the producer does not test.
SeeRoom_Untested ==
  /\ roomSeen' = TRUE
  /\ UNCHANGED <<mem, head, tail, popped, byteSeen>>

\* The producer tests for room, as ser_putchar() and afsk_write() do.
SeeRoom ==
  /\ ~isfull(head, tail)
  /\ roomSeen' = TRUE
  /\ UNCHANGED <<mem, head, tail, popped, byteSeen>>

fifo_push(c) ==
  /\ roomSeen
  /\ mem' = [mem EXCEPT ![tail] = c]
  /\ tail' = advance(tail)
  /\ roomSeen' = FALSE
  /\ UNCHANGED <<head, popped, byteSeen>>

\* The consumer tests for a byte, as ser_getchar() and afsk_read() do.
SeeByte ==
  /\ ~isempty(head, tail)
  /\ byteSeen' = TRUE
  /\ UNCHANGED <<mem, head, tail, popped, roomSeen>>

fifo_pop ==
  /\ byteSeen
  /\ popped' = mem[head]
  /\ head' = advance(head)
  /\ byteSeen' = FALSE
  /\ UNCHANGED <<mem, tail, roomSeen>>

\* ser_purgeRx() runs in the consumer, between two reads; ser_purgeTx() runs
\* in the producer, whose consumer is an interrupt handler that tests and
\* pops without being interrupted.  So no pop is pending when it happens.
fifo_flush ==
  /\ ~byteSeen
  /\ head' = tail
  /\ UNCHANGED <<mem, tail, popped, roomSeen, byteSeen>>

FifoNext ==
  \/ SeeRoom
  \/ \E c \in Data : fifo_push(c)
  \/ SeeByte
  \/ fifo_pop
  \/ fifo_flush

FifoSpec == FifoInit /\ [][FifoNext]_fifoVars

-----------------------------------------------------------------------------
\* The bytes in the buffer, oldest first.
Count == IF head <= tail THEN tail - head ELSE tail - head + Size

Slot(i) == IF head + i <= end THEN head + i ELSE head + i - Size

Contents == [i \in 1 .. Count |-> mem[Slot(i - 1)]]

Queue == INSTANCE BoundedQueue
           WITH Capacity <- Size - 1, queue <- Contents

TypeOK ==
  /\ mem \in [Offsets -> Data]
  /\ head \in Offsets
  /\ tail \in Offsets
  /\ popped \in Data \union {None}
  /\ roomSeen \in BOOLEAN
  /\ byteSeen \in BOOLEAN

\* "Calling fifo_push() on a full buffer is undefined", and so is fifo_pop()
\* on an empty one: what a client saw before an interrupt is still true after
\* it, so neither is ever called that way.
NoStaleCheck ==
  /\ roomSeen => ~isfull(head, tail)
  /\ byteSeen => ~isempty(head, tail)

\* The pointers implement a queue of Size - 1 bytes: nothing is lost,
\* reordered, read twice or overwritten, across the wrap of either pointer.
\* To push on a full buffer would empty it, which the queue takes for a flush;
\* so the second conjunct says that every fifo_push() adds its byte.
QueueSpec ==
  /\ Queue!Spec
  /\ [][\A c \in Data : fifo_push(c) => Queue!Push(c)]_fifoVars
=============================================================================
