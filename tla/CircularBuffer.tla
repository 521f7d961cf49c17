--------------------------- MODULE CircularBuffer ---------------------------
(***************************************************************************)
(* circular_buffer.c: the ring of octets behind the two free lists, of     *)
(* participant ids and of transport connections.  Neither operation has a  *)
(* guard: overwriting a full buffer and reading an empty one are logged    *)
(* and then carried out, so both are steps of this module.                 *)
(***************************************************************************)
EXTENDS Integers, Sequences

CONSTANTS
    Size,    \* NIMBLE_SERVER_CIRCULAR_BUFFER_SIZE (64)
    Octets   \* the values stored

ASSUME SizeAssumption == Size \in Nat \ {0}

VARIABLES
    data,    \* self->data
    head,    \* self->head, the slot the next write goes to
    tail,    \* self->tail, the slot the next read comes from
    isFull,  \* self->isFull
    result   \* what the latest read returned

vars == <<data, head, tail, isFull, result>>

Slots == 0..(Size - 1)

\* The indices stay inside the ring and every slot holds an octet.
TypeOK ==
    /\ data \in [Slots -> Octets]
    /\ head \in Slots
    /\ tail \in Slots
    /\ isFull \in BOOLEAN
    /\ result \in Octets

\* Mutant: the index is not wrapped.
AdvanceUnwrapped(slot) == slot + 1

\* (slot + 1) % NIMBLE_SERVER_CIRCULAR_BUFFER_SIZE, for a slot in range
Advance(slot) == IF slot + 1 = Size THEN 0 ELSE slot + 1

IsEmpty == head = tail /\ ~isFull

Count ==
    IF isFull THEN Size
    ELSE IF head >= tail THEN head - tail
    ELSE Size + head - tail

\* data is whatever the memory held: Init resets the indices only.
Init ==
    /\ data \in [Slots -> Octets]
    /\ head = 0
    /\ tail = 0
    /\ isFull = FALSE
    /\ result \in Octets

\* Mutant: the write does not notice that it filled the ring.
WriteNeverFull(d) ==
    /\ data' = [data EXCEPT ![head] = d]
    /\ head' = Advance(head)
    /\ isFull' = FALSE
    /\ UNCHANGED <<tail, result>>

Write(d) ==
    /\ data' = [data EXCEPT ![head] = d]
    /\ head' = Advance(head)
    /\ isFull' = (head' = tail)
    /\ UNCHANGED <<tail, result>>

\* Mutant: a read leaves the full flag alone.
ReadKeepsFull ==
    /\ result' = data[tail]
    /\ tail' = Advance(tail)
    /\ UNCHANGED <<data, head, isFull>>

Read ==
    /\ result' = data[tail]
    /\ tail' = Advance(tail)
    /\ isFull' = FALSE
    /\ UNCHANGED <<data, head>>

Next == Read \/ \E d \in Octets : Write(d)

Spec == Init /\ [][Next]_vars

-----------------------------------------------------------------------------
\* The flag that tells a full ring from an empty one is only up when the
\* indices meet (circular_buffer.c:26,38): otherwise Count would return Size
\* for a buffer that holds fewer octets.
FullOnlyWhenIndicesMeet == isFull => head = tail

\* The slot of the i-th oldest octet.
SlotOf(i) == IF tail + i - 1 < Size THEN tail + i - 1 ELSE tail + i - 1 - Size

\* The stored octets, oldest first: what nimbleServerCircularBufferCount
\* says is stored, read from the tail on.
Contents == [i \in 1..Count |-> data[SlotOf(i)]]

F == INSTANCE Fifo WITH queue <- Contents

\* The ring implements the queue of module Fifo: every write and read of
\* circular_buffer.c:16-41, wrapped indices, full and empty uses included,
\* does to the stored octets what the queue's operation does.
ImplementsFifo == F!Spec
=============================================================================
