------------------------------- MODULE RxRing -------------------------------
(***************************************************************************)
(* The receive ring of src/src/drivers/uart.rs: irq_handler puts between   *)
(* any two accesses ring_pop makes to the shared indices and the buffer.   *)
(***************************************************************************)
EXTENDS Naturals, Sequences

CONSTANTS Bytes, ZeroByte, RING_SIZE, NoByte

ASSUME RingAssumption ==
    RING_SIZE \in Nat \ {0} /\ ZeroByte \in Bytes /\ NoByte \notin Bytes

VARIABLES
    ring,    \* RX_RING: [buf, head, tail]
    popping, \* where ring_pop is: "no", "load", "advance"
    byte,    \* the byte it has loaded
    popped,  \* what it answered last
    received \* the byte irq_handler found last

ringVars == <<ring, popping, byte, popped, received>>

Indices == 0 .. RING_SIZE - 1

(* Mutant: the index does not wrap.                                        *)
AdvancedPast(i) == i + 1

Advanced(i) == (i + 1) % RING_SIZE

EmptyRing == [buf |-> [i \in Indices |-> ZeroByte], head |-> 0, tail |-> 0]

RingInit ==
    /\ ring = EmptyRing
    /\ popping = "no"
    /\ byte = ZeroByte
    /\ popped = NoByte /\ received = NoByte

(* Mutants: a full ring takes one more byte; the head moves first.         *)
StoredOver(r, b) == [r EXCEPT !.buf[r.head] = b, !.head = Advanced(@)]
StoredAhead(r, b) ==
    IF Advanced(r.head) = r.tail THEN r
    ELSE [r EXCEPT !.buf[Advanced(r.head)] = b, !.head = Advanced(@)]

(* A full ring, one slot short of RING_SIZE bytes, drops the byte.         *)
Stored(r, b) ==
    IF Advanced(r.head) = r.tail THEN r
    ELSE [r EXCEPT !.buf[r.head] = b, !.head = Advanced(@)]

(* The handler runs to its end: nothing preempts it.                       *)
irq_handler(b) ==
    /\ ring' = Stored(ring, b)
    /\ received' = b
    /\ UNCHANGED <<popping, byte, popped>>

(* ring_pop: compare the indices, load the byte, advance the tail.         *)
PopTest ==
    /\ popping = "no"
    /\ IF ring.tail = ring.head THEN popped' = NoByte /\ UNCHANGED popping
       ELSE popping' = "load" /\ UNCHANGED popped
    /\ UNCHANGED <<ring, byte, received>>

PopLoad ==
    /\ popping = "load"
    /\ byte' = ring.buf[ring.tail]
    /\ popping' = "advance"
    /\ UNCHANGED <<ring, popped, received>>

Taken(r) == [r EXCEPT !.tail = Advanced(@)]

PopAdvance ==
    /\ popping = "advance"
    /\ ring' = Taken(ring)
    /\ popped' = byte
    /\ popping' = "no"
    /\ UNCHANGED <<byte, received>>

ring_pop == PopTest \/ PopLoad \/ PopAdvance

(* RX_RING lives in .bss.                                                  *)
RingReset ==
    /\ ring' = EmptyRing
    /\ popping' = "no"
    /\ byte' = ZeroByte
    /\ popped' = NoByte /\ received' = NoByte

RingNext == ring_pop \/ RingReset \/ \E b \in Bytes : irq_handler(b)

RingSpec == RingInit /\ [][RingNext]_ringVars

-----------------------------------------------------------------------------
(* Type invariant of the ring and its consumer.                            *)
Rings == [buf : [Indices -> Bytes], head : Indices, tail : Indices]

RingTypeOK ==
    /\ ring \in Rings
    /\ popping \in {"no", "load", "advance"}
    /\ byte \in Bytes
    /\ popped \in Bytes \cup {NoByte} /\ received \in Bytes \cup {NoByte}

(* While the consumer is between its test and its advance the ring is not  *)
(* empty, and the slot it reads keeps the byte it has loaded.              *)
ConsumerOwnsTail ==
    /\ popping # "no" => ring.tail # ring.head
    /\ popping = "advance" => byte = ring.buf[ring.tail]

(* The bytes from tail up to head.                                         *)
Waiting(r) == IF r.head >= r.tail THEN r.head - r.tail ELSE r.head + RING_SIZE - r.tail
Slot(r, k) == IF r.tail + k < RING_SIZE THEN r.tail + k ELSE r.tail + k - RING_SIZE
QueueOf(r) == [k \in 1 .. Waiting(r) |-> r.buf[Slot(r, k - 1)]]

Fifo == INSTANCE BoundedFifo
            WITH Capacity <- RING_SIZE - 1, None <- NoByte,
                 queue <- QueueOf(ring), offered <- received, answer <- popped

(* "Single-producer / single-consumer contract makes plain index updates   *)
(* sound on single-core silicon": whatever the interrupts, the ring is a   *)
(* bounded queue.                                                          *)
RingImplementsFifo == Fifo!FifoSpec
=============================================================================
