---------------------------- MODULE VectorsProofs ----------------------------
(***************************************************************************)
(* The receive ring is a bounded queue, for every ring size; the vector    *)
(* tables, for every table size, set of lines and set of exceptions, and   *)
(* the ring under their interrupts.                                        *)
(***************************************************************************)
EXTENDS Vectors, SequenceTheorems, TLAPS

(* The next index, without the division.                                   *)
LEMMA AdvancedIs ==
    ASSUME NEW i \in Indices
    PROVE  Advanced(i) = IF i + 1 = RING_SIZE THEN 0 ELSE i + 1
  <1>1. RING_SIZE \in Nat /\ RING_SIZE > 0 /\ i \in Nat /\ i + 1 <= RING_SIZE
    BY RingAssumption DEF Indices
  <1>2. CASE i + 1 = RING_SIZE
    <2>1. RING_SIZE % RING_SIZE = 0  BY <1>1
    <2> QED BY <1>2, <2>1 DEF Advanced
  <1>3. CASE i + 1 < RING_SIZE
    <2>1. (i + 1) % RING_SIZE = i + 1  BY <1>1, <1>3
    <2> QED BY <1>1, <1>3, <2>1 DEF Advanced
  <1> QED BY <1>1, <1>2, <1>3

LEMMA AdvancedInRange ==
    ASSUME NEW i \in Indices
    PROVE  Advanced(i) \in Indices
  BY AdvancedIs, RingAssumption DEF Indices

-----------------------------------------------------------------------------
(* The ring as a queue.                                                    *)

LEMMA QueueShape ==
    ASSUME NEW r \in Rings
    PROVE  /\ Waiting(r) \in 0 .. RING_SIZE - 1
           /\ QueueOf(r) \in Seq(Bytes)
           /\ Len(QueueOf(r)) = Waiting(r)
           /\ \A k \in 1 .. Waiting(r) : QueueOf(r)[k] = r.buf[Slot(r, k - 1)]
           /\ \A k \in 0 .. RING_SIZE - 1 : Slot(r, k) \in Indices
  <1>1. RING_SIZE \in Nat /\ r.head \in 0 .. RING_SIZE - 1 /\ r.tail \in 0 .. RING_SIZE - 1
    BY RingAssumption DEF Rings, Indices
  <1>2. Waiting(r) \in 0 .. RING_SIZE - 1
    BY <1>1 DEF Waiting
  <1>3. \A k \in 0 .. RING_SIZE - 1 : Slot(r, k) \in Indices
    BY <1>1 DEF Slot, Indices
  <1>4. \A k \in 1 .. Waiting(r) : r.buf[Slot(r, k - 1)] \in Bytes
    <2>1. \A k \in 1 .. Waiting(r) : k - 1 \in 0 .. RING_SIZE - 1
      BY <1>1, <1>2
    <2> QED BY <1>3, <2>1 DEF Rings
  <1>5. QueueOf(r) \in [1 .. Waiting(r) -> Bytes]
    BY <1>4 DEF QueueOf
  <1>6. QueueOf(r) \in Seq(Bytes) /\ Len(QueueOf(r)) = Waiting(r)
    <2>1. Waiting(r) \in Nat
      BY <1>1, <1>2
    <2> QED BY <1>5, <2>1, IsASeq, LenProperties
  <1> QED BY <1>2, <1>3, <1>6 DEF QueueOf

LEMMA PutIsAppend ==
    ASSUME NEW r \in Rings, NEW b \in Bytes
    PROVE  /\ Stored(r, b) \in Rings
           /\ QueueOf(Stored(r, b)) =
                  IF Len(QueueOf(r)) < RING_SIZE - 1 THEN Append(QueueOf(r), b) ELSE QueueOf(r)
  <1> DEFINE s == Stored(r, b)
             n == Waiting(r)
  <1>1. RING_SIZE \in Nat /\ RING_SIZE > 0 /\ r.head \in 0 .. RING_SIZE - 1 /\ r.tail \in 0 .. RING_SIZE - 1
    BY RingAssumption DEF Rings, Indices
  <1>2. Advanced(r.head) = IF r.head + 1 = RING_SIZE THEN 0 ELSE r.head + 1
    BY <1>1, AdvancedIs DEF Indices
  <1>3. Len(QueueOf(r)) = n /\ n \in 0 .. RING_SIZE - 1
    BY QueueShape
  <1>4. n < RING_SIZE - 1 <=> Advanced(r.head) # r.tail
    BY <1>1, <1>2 DEF Waiting
  <1>5. CASE Advanced(r.head) = r.tail
    BY <1>3, <1>4, <1>5 DEF Stored
  <1>6. CASE Advanced(r.head) # r.tail
    <2>1. s = [r EXCEPT !.buf[r.head] = b, !.head = Advanced(r.head)]
      BY <1>6 DEF Stored
    <2>2. Advanced(r.head) \in Indices
      BY AdvancedInRange DEF Rings
    <2>3. s \in Rings
      BY <2>1, <2>2 DEF Rings
    <2>4. s.tail = r.tail /\ s.head = Advanced(r.head)
      BY <2>1, <2>2 DEF Rings
    <2>5. Waiting(s) = n + 1
      BY <1>1, <1>2, <1>6, <2>4 DEF Waiting
    <2>6. \A k \in 1 .. n : Slot(r, k - 1) # r.head
      BY <1>1, <1>3 DEF Waiting, Slot
    <2>7. Slot(r, n) = r.head
      BY <1>1 DEF Waiting, Slot
    <2>8. \A k : Slot(s, k) = Slot(r, k)
      BY <2>4 DEF Slot
    <2>9. s.buf = [r.buf EXCEPT ![r.head] = b]
      BY <2>1 DEF Rings
    <2>10. \A k \in 1 .. n : QueueOf(s)[k] = QueueOf(r)[k]
      <3> SUFFICES ASSUME NEW k \in 1 .. n PROVE QueueOf(s)[k] = QueueOf(r)[k]
        OBVIOUS
      <3>1. k \in 1 .. n + 1 /\ k - 1 \in 0 .. RING_SIZE - 1
        BY <1>3, <1>1
      <3>2. QueueOf(s)[k] = s.buf[Slot(s, k - 1)]
        BY <2>3, <2>5, <3>1, QueueShape
      <3>3. Slot(r, k - 1) \in Indices
        BY <3>1, QueueShape
      <3>4. s.buf[Slot(r, k - 1)] = r.buf[Slot(r, k - 1)]
        BY <2>6, <2>9, <3>3 DEF Rings
      <3> QED BY <2>8, <3>2, <3>4, QueueShape
    <2>11. QueueOf(s)[n + 1] = b
      <3>1. n + 1 \in 1 .. n + 1 /\ (n + 1) - 1 = n
        BY <1>3, <1>1
      <3>2. QueueOf(s)[n + 1] = s.buf[Slot(s, n)]
        BY <2>3, <2>5, <3>1, QueueShape
      <3>3. s.buf[r.head] = b
        BY <2>9 DEF Rings
      <3> QED BY <2>7, <2>8, <3>2, <3>3
    <2>12. QueueOf(s) = Append(QueueOf(r), b)
      <3>1. QueueOf(r) \in Seq(Bytes) /\ QueueOf(s) \in Seq(Bytes) /\ Len(QueueOf(s)) = n + 1
        BY <2>3, <2>5, QueueShape
      <3>2. /\ Append(QueueOf(r), b) \in Seq(Bytes)
            /\ Len(Append(QueueOf(r), b)) = n + 1
            /\ \A k \in 1 .. n : Append(QueueOf(r), b)[k] = QueueOf(r)[k]
            /\ Append(QueueOf(r), b)[n + 1] = b
        BY <1>3, <3>1, AppendProperties
      <3>3. \A k \in 1 .. n + 1 : k \in 1 .. n \/ k = n + 1
        BY <1>3
      <3>4. \A k \in 1 .. n + 1 : QueueOf(s)[k] = Append(QueueOf(r), b)[k]
        BY <2>10, <2>11, <3>2, <3>3
      <3> HIDE DEF s, n
      <3> QED BY <3>1, <3>2, <3>4, SeqEqual
    <2> QED BY <1>3, <1>4, <1>6, <2>3, <2>12
  <1> QED BY <1>5, <1>6

LEMMA EmptyRingQueue ==
    ASSUME NEW r \in Rings
    PROVE  r.tail = r.head <=> QueueOf(r) = <<>>
  <1>1. RING_SIZE \in Nat /\ RING_SIZE > 0 /\ r.head \in 0 .. RING_SIZE - 1 /\ r.tail \in 0 .. RING_SIZE - 1
    BY RingAssumption DEF Rings, Indices
  <1>2. r.tail = r.head <=> Waiting(r) = 0
    BY <1>1 DEF Waiting
  <1>3. Len(QueueOf(r)) = Waiting(r) /\ QueueOf(r) \in Seq(Bytes)
    BY QueueShape
  <1> QED BY <1>2, <1>3, EmptySeq

LEMMA TakeIsTail ==
    ASSUME NEW r \in Rings, r.tail # r.head
    PROVE  /\ Taken(r) \in Rings
           /\ Head(QueueOf(r)) = r.buf[r.tail]
           /\ QueueOf(Taken(r)) = Tail(QueueOf(r))
  <1> DEFINE s == Taken(r)
             n == Waiting(r)
  <1>1. RING_SIZE \in Nat /\ RING_SIZE > 0 /\ r.head \in 0 .. RING_SIZE - 1 /\ r.tail \in 0 .. RING_SIZE - 1
    BY RingAssumption DEF Rings, Indices
  <1>2. Advanced(r.tail) = IF r.tail + 1 = RING_SIZE THEN 0 ELSE r.tail + 1
    BY <1>1, AdvancedIs DEF Indices
  <1>3. s \in Rings /\ s.tail = Advanced(r.tail) /\ s.head = r.head /\ s.buf = r.buf
    BY AdvancedInRange DEF Rings, Taken
  <1>4. n \in 1 .. RING_SIZE - 1 /\ Waiting(s) = n - 1
    BY <1>1, <1>2, <1>3 DEF Waiting
  <1>5. \A k \in 1 .. n - 1 : Slot(s, k - 1) = Slot(r, (k + 1) - 1)
    BY <1>1, <1>2, <1>3, <1>4 DEF Slot
  <1>6. /\ QueueOf(r) \in Seq(Bytes) /\ Len(QueueOf(r)) = n
        /\ QueueOf(s) \in Seq(Bytes) /\ Len(QueueOf(s)) = n - 1
        /\ \A k \in 1 .. n : QueueOf(r)[k] = r.buf[Slot(r, k - 1)]
        /\ \A k \in 1 .. n - 1 : QueueOf(s)[k] = s.buf[Slot(s, k - 1)]
    BY <1>3, <1>4, QueueShape
  <1>7. QueueOf(r) # <<>>
    BY EmptyRingQueue
  <1>8. Head(QueueOf(r)) = r.buf[r.tail]
    <2>1. Slot(r, 1 - 1) = r.tail
      BY <1>1 DEF Slot
    <2> QED BY <1>4, <1>6, <1>7, <2>1, HeadTailProperties
  <1>9. QueueOf(s) = Tail(QueueOf(r))
    <2>1. /\ Tail(QueueOf(r)) \in Seq(Bytes)
          /\ Len(Tail(QueueOf(r))) = n - 1
          /\ \A k \in 1 .. n - 1 : Tail(QueueOf(r))[k] = QueueOf(r)[k + 1]
      BY <1>6, <1>7, HeadTailProperties
    <2>2. \A k \in 1 .. n - 1 : k + 1 \in 1 .. n
      BY <1>4
    <2>3. \A k \in 1 .. n - 1 : QueueOf(s)[k] = Tail(QueueOf(r))[k]
      BY <1>3, <1>5, <1>6, <2>1, <2>2
    <2> HIDE DEF s, n
    <2> QED BY <1>6, <2>1, <2>3, SeqEqual
  <1> QED BY <1>3, <1>8, <1>9

-----------------------------------------------------------------------------
(* Invariants.                                                             *)

RingInv == RingTypeOK /\ ConsumerOwnsTail

LEMMA InitInv == RingInit => RingInv
  BY RingAssumption DEF RingInit, RingInv, RingTypeOK, ConsumerOwnsTail, EmptyRing, Indices, Rings

LEMMA StepInv == RingInv /\ [RingNext]_ringVars => RingInv'
  <1> SUFFICES ASSUME RingInv, [RingNext]_ringVars PROVE RingInv'
    OBVIOUS
  <1> USE DEF RingInv, RingTypeOK, ConsumerOwnsTail
  <1>1. ASSUME NEW b \in Bytes, irq_handler(b)
        PROVE  RingInv'
    <2>1. CASE Advanced(ring.head) = ring.tail
      BY <1>1, <2>1 DEF irq_handler, Stored
    <2>2. CASE Advanced(ring.head) # ring.tail
      <3>1. ring' = [ring EXCEPT !.buf[ring.head] = b, !.head = Advanced(ring.head)]
        BY <1>1, <2>2 DEF irq_handler, Stored
      <3>2. Advanced(ring.head) \in Indices
        BY AdvancedInRange DEF Rings
      <3>3. UNCHANGED <<popping, byte, popped>> /\ received' = b
        BY <1>1 DEF irq_handler
      <3>4. RingTypeOK'
        BY <3>1, <3>2, <3>3 DEF Rings
      <3>5. ConsumerOwnsTail'
        BY <2>2, <3>1, <3>2, <3>3 DEF Rings
      <3> QED BY <3>4, <3>5
    <2> QED BY <2>1, <2>2
  <1>2. CASE PopTest
    BY <1>2 DEF PopTest
  <1>3. CASE PopLoad
    BY <1>3 DEF PopLoad, Rings
  <1>4. CASE PopAdvance
    <2>1. Advanced(ring.tail) \in Indices
      BY AdvancedInRange DEF Rings
    <2> QED BY <1>4, <2>1 DEF PopAdvance, Taken, Rings
  <1>5. CASE RingReset
    BY <1>5, RingAssumption DEF RingReset, EmptyRing, Indices, Rings
  <1>6. CASE UNCHANGED ringVars
    BY <1>6 DEF ringVars
  <1> QED BY <1>1, <1>2, <1>3, <1>4, <1>5, <1>6 DEF RingNext, ring_pop

(* Every reachable ring is well typed.                                     *)
THEOREM RingTypeCorrect == RingSpec => []RingTypeOK
  <1>1. RingInv => RingTypeOK
    BY DEF RingInv
  <1> QED BY <1>1, InitInv, StepInv, PTL DEF RingSpec

(* The interrupt never takes away the byte the consumer is about to take.  *)
THEOREM ConsumerUndisturbed == RingSpec => []ConsumerOwnsTail
  <1>1. RingInv => ConsumerOwnsTail
    BY DEF RingInv
  <1> QED BY <1>1, InitInv, StepInv, PTL DEF RingSpec

-----------------------------------------------------------------------------
(* Refinement.                                                             *)

LEMMA InitQueue == RingInit => Fifo!FifoInit
  <1> SUFFICES ASSUME RingInit PROVE Fifo!FifoInit
    OBVIOUS
  <1>1. ring \in Rings /\ ring.tail = ring.head /\ popped = NoByte /\ received = NoByte
    BY RingAssumption DEF RingInit, EmptyRing, Rings, Indices
  <1> QED BY <1>1, EmptyRingQueue DEF Fifo!FifoInit

LEMMA StepQueue ==
    RingInv /\ [RingNext]_ringVars => [Fifo!FifoNext]_<<QueueOf(ring), received, popped>>
  <1> SUFFICES ASSUME RingInv, [RingNext]_ringVars
               PROVE  [Fifo!FifoNext]_<<QueueOf(ring), received, popped>>
    OBVIOUS
  <1>0. ring \in Rings
    BY DEF RingInv, RingTypeOK
  <1>1. ASSUME NEW b \in Bytes, irq_handler(b)
        PROVE  Fifo!Put(b)
    <2>1. ring' = Stored(ring, b) /\ popped' = popped /\ received' = b
      BY <1>1 DEF irq_handler
    <2> QED BY <1>0, <2>1, PutIsAppend DEF Fifo!Put
  <1>2. CASE PopTest
    <2>1. ring' = ring /\ received' = received
      BY <1>2 DEF PopTest
    <2>2. CASE ring.tail = ring.head
      <3>1. QueueOf(ring) = <<>> /\ popped' = NoByte
        BY <1>0, <1>2, <2>2, EmptyRingQueue DEF PopTest
      <3> QED BY <2>1, <3>1 DEF Fifo!FifoNext, Fifo!Get
    <2>3. CASE ring.tail # ring.head
      BY <1>2, <2>1, <2>3 DEF PopTest
    <2> QED BY <2>2, <2>3
  <1>3. CASE PopLoad
    BY <1>3 DEF PopLoad
  <1>4. CASE PopAdvance
    <2>1. ring.tail # ring.head /\ byte = ring.buf[ring.tail]
      BY <1>4 DEF PopAdvance, RingInv, ConsumerOwnsTail
    <2>2. ring' = Taken(ring) /\ popped' = byte /\ received' = received
      BY <1>4 DEF PopAdvance
    <2>3. QueueOf(ring) # <<>> /\ popped' = Head(QueueOf(ring)) /\ QueueOf(ring)' = Tail(QueueOf(ring))
      BY <1>0, <2>1, <2>2, TakeIsTail, EmptyRingQueue
    <2> QED BY <2>2, <2>3 DEF Fifo!FifoNext, Fifo!Get
  <1>5. CASE RingReset
    <2>1. ring' = EmptyRing /\ popped' = NoByte /\ received' = NoByte
      BY <1>5 DEF RingReset
    <2>2. EmptyRing \in Rings /\ EmptyRing.tail = EmptyRing.head
      BY RingAssumption DEF EmptyRing, Rings, Indices
    <2>3. QueueOf(EmptyRing) = <<>>
      BY <2>2, EmptyRingQueue
    <2> QED BY <2>1, <2>3 DEF Fifo!FifoNext, Fifo!Clear
  <1>6. CASE UNCHANGED ringVars
    BY <1>6 DEF ringVars
  <1> QED BY <1>1, <1>2, <1>3, <1>4, <1>5, <1>6 DEF RingNext, ring_pop, Fifo!FifoNext

(* The ring is a bounded queue of RING_SIZE - 1 bytes: first in, first     *)
(* out, nothing twice, nothing dropped while there is room, however the    *)
(* receive interrupt interleaves with ring_pop.                            *)
THEOREM RingIsFifo == RingSpec => RingImplementsFifo
  <1> QED BY InitInv, StepInv, InitQueue, StepQueue, PTL
          DEF RingSpec, RingImplementsFifo, Fifo!FifoSpec, Fifo!fifoVars
-----------------------------------------------------------------------------
(* The ring in the booted system.                                          *)

(* Every step of boot, drivers, interrupts and main program is one of the  *)
(* ring's, or leaves it alone.                                             *)
LEMMA StepsOfRing == [Next]_vars => [RingNext]_ringVars
  <1> SUFFICES ASSUME [Next]_vars PROVE [RingNext]_ringVars
    OBVIOUS
  <1>1. CASE CopyWord \/ Relocate \/ \E e \in Exceptions : TakeException(e)
    BY <1>1 DEF CopyWord, Relocate, TakeException
  <1>2. CASE \E n \in 0 .. IRQ_LINES, h \in Handlers : attach_jit_irq(n, h)
    BY <1>2 DEF attach_jit_irq
  <1>3. CASE \E n \in Lines : EnableLine(n)
    BY <1>3 DEF EnableLine
  <1>4. CASE \E n \in Lines : TakeInterrupt(n) \/ RunWild(n)
    BY <1>4 DEF TakeInterrupt, RunWild, Handle, RingNext
  <1>5. CASE MainProgram
    BY <1>5 DEF MainProgram, RingNext
  <1>6. CASE Reset
    BY <1>6 DEF Reset, RingNext
  <1>7. CASE UNCHANGED vars
    BY <1>7 DEF vars
  <1> QED
    BY <1>1, <1>2, <1>3, <1>4, <1>5, <1>6, <1>7 DEF Next

LEMMA SystemRing == Spec => RingSpec
  <1>1. Init => RingInit
    BY DEF Init
  <1> QED
    BY <1>1, StepsOfRing, PTL DEF Spec, RingSpec

(* With interrupts dispatched through the table, at any time between two   *)
(* accesses of ring_pop, the ring still is a bounded queue, and the slot   *)
(* the consumer reads is left alone.                                       *)
THEOREM DispatchedRingIsFifo == Spec => RingImplementsFifo
  BY SystemRing, RingIsFifo, PTL

THEOREM DispatchLeavesConsumer == Spec => []ConsumerOwnsTail
  BY SystemRing, ConsumerUndisturbed, PTL

-----------------------------------------------------------------------------
(* The table.                                                              *)

TableTypeOK ==
    /\ pc \in {"copy", "run", "parked", "wild"}
    /\ copied \in 0 .. IRQ_BASE
    /\ table \in [TableSlots -> TableWords]
    /\ vtor \in {"flash", "ram"}
    /\ enabled \in SUBSET Lines
    /\ attached \in [Lines -> Handlers \cup {NoHandler}]

(* The copied words are those of flash; before the last of them the        *)
(* processor fetches from flash and no driver runs.                        *)
CopySound ==
    /\ \A s \in 0 .. copied - 1 : table[s] = FLASH_VECTORS[s]
    /\ vtor = "ram" \/ pc = "run" => copied = IRQ_BASE
    /\ pc = "run" => vtor = "ram"

(* The entry of a line is the handler attached in this session, if any.    *)
AttachedSound ==
    /\ enabled # {} => vtor = "ram"
    /\ \A n \in enabled : attached[n] # NoHandler
    /\ \A n \in Lines : attached[n] # NoHandler => table[Entry(n)] = attached[n]

TableInv == TableTypeOK /\ CopySound /\ AttachedSound

LEMMA InitTable == Init => TableInv
  <1> SUFFICES ASSUME Init PROVE TableInv
    OBVIOUS
  <1>1. TableTypeOK
    BY VectorsAssumption DEF Init, PowerOnTables, TableTypeOK, TableWords, Handlers, Unattached
  <1>2. CopySound
    BY DEF Init, CopySound
  <1>3. AttachedSound
    BY VectorsAssumption DEF Init, AttachedSound, Unattached
  <1> QED
    BY <1>1, <1>2, <1>3 DEF TableInv

(* attach_jit_irq writes one entry of irq_handlers and no exception.       *)
LEMMA EntryIsOfLine ==
    ASSUME NEW n \in Lines
    PROVE  /\ Entry(n) \in TableSlots /\ Entry(n) >= IRQ_BASE
           /\ \A m \in Lines : m # n => Entry(m) # Entry(n)
  BY VectorsAssumption DEF Entry, Lines, TableSlots

LEMMA StepTable == TableInv /\ [Next]_vars => TableInv'
  <1> SUFFICES ASSUME TableInv, [Next]_vars PROVE TableInv'
    OBVIOUS
  <1>B. /\ IRQ_BASE \in Nat /\ IRQ_LINES \in Nat
        /\ \A s \in 0 .. IRQ_BASE - 1 : FLASH_VECTORS[s] \in TableWords /\ s \in TableSlots
        /\ Handlers \subseteq TableWords /\ NoHandler \notin Handlers
        /\ TRAMPOLINE_LINE \in Lines
    BY VectorsAssumption DEF TableWords, TableSlots, Handlers, Lines
  <1> USE DEF TableInv
  <1>1. CASE CopyWord
    <2>1. TableTypeOK'
      BY <1>1, <1>B DEF CopyWord, TableTypeOK
    <2>2. CopySound'
      BY <1>1, <1>B DEF CopyWord, TableTypeOK, CopySound
    <2>3. AttachedSound'
      BY <1>1, <1>B, EntryIsOfLine DEF CopyWord, TableTypeOK, AttachedSound
    <2> QED
      BY <2>1, <2>2, <2>3
  <1>2. CASE Relocate
    BY <1>2, <1>B DEF Relocate, TableTypeOK, CopySound, AttachedSound
  <1>3. ASSUME NEW e \in Exceptions, TakeException(e)
        PROVE  TableInv'
    BY <1>3 DEF TakeException, TableTypeOK, CopySound, AttachedSound
  <1>4. ASSUME NEW n \in 0 .. IRQ_LINES, NEW h \in Handlers, attach_jit_irq(n, h)
        PROVE  TableInv'
    <2>1. CASE n \in Lines
      <3>1. /\ table' = [table EXCEPT ![Entry(n)] = h]
            /\ attached' = [attached EXCEPT ![n] = h]
            /\ UNCHANGED <<pc, copied, vtor, enabled>>
            /\ pc = "run"
        BY <1>4, <2>1 DEF attach_jit_irq
      <3>2. TableTypeOK'
        BY <3>1, <1>B, EntryIsOfLine, <2>1 DEF TableTypeOK
      <3>3. CopySound'
        BY <3>1, <1>B, EntryIsOfLine, <2>1 DEF TableTypeOK, CopySound
      <3>4. \A m \in Lines : attached'[m] # NoHandler => table'[Entry(m)] = attached'[m]
        BY <3>1, <1>B, EntryIsOfLine, <2>1 DEF TableTypeOK, AttachedSound
      <3>5. \A m \in enabled' : attached'[m] # NoHandler
        BY <3>1, <1>B, <2>1 DEF TableTypeOK, AttachedSound
      <3> QED
        BY <3>1, <3>2, <3>3, <3>4, <3>5 DEF AttachedSound
    <2>2. CASE n \notin Lines
      BY <1>4, <2>2 DEF attach_jit_irq, TableTypeOK, CopySound, AttachedSound
    <2> QED
      BY <2>1, <2>2
  <1>5. ASSUME NEW n \in Lines, EnableLine(n)
        PROVE  TableInv'
    BY <1>5 DEF EnableLine, TableTypeOK, CopySound, AttachedSound
  <1>6. CASE (\E n \in Lines : TakeInterrupt(n) \/ RunWild(n)) \/ MainProgram
    BY <1>6 DEF TakeInterrupt, RunWild, MainProgram, vectorVars, TableTypeOK, CopySound, AttachedSound
  <1>7. CASE Reset
    <2>0. table' \in [TableSlots -> TableWords]
      <3>1. PowerOnTables \subseteq [TableSlots -> TableWords]
        BY <1>B DEF PowerOnTables, TableWords, Handlers
      <3> QED
        BY <3>1, <1>7 DEF Reset, TableTypeOK
    <2>1. TableTypeOK'
      BY <1>7, <1>B, <2>0 DEF Reset, Unattached, TableTypeOK
    <2>2. CopySound'
      BY <1>7, <1>B DEF Reset, CopySound
    <2>3. AttachedSound'
      BY <1>7, <1>B DEF Reset, Unattached, Handlers, AttachedSound
    <2> QED
      BY <2>1, <2>2, <2>3
  <1>8. CASE UNCHANGED vars
    BY <1>8 DEF vars, vectorVars, TableTypeOK, CopySound, AttachedSound
  <1> QED
    BY <1>1, <1>2, <1>3, <1>4, <1>5, <1>6, <1>7, <1>8 DEF Next

LEMMA SystemTable == Spec => []TableInv
  BY InitTable, StepTable, PTL DEF Spec

(* Table, handlers and ring are well typed in every reachable state.       *)
THEOREM VectorsTypeCorrect == Spec => []TypeOK
  <1>1. RingTypeOK /\ TableInv => TypeOK
    BY DEF TableInv, TableTypeOK, TypeOK
  <1> QED
    BY <1>1, SystemTable, SystemRing, RingTypeCorrect, PTL

(* A fault finds fault_hang in its slot at every instant of boot and       *)
(* session: the copy is complete before VTOR moves, and attach_jit_irq     *)
(* reaches no exception entry.                                             *)
THEOREM FaultsAlwaysPark == Spec => []FaultsPark
  <1>1. TableInv => FaultsPark
    <2> SUFFICES ASSUME TableInv, pc # "wild", NEW e \in Exceptions PROVE Fetch(e) = "fault_hang"
      BY DEF FaultsPark
    <2>1. e \in 0 .. IRQ_BASE - 1 /\ FLASH_VECTORS[e] = "fault_hang" /\ e \in DOMAIN FLASH_VECTORS
      BY VectorsAssumption
    <2>2. vtor = "ram" => table[e] = FLASH_VECTORS[e]
      BY <2>1, VectorsAssumption DEF TableInv, CopySound, TableTypeOK
    <2> QED
      BY <2>1, <2>2 DEF Fetch
  <1> QED
    BY <1>1, SystemTable, PTL

(* An enabled line always runs the handler attached last, on the line or,  *)
(* through the trampoline, on the trampoline's line.                       *)
THEOREM LinesAreServed == Spec => []LinesServed
  <1>1. TableInv => LinesServed
    <2> DEFINE served(n) == IF attached[n] = "trampoline" THEN TRAMPOLINE_LINE ELSE n
    <2> SUFFICES ASSUME TableInv, NEW n \in enabled, attached[served(n)] # NoHandler
                 PROVE  Called(n) = attached[served(n)]
      BY DEF LinesServed
    <2>1. n \in Lines /\ vtor = "ram" /\ table[Entry(n)] = attached[n]
      BY DEF TableInv, TableTypeOK, AttachedSound
    <2>2. attached[TRAMPOLINE_LINE] # NoHandler =>
              table[Entry(TRAMPOLINE_LINE)] = attached[TRAMPOLINE_LINE]
      BY VectorsAssumption DEF TableInv, AttachedSound, Lines
    <2> QED
      BY <2>1, <2>2 DEF Fetch, Called, Entry
  <1> QED
    BY <1>1, SystemTable, PTL

(* Wild code is called by the trampoline on an enabled line, when its own  *)
(* line has no handler of this session or the trampoline itself.           *)
THEOREM WildIsExplained == Spec => []WildThroughTrampoline
  <1>1. TableInv /\ WildThroughTrampoline /\ [Next]_vars => WildThroughTrampoline'
    <2> SUFFICES ASSUME TableInv, WildThroughTrampoline, [Next]_vars PROVE WildThroughTrampoline'
      OBVIOUS
    <2>1. ASSUME NEW n \in Lines, RunWild(n)
          PROVE  /\ attached[n] = "trampoline"
                 /\ attached[TRAMPOLINE_LINE] \in {NoHandler, "trampoline"}
      <3>1. /\ attached[n] \in Handlers /\ vtor = "ram" /\ table[Entry(n)] = attached[n]
            /\ ~Returns(n)
        BY <2>1 DEF RunWild, TableInv, TableTypeOK, AttachedSound
      <3>2. attached[n] = "trampoline"
        BY <3>1 DEF Returns, Called, Serving, Fetch, Entry, Handlers
      <3>3. /\ TRAMPOLINE_LINE \in Lines
            /\ attached[TRAMPOLINE_LINE] \in Handlers \cup {NoHandler}
            /\ attached[TRAMPOLINE_LINE] # NoHandler =>
                  table[Entry(TRAMPOLINE_LINE)] = attached[TRAMPOLINE_LINE]
        BY VectorsAssumption DEF TableInv, TableTypeOK, AttachedSound, Lines
      <3> QED
        BY <3>1, <3>2, <3>3 DEF Returns, Called, Serving, Fetch, Entry, Handlers
    <2>2. CASE \E n \in Lines : RunWild(n)
      <3>1. PICK n \in Lines : RunWild(n)
        BY <2>2
      <3> QED
        BY <2>1, <3>1 DEF RunWild, WildThroughTrampoline
    <2>3. CASE UNCHANGED <<pc, enabled, attached>>
      BY <2>3 DEF WildThroughTrampoline
    <2>4. CASE pc' # "wild"
      BY <2>4 DEF WildThroughTrampoline
    <2> QED
      BY <2>2, <2>3, <2>4
      DEF Next, CopyWord, Relocate, MainProgram, Reset, TakeException, attach_jit_irq, EnableLine,
          TakeInterrupt, vars, vectorVars
  <1>2. Init => WildThroughTrampoline
    BY DEF Init, WildThroughTrampoline
  <1> QED
    BY <1>1, <1>2, SystemTable, PTL DEF Spec
=============================================================================
