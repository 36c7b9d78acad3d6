---------------------------- MODULE BoundedFifo -----------------------------
(***************************************************************************)
(* What the receive ring promises: bytes come out in the order they were   *)
(* put, none twice, and only a byte that finds Capacity others waiting is  *)
(* dropped.                                                                *)
(***************************************************************************)
EXTENDS Naturals, Sequences

CONSTANTS Bytes, Capacity, None

VARIABLES queue,    \* the bytes that wait
          offered,  \* the byte of the last put
          answer    \* of the last get

fifoVars == <<queue, offered, answer>>

FifoInit == queue = <<>> /\ offered = None /\ answer = None

Put(b) ==
    /\ queue' = IF Len(queue) < Capacity THEN Append(queue, b) ELSE queue
    /\ offered' = b
    /\ UNCHANGED answer

Get ==
    /\ \/ queue = <<>> /\ answer' = None /\ UNCHANGED queue
       \/ queue # <<>> /\ answer' = Head(queue) /\ queue' = Tail(queue)
    /\ UNCHANGED offered

(* A reset forgets what waits.                                             *)
Clear == queue' = <<>> /\ offered' = None /\ answer' = None

FifoNext == Get \/ Clear \/ \E b \in Bytes : Put(b)

FifoSpec == FifoInit /\ [][FifoNext]_fifoVars
=============================================================================
