------------------------------ MODULE ByteFifo ------------------------------
(***************************************************************************)
(* What the bounce buffer of bounce.h promises to the two threads that use *)
(* it: a bounded queue of bytes.  A producer appends a whole chunk or      *)
(* nothing, a consumer is handed a prefix, and anybody may drop everything *)
(* that is queued.  No byte is lost, duplicated, reordered or invented     *)
(* otherwise.  Module Bounce is shown to implement this specification.     *)
(***************************************************************************)
EXTENDS Naturals, Sequences

CONSTANTS Byte,     \* what the queue holds
          Size      \* how many bytes fit

VARIABLES queue,    \* the bytes stored and neither fetched nor dropped
          handed    \* the bytes the consumer holds and has not forwarded yet

fifoVars == <<queue, handed>>

FifoInit == queue = << >> /\ handed = << >>

Put == /\ \E n \in 1..(Size - Len(queue)) : \E chunk \in [1..n -> Byte] :
              queue' = queue \o chunk
       /\ UNCHANGED handed

Take == /\ handed = << >>
        /\ \E n \in 1..Len(queue) :
              /\ handed' = SubSeq(queue, 1, n)
              /\ queue' = SubSeq(queue, n + 1, Len(queue))

Use == handed # << >> /\ handed' = << >> /\ UNCHANGED queue

Drop == queue' = << >> /\ UNCHANGED handed

FifoNext == Put \/ Take \/ Use \/ Drop

FifoSpec == FifoInit /\ [][FifoNext]_fifoVars
=============================================================================
