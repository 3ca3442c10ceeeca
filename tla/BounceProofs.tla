---------------------------- MODULE BounceProofs ----------------------------
(***************************************************************************)
(* Proofs about the bounce buffer, for rings of any size, chunks of any    *)
(* length, any threshold and any byte values.                              *)
(***************************************************************************)
EXTENDS Bounce, SequenceTheorems, TLAPS

-----------------------------------------------------------------------------
(* Lemmas about the data of the ring.                                      *)

(* An index taken modulo the size when it ran over the end at most once.   *)
LEMMA Wrap ==
  ASSUME NEW k \in 0..(Size - 1), NEW n \in 0..Size
  PROVE  (k + n) % Size = IF k + n < Size THEN k + n ELSE k + n - Size
BY SizeAssumption

LEMMA ChunkIsSeq ==
  ASSUME NEW c \in Chunk \cup {<< >>}
  PROVE  /\ c \in Seq(Byte)
         /\ Len(c) \in 0..MaxChunk
         /\ Len(c) = 0 <=> c = << >>
<1>1. CASE c = << >>
  BY <1>1, ChunkAssumption
<1>2. ASSUME NEW n \in 1..MaxChunk, c \in [1..n -> Byte]
      PROVE  c \in Seq(Byte) /\ Len(c) = n
  <2>1. n \in Nat /\ n \in 1..MaxChunk
    BY ChunkAssumption
  <2> QED
    BY <1>2, <2>1, SeqDef
<1> QED
  BY <1>1, <1>2, ChunkAssumption DEF Chunk

LEMMA SpanIsSeq ==
  ASSUME NEW from \in Index, NEW n \in Nat, from + n <= Size,
         data \in [Index -> Byte]
  PROVE  /\ Span(from, n) \in Seq(Byte)
         /\ Len(Span(from, n)) = n
         /\ \A i \in 1..n : Span(from, n)[i] = data[from + i - 1]
<1>1. Span(from, n) \in [1..n -> Byte]
  BY SizeAssumption DEF Span, Index
<1>2. Span(from, n) \in Seq(Byte)
  BY <1>1, SeqDef
<1> QED
  BY <1>1, <1>2 DEF Span

-----------------------------------------------------------------------------
(* The inductive invariant: what the two threads inside store() and        *)
(* fetch() know, on top of the invariants themselves.                      *)
TailAt == tail = IF head + avail < Size THEN head + avail ELSE head + avail - Size

OwnerInv == /\ mutex = "writer" <=> pcW = "append"
            /\ mutex = "reader" <=> pcR = "copy"

WriterInv ==
  /\ pcW = "store" => chunk \in Chunk /\ rolled = 0
  /\ pcW \in {"idle", "signal"} => chunk = << >> /\ rolled = 0
  /\ pcW = "append" => /\ tail = 0 /\ head + avail = Size
                       /\ 0 < rolled /\ rolled <= avail
                       /\ rolled < Len(chunk)
                       /\ Len(chunk) - rolled <= Size - avail

ReaderInv ==
  /\ pcR = "copy" => head = 0 /\ 0 < want /\ want <= avail /\ buf # << >>
  /\ pcR # "copy" => want = 0
  /\ pcR = "forward" <=> buf # << >> /\ pcR # "copy"

WakeInv ==
  /\ sleeps <=> pcR = "asleep"
  /\ pcR # "asleep" => ~signalled
  /\ pcR = "asleep" /\ bounce => signalled
  /\ due /\ pcR # "copy" => avail > Threshold

RingInv == TypeOK /\ TailAt /\ OwnerInv /\ WriterInv /\ ReaderInv
IInv == RingInv /\ NoLostWakeup /\ WakeInv

(* The ranges of the indices, as plain arithmetic.                         *)
LEMMA Ranges ==
  ASSUME TypeOK
  PROVE  head \in 0..(Size - 1) /\ avail \in 0..Size /\ tail \in 0..(Size - 1)
BY DEF TypeOK, Index

LEMMA RingIsConsistent == RingInv => RingConsistent
<1> SUFFICES ASSUME RingInv PROVE RingConsistent
  OBVIOUS
<1>1. head \in 0..(Size - 1) /\ avail \in 0..Size
  BY Ranges DEF RingInv
<1>2. (head + avail) % Size = IF head + avail < Size THEN head + avail ELSE head + avail - Size
  BY <1>1, Wrap
<1> QED
  BY <1>2 DEF RingInv, TailAt, OwnerInv, RingConsistent

LEMMA InitIInv == Init => IInv
<1> SUFFICES ASSUME Init PROVE IInv
  OBVIOUS
<1>1. TypeOK
  BY SizeAssumption, NoneAssumption DEF Init, TypeOK, Index
<1> QED
  BY <1>1, SizeAssumption, NoneAssumption
  DEF Init, IInv, RingInv, TailAt, OwnerInv, WriterInv, ReaderInv, WakeInv, NoLostWakeup

-----------------------------------------------------------------------------
(* The ring: one lemma for each step that moves it.                        *)
LEMMA StoreCallRing == RingInv /\ StoreCall => RingInv'
<1> SUFFICES ASSUME RingInv, StoreCall PROVE RingInv'
  OBVIOUS
<1> USE DEF RingInv, StoreCall, ring, watch, reader
<1>1. chunk' \in Chunk /\ rolled' = 0 /\ pcW' = "store"
  BY DEF WriterInv
<1>2. TypeOK'
  BY <1>1, ChunkIsSeq DEF TypeOK
<1> QED
  BY <1>1, <1>2 DEF TailAt, OwnerInv, WriterInv, ReaderInv

LEMMA StoreRefuseRing == RingInv /\ StoreRefuse => RingInv'
<1> SUFFICES ASSUME RingInv, StoreRefuse PROVE RingInv'
  OBVIOUS
<1> USE DEF RingInv, StoreRefuse, ring, watch, reader, AfterStore
<1>1. rolled' = 0 /\ chunk' = << >> /\ pcW' \in {"idle", "signal"}
  BY DEF WriterInv
<1>2. TypeOK'
  <2>1. ret' \in BOOLEAN /\ refused' \in BOOLEAN
    OBVIOUS
  <2>2. rolled' \in 0..Len(chunk') /\ chunk' \in Chunk \cup {<< >>}
    BY <1>1
  <2> QED
    BY <1>1, <2>1, <2>2 DEF TypeOK
<1> QED
  BY <1>1, <1>2 DEF TailAt, OwnerInv, WriterInv, ReaderInv

LEMMA StoreRollRing == RingInv /\ StoreRoll => RingInv'
<1> SUFFICES ASSUME RingInv, StoreRoll PROVE RingInv'
  OBVIOUS
<1> USE SizeAssumption, ChunkAssumption
<1>1. /\ chunk \in Seq(Byte) /\ chunk \in Chunk /\ Len(chunk) \in 1..MaxChunk
      /\ rolled = 0
  BY ChunkIsSeq DEF RingInv, StoreRoll, WriterInv, TypeOK, Chunk
<1>2. /\ head \in 0..(Size - 1) /\ avail \in 0..Size /\ tail \in 1..(Size - 1)
      /\ head + avail = tail
  <2>1. head \in 0..(Size - 1) /\ avail \in 0..Size /\ tail \in 0..(Size - 1)
    BY Ranges DEF RingInv
  <2>2. /\ Len(chunk) \in Nat /\ Len(chunk) <= Size - avail /\ tail + Len(chunk) > Size
    BY <1>1 DEF StoreRoll, Fits, Rolls
  <2>3. TailAt
    BY DEF RingInv
  <2> QED
    BY <2>1, <2>2, <2>3 DEF TailAt
<1>3. /\ tail' = 0 /\ head' = head /\ avail' \in 1..Size /\ head' + avail' = Size
      /\ rolled' = Size - tail /\ rolled' <= avail' /\ rolled' < Len(chunk)
      /\ Len(chunk) - rolled' <= Size - avail'
      /\ chunk' = chunk /\ mutex' = "writer" /\ pcW' = "append"
  BY <1>1, <1>2 DEF StoreRoll, Fits, Rolls
<1>4. data' \in [Index -> Byte]
  BY <1>1, <1>2, ElementOfSeq DEF RingInv, StoreRoll, Fits, Rolls, TypeOK, Index
<1>5. TypeOK'
  BY <1>1, <1>2, <1>3, <1>4 DEF RingInv, StoreRoll, TypeOK, Index, watch, reader
<1>6. pcR # "copy" /\ pcR' = pcR /\ buf' = buf /\ want' = want /\ signalled' = signalled
  BY NoneAssumption DEF RingInv, OwnerInv, StoreRoll, reader
<1>7. TailAt'
  <2>1. tail' = 0 /\ head' = head /\ avail' = avail + (Size - tail)
    BY DEF StoreRoll
  <2> QED
    BY <1>2, <2>1 DEF TailAt
<1>8. WriterInv' /\ ReaderInv'
  <2>1. 0 < rolled' /\ rolled' < Len(chunk') /\ Len(chunk') - rolled' <= Size - avail'
    BY <1>2, <1>3
  <2>2. WriterInv'
    BY <1>3, <2>1 DEF WriterInv
  <2> QED
    BY <1>6, <2>2 DEF RingInv, ReaderInv
<1> QED
  BY <1>3, <1>5, <1>6, <1>7, <1>8, NoneAssumption DEF RingInv, OwnerInv

LEMMA StoreAppendRing == RingInv /\ StoreAppend => RingInv'
<1> SUFFICES ASSUME RingInv, StoreAppend PROVE RingInv'
  OBVIOUS
<1> USE SizeAssumption, ChunkAssumption
<1>1. head \in 0..(Size - 1) /\ avail \in 0..Size /\ tail \in 0..(Size - 1)
  BY Ranges DEF RingInv
<1>2. chunk \in Seq(Byte) /\ rolled \in Nat /\ Len(chunk) \in Nat
  BY ChunkIsSeq DEF RingInv, TypeOK
<1>3. /\ Left \in 1..Size /\ avail + Left <= Size /\ tail + Left <= Size
      /\ rolled + Left = Len(chunk)
  <2>1. CASE pcW = "append"
    BY <1>1, <1>2, <2>1 DEF RingInv, WriterInv, Left
  <2>2. CASE pcW = "store" /\ Fits /\ ~Rolls
    <3>1. Len(chunk) > 0 /\ rolled = 0
      BY <2>2, ChunkIsSeq DEF RingInv, WriterInv, Chunk
    <3> QED
      BY <1>1, <1>2, <2>2, <3>1 DEF Left, Fits, Rolls
  <2> QED
    BY <2>1, <2>2 DEF StoreAppend
<1>4. /\ avail' = avail + Left /\ avail' \in 0..Size /\ head' = head
      /\ tail' = IF tail + Left < Size THEN tail + Left ELSE 0
  <2>1. Left \in 0..Size
    BY <1>3
  <2>2. (tail + Left) % Size = IF tail + Left < Size THEN tail + Left ELSE tail + Left - Size
    BY <1>1, <2>1, Wrap
  <2>3. tail' = IF tail + Left < Size THEN tail + Left ELSE tail + Left - Size
    BY <2>2 DEF StoreAppend
  <2> QED
    BY <1>1, <1>3, <2>3 DEF StoreAppend
<1>5. data' \in [Index -> Byte]
  <2>1. ASSUME NEW i \in Index, i \in tail..(tail + Left - 1)
        PROVE  chunk[rolled + i - tail + 1] \in Byte
    <3>1. rolled + i - tail + 1 \in 1..Len(chunk)
      BY <1>1, <1>2, <1>3, <2>1
    <3> QED
      BY <1>2, <3>1, ElementOfSeq
  <2> QED
    BY <2>1 DEF RingInv, StoreAppend, TypeOK
<1>6. /\ chunk' = << >> /\ rolled' = 0 /\ mutex' = None /\ pcW' \in {"idle", "signal"}
      /\ pcR' = pcR /\ buf' = buf /\ want' = want /\ signalled' = signalled
      /\ bounce' = bounce /\ sleeps' = sleeps /\ wakeup' = wakeup /\ pcC' = pcC
  BY DEF StoreAppend, AfterStore, reader, watch
<1>7. ret' \in BOOLEAN /\ refused' \in BOOLEAN /\ due' \in BOOLEAN
  <2>1. ret' = (avail + Left < Size) /\ refused' = FALSE
    BY DEF StoreAppend
  <2>2. due' \in BOOLEAN
    BY Zenon DEF RingInv, StoreAppend, TypeOK
  <2>3. (avail + Left < Size) \in BOOLEAN
    BY <1>1, <1>3
  <2> QED
    BY <2>1, <2>2, <2>3
<1>8. TypeOK'
  <2>1. tail' \in 0..(Size - 1)
    BY <1>1, <1>3, <1>4
  <2>2. chunk' \in Chunk \cup {<< >>} /\ rolled' \in 0..Len(chunk')
    BY <1>6
  <2> QED
    BY <1>1, <1>4, <1>5, <1>6, <1>7, <2>1, <2>2 DEF RingInv, TypeOK, Index
<1>9. TailAt'
  BY <1>1, <1>3, <1>4 DEF RingInv, TailAt
<1>10. pcR # "copy"
  BY NoneAssumption DEF RingInv, OwnerInv, StoreAppend
<1> QED
  BY <1>6, <1>8, <1>9, <1>10, NoneAssumption DEF RingInv, OwnerInv, WriterInv, ReaderInv

LEMMA FetchRollRing == RingInv /\ FetchRoll => RingInv'
<1> SUFFICES ASSUME RingInv, FetchRoll PROVE RingInv'
  OBVIOUS
<1> USE SizeAssumption
<1>1. PICK len \in 1..Size : /\ head + Upto(len) > Size
                             /\ buf' = Span(head, Size - head)
                             /\ want' = Upto(len) - (Size - head)
  BY DEF FetchRoll
<1>2. /\ head \in 0..(Size - 1) /\ avail \in 0..Size /\ Upto(len) \in 0..avail
      /\ tail = head + avail - Size
  BY <1>1, Ranges DEF RingInv, TailAt, Upto
<1>3. /\ avail' = avail - (Size - head) /\ avail' \in 1..(Size - 1)
      /\ want' \in 1..avail' /\ want' \in 0..Size /\ head' = 0 /\ tail' = tail /\ tail' = avail'
      /\ mutex' = "reader" /\ pcR' = "copy" /\ data' = data
  BY <1>1, <1>2 DEF FetchRoll
<1>4. buf' \in Seq(Byte) /\ buf' # << >>
  <2>1. head \in Index /\ Size - head \in Nat /\ head + (Size - head) <= Size
    BY <1>2 DEF Index
  <2>2. buf' \in Seq(Byte) /\ Len(buf') = Size - head
    BY <1>1, <2>1, SpanIsSeq DEF RingInv, TypeOK
  <2> QED
    BY <1>2, <2>2
<1>5. TypeOK'
  BY <1>2, <1>3, <1>4 DEF RingInv, FetchRoll, TypeOK, Index, writer, watch
<1>6. pcW # "append" /\ pcR # "asleep" /\ signalled' = signalled
  BY NoneAssumption DEF RingInv, OwnerInv, FetchRoll
<1> QED
  BY <1>3, <1>4, <1>5, <1>6, NoneAssumption
  DEF RingInv, FetchRoll, TailAt, OwnerInv, WriterInv, ReaderInv, writer

LEMMA FetchRestRing == RingInv /\ FetchRest => RingInv'
<1> SUFFICES ASSUME RingInv, FetchRest PROVE RingInv'
  OBVIOUS
<1> USE SizeAssumption
<1>1. /\ head \in 0..(Size - 1) /\ avail \in 0..Size /\ tail \in 0..(Size - 1)
      /\ data \in [Index -> Byte] /\ head \in Index
  BY Ranges DEF RingInv, TypeOK
<1>2. PICK n \in 0..avail : /\ buf' \in Seq(Byte) /\ avail' = avail - n
                            /\ head + n <= Size /\ head' = (head + n) % Size
  <2>1. CASE pcR = "copy"
    <3>1. want \in 0..avail /\ head = 0
      BY <1>1, <2>1 DEF RingInv, ReaderInv, TypeOK
    <3>2. Span(head, want) \in Seq(Byte)
      BY <1>1, <3>1, SpanIsSeq
    <3>3. buf \in Seq(Byte) /\ buf' = buf \o Span(head, want)
      BY <2>1 DEF RingInv, FetchRest, TypeOK
    <3>4. buf' \in Seq(Byte)
      BY <3>2, <3>3, ConcatProperties
    <3> QED
      BY <1>1, <2>1, <3>1, <3>4 DEF FetchRest
  <2>2. CASE pcR = "fetch"
    <3>1. PICK len \in 1..Size : /\ head + Upto(len) <= Size
                                 /\ buf' = Span(head, Upto(len))
                                 /\ avail' = avail - Upto(len)
                                 /\ head' = (head + Upto(len)) % Size
      BY <2>2 DEF FetchRest
    <3>2. Upto(len) \in 0..avail
      BY <1>1 DEF Upto
    <3>3. buf' \in Seq(Byte)
      BY <1>1, <3>1, <3>2, SpanIsSeq
    <3> QED
      BY <3>1, <3>2, <3>3
  <2> QED
    BY <2>1, <2>2 DEF FetchRest
<1>3. head' = IF head + n < Size THEN head + n ELSE 0
  <2>1. n \in 0..Size
    BY <1>1
  <2>2. (head + n) % Size = IF head + n < Size THEN head + n ELSE head + n - Size
    BY <1>1, <2>1, Wrap
  <2>3. head' = IF head + n < Size THEN head + n ELSE head + n - Size
    BY <1>2, <2>2
  <2> QED
    BY <1>1, <1>2, <2>3
<1>4. /\ tail' = tail /\ data' = data /\ want' = 0 /\ mutex' = None
      /\ pcR' = AfterFetch(buf') /\ due' \in BOOLEAN /\ pcW # "append"
      /\ signalled' = signalled /\ pcR # "asleep"
  BY NoneAssumption DEF RingInv, FetchRest, TypeOK, OwnerInv
<1>5. head' \in 0..(Size - 1) /\ avail' \in 0..Size
  BY <1>1, <1>2, <1>3
<1>6. TypeOK'
  BY <1>2, <1>4, <1>5 DEF RingInv, FetchRest, TypeOK, Index, writer, watch, AfterFetch
<1>7. TailAt'
  <2>1. avail' = avail - n /\ n \in Nat /\ n <= avail /\ head + n <= Size
    BY <1>1, <1>2
  <2>2. tail' = tail /\ TailAt
    BY <1>4 DEF RingInv
  <2> QED
    BY <1>1, <1>3, <2>1, <2>2 DEF TailAt
<1> QED
  BY <1>4, <1>6, <1>7, NoneAssumption
  DEF RingInv, FetchRest, OwnerInv, WriterInv, ReaderInv, writer, AfterFetch

LEMMA FlushRing == RingInv /\ Flush => RingInv'
<1> SUFFICES ASSUME RingInv, Flush PROVE RingInv'
  OBVIOUS
<1> USE SizeAssumption DEF RingInv, Flush, watch, writer, reader
<1>1. TypeOK'
  BY DEF TypeOK, Index
<1> QED
  BY <1>1, NoneAssumption DEF TailAt, OwnerInv, WriterInv, ReaderInv

(* The other steps leave the ring alone.                                   *)
LEMMA RestRing ==
  ASSUME RingInv,
         \/ StoreSignal \/ Poll \/ WaitEnter \/ WaitWoken \/ WaitSpurious
         \/ WaitTimeout \/ Forward \/ ControlSignal \/ UNCHANGED vars
  PROVE  RingInv'
<1> USE DEF RingInv, TailAt, OwnerInv, WriterInv, ReaderInv, ring, watch, writer, reader
<1>1. CASE StoreSignal
  <2>1. signalled' \in BOOLEAN
    BY <1>1, Zenon DEF StoreSignal, Signal, TypeOK
  <2> QED
    BY <1>1, <2>1 DEF StoreSignal, Signal, TypeOK
<1>2. CASE Poll
  BY <1>2 DEF Poll, TypeOK
<1>3. CASE WaitEnter
  <2>1. sleeps' \in BOOLEAN
    BY <1>3, Zenon DEF WaitEnter
  <2>2. bounce' \in BOOLEAN /\ pcR' \in {"fetch", "asleep"} /\ pcR = "wait"
    BY <1>3 DEF WaitEnter
  <2> QED
    BY <1>3, <2>1, <2>2 DEF WaitEnter, TypeOK
<1>4. CASE WaitWoken \/ WaitSpurious \/ WaitTimeout
  <2>1. /\ WaitLeave
        /\ pcR = "asleep" /\ pcR' \in {"poll", "fetch"}
        /\ UNCHANGED <<ring, mutex, pcW, chunk, rolled, wakeup, ret, refused, buf, want, pcC, due>>
    BY <1>4 DEF WaitWoken, WaitSpurious, WaitTimeout
  <2> QED
    BY <2>1, ZenonT(30) DEF WaitLeave, TypeOK
<1>5. CASE Forward
  BY <1>5 DEF Forward, TypeOK
<1>6. CASE ControlSignal
  <2>1. signalled' \in BOOLEAN
    BY <1>6, Zenon DEF ControlSignal, Signal, TypeOK
  <2> QED
    BY <1>6, <2>1 DEF ControlSignal, Signal, TypeOK
<1>7. CASE UNCHANGED vars
  BY <1>7 DEF vars, TypeOK
<1> QED
  BY <1>1, <1>2, <1>3, <1>4, <1>5, <1>6, <1>7

LEMMA RingPreserved == RingInv /\ [Next]_vars => RingInv'
<1> SUFFICES ASSUME RingInv, [Next]_vars PROVE RingInv'
  OBVIOUS
<1> QED
  BY StoreCallRing, StoreRefuseRing, StoreRollRing, StoreAppendRing, FetchRollRing,
     FetchRestRing, FlushRing, RestRing
  DEF Next

-----------------------------------------------------------------------------
(* The wakeup: `due' bytes are above the threshold, so that poll() sends   *)
(* nobody to sleep on them, and a sleeper that was there first is released *)
(* by the Signal() that follows the critical section of store().           *)
LEMMA WriterWakes ==
  ASSUME IInv, StoreCall \/ StoreRefuse \/ StoreRoll \/ StoreAppend \/ StoreSignal
  PROVE  NoLostWakeup' /\ WakeInv'
<1> USE DEF NoLostWakeup, WakeInv, watch, reader, ring, AfterStore
<1>0. NoLostWakeup /\ WakeInv /\ TypeOK /\ OwnerInv
      /\ avail \in 0..Size /\ Threshold \in Int /\ Size \in Nat
  BY SizeAssumption, ThresholdAssumption, Ranges DEF IInv, RingInv
<1>1. CASE StoreCall
  BY <1>0, <1>1 DEF StoreCall
<1>2. CASE StoreRefuse
  BY <1>0, <1>2 DEF StoreRefuse
<1>3. CASE StoreRoll
  <2>1. tail \in 0..(Size - 1)
    BY Ranges DEF IInv, RingInv
  <2>2. avail + (Size - tail) > avail
    BY <1>0, <2>1
  <2> QED
    BY <1>0, <1>3, <2>2 DEF StoreRoll
<1>4. CASE StoreAppend
  <2>1. Left \in Nat
    BY DEF IInv, RingInv, WriterInv, Left, TypeOK
  <2>2. avail + Left >= avail /\ avail' = avail + Left
    BY <1>0, <1>4, <2>1 DEF StoreAppend
  <2>3. due' => avail' > Threshold
    <3>1. pcR # "copy"
      BY <1>0, <1>4, NoneAssumption DEF OwnerInv, StoreAppend
    <3>2. due => avail' > Threshold
      BY <1>0, <2>1, <2>2, <3>1
    <3>3. due' => due \/ avail' > Threshold
      BY <1>4 DEF StoreAppend
    <3> QED
      BY <3>2, <3>3
  <2>4. pcW # "signal" /\ (due' => due \/ pcW' = "signal")
    BY <1>4 DEF StoreAppend
  <2> QED
    BY <1>0, <1>4, <2>3, <2>4 DEF StoreAppend
<1>5. CASE StoreSignal
  BY <1>0, <1>5 DEF StoreSignal, Signal
<1> QED
  BY <1>1, <1>2, <1>3, <1>4, <1>5

LEMMA ReaderWakes ==
  ASSUME IInv,
         \/ Poll \/ WaitEnter \/ WaitStep \/ FetchStep \/ Forward
         \/ Flush \/ ControlSignal \/ UNCHANGED vars
  PROVE  NoLostWakeup' /\ WakeInv'
<1> USE DEF NoLostWakeup, WakeInv, watch, writer, reader, ring
<1>0. NoLostWakeup /\ WakeInv /\ OwnerInv
      /\ avail \in 0..Size /\ Threshold \in Int /\ Size \in Nat
  BY SizeAssumption, ThresholdAssumption, Ranges DEF IInv, RingInv
<1>1. CASE Poll
  BY <1>0, <1>1 DEF Poll
<1>2. CASE WaitEnter
  BY <1>0, <1>2 DEF WaitEnter
<1>3. CASE WaitStep
  BY <1>0, <1>3 DEF WaitStep, WaitWoken, WaitSpurious, WaitTimeout, WaitLeave
<1>4. CASE FetchRoll
  BY <1>0, <1>4 DEF FetchRoll
<1>5. CASE FetchRest
  BY <1>0, <1>5 DEF FetchRest, AfterFetch
<1>6. CASE Forward
  BY <1>0, <1>6 DEF Forward
<1>7. CASE Flush
  BY <1>0, <1>7 DEF Flush
<1>8. CASE ControlSignal
  BY <1>0, <1>8 DEF ControlSignal, Signal
<1>9. CASE UNCHANGED vars
  BY <1>0, <1>9 DEF vars
<1> QED
  BY <1>1, <1>2, <1>3, <1>4, <1>5, <1>6, <1>7, <1>8, <1>9 DEF FetchStep

LEMMA Invariance == Spec => []IInv
<1>1. IInv /\ [Next]_vars => IInv'
  BY RingPreserved, WriterWakes, ReaderWakes DEF IInv, Next, WaitStep, FetchStep
<1> QED
  BY InitIInv, <1>1, PTL DEF Spec

-----------------------------------------------------------------------------
(* The members of cBounce and cIoWatch keep their ranges: no index leaves  *)
(* the ring and no more bytes are counted than fit.                        *)
THEOREM TypeCorrect == Spec => []TypeOK
<1>1. IInv => TypeOK
  BY DEF IInv, RingInv
<1> QED
  BY Invariance, <1>1, PTL

(* head, tail and avail agree at every step of store(), fetch() and        *)
(* flush(), however the threads interleave.                                *)
THEOREM IndicesAgree == Spec => []RingConsistent
<1>1. IInv => RingConsistent
  BY RingIsConsistent DEF IInv
<1> QED
  BY Invariance, <1>1, PTL

(* poll(), Wait() and Signal() lose no wakeup, whatever the threshold.     *)
THEOREM WakeupsKept == Spec => []NoLostWakeup
<1>1. IInv => NoLostWakeup
  BY DEF IInv
<1> QED
  BY Invariance, <1>1, PTL

-----------------------------------------------------------------------------
(* The refinement: the bytes of the ring, read from head on, are the queue *)
(* of ByteFifo.                                                            *)
Cell(from, i) == IF from + i - 1 < Size THEN from + i - 1 ELSE from + i - 1 - Size

(* Stored(), with the sums of its indices taken apart.                     *)
LEMMA StoredIs ==
  ASSUME NEW d \in [Index -> Byte], NEW from \in 0..(Size - 1), NEW n \in 0..Size,
         NEW q, q = [i \in 1..n |-> d[(from + i - 1) % Size]]
  PROVE  q \in Seq(Byte) /\ Len(q) = n /\ \A i \in 1..n : q[i] = d[Cell(from, i)]
<1>1. n \in Nat /\ Size \in Nat /\ n <= Size
  BY SizeAssumption
<1>2. ASSUME NEW i \in 1..n
      PROVE  (from + i - 1) % Size = Cell(from, i) /\ Cell(from, i) \in Index
  <2>1. i - 1 \in 0..Size /\ from + (i - 1) = from + i - 1
    BY <1>1
  <2>2. (from + (i - 1)) % Size
          = IF from + (i - 1) < Size THEN from + (i - 1) ELSE from + (i - 1) - Size
    BY <2>1, Wrap
  <2>3. (from + i - 1) % Size = Cell(from, i)
    BY <2>1, <2>2 DEF Cell
  <2>4. Cell(from, i) \in 0..(Size - 1)
    BY <1>1 DEF Cell
  <2> QED
    BY <2>3, <2>4 DEF Index
<1>3. q \in [1..n -> Byte]
  BY <1>2
<1>4. q \in Seq(Byte) /\ Len(q) = n
  BY <1>1, <1>3, SeqDef
<1> QED
  BY <1>2, <1>4

(* What the queue is, byte by byte.                                        *)
Reads(q, d, from, n) ==
  q \in Seq(Byte) /\ Len(q) = n /\ \A i \in 1..n : q[i] = d[Cell(from, i)]

(* The bytes of the ring now, and after a step.                            *)
LEMMA StoredNow ==
  ASSUME TypeOK, NEW n \in 0..Size
  PROVE  Reads(Stored(n), data, head, n)
<1>1. head \in 0..(Size - 1) /\ data \in [Index -> Byte]
  BY DEF TypeOK, Index
<1> QED
  BY <1>1, StoredIs DEF Reads, Stored

LEMMA StoredThen ==
  ASSUME TypeOK', NEW n \in 0..Size
  PROVE  Reads([i \in 1..n |-> data'[(head' + i - 1) % Size]], data', head', n)
<1>1. head' \in 0..(Size - 1) /\ data' \in [Index -> Byte]
  BY DEF TypeOK, Index
<1> QED
  BY <1>1, StoredIs DEF Reads

(* The half of a chunk that is in the ring already, but not in the queue.  *)
Written == pcW = "append" => \A j \in 1..rolled : data[Size - rolled + j - 1] = chunk[j]

(* Nobody but store() writes into the ring, and flush() has to wait.       *)
LEMMA WrittenKept == RingInv /\ Written /\ [Next]_vars => Written'
<1> SUFFICES ASSUME RingInv, Written, [Next]_vars PROVE Written'
  OBVIOUS
<1>1. CASE StoreRoll
  <2>1. tail \in 0..(Size - 1) /\ Size \in Nat
    BY Ranges, SizeAssumption DEF RingInv
  <2>2. /\ data' = [i \in Index |-> IF i >= tail THEN chunk[i - tail + 1] ELSE data[i]]
        /\ rolled' = Size - tail /\ chunk' = chunk
    BY <1>1 DEF StoreRoll
  <2>3. ASSUME NEW j \in 1..rolled' PROVE data'[Size - rolled' + j - 1] = chunk'[j]
    <3> DEFINE i == tail + j - 1
    <3>1. Size - rolled' + j - 1 = i /\ i \in Index /\ i >= tail /\ i - tail + 1 = j
      BY <2>1, <2>2 DEF Index
    <3> HIDE DEF i
    <3> QED
      BY <2>2, <3>1
  <2> QED
    BY <2>3 DEF Written
<1>2. CASE StoreCall \/ StoreRefuse \/ StoreAppend \/ StoreSignal
  <2>1. pcW' # "append"
    BY <1>2 DEF StoreCall, StoreRefuse, StoreAppend, StoreSignal, AfterStore
  <2> QED
    BY <2>1 DEF Written
<1>3. CASE UNCHANGED <<data, writer>>
  BY <1>3 DEF Written, writer
<1> QED
  BY <1>1, <1>2, <1>3
  DEF Next, vars, ring, Poll, WaitEnter, WaitWoken, WaitSpurious, WaitTimeout, FetchRoll,
      FetchRest, Forward, Flush, ControlSignal

-----------------------------------------------------------------------------
(* Each step is one of ByteFifo, or leaves it alone.                       *)
Alone == UNCHANGED <<Queue, Handed>>

(* An empty ring is the empty queue, whatever the memory holds.            *)
LEMMA FifoStarts == Init => Fifo!FifoInit
<1> SUFFICES ASSUME Init PROVE Queue = << >> /\ Handed = << >>
  BY DEF Fifo!FifoInit
<1>1. TypeOK
  BY InitIInv DEF IInv, RingInv
<1>2. Reads(Stored(0), data, head, 0)
  BY <1>1, StoredNow, SizeAssumption
<1>3. Stored(0) = << >>
  BY <1>2, EmptySeq DEF Reads
<1> QED
  BY <1>3, NoneAssumption DEF Init, Queue, Handed

(* Calls, waits and signals: no byte moves.                                *)
LEMMA CallsAlone ==
  ASSUME RingInv,
         \/ StoreCall \/ StoreRefuse \/ StoreSignal \/ Poll \/ WaitEnter \/ WaitWoken
         \/ WaitSpurious \/ WaitTimeout \/ ControlSignal \/ UNCHANGED vars
  PROVE  Alone
<1>1. UNCHANGED <<data, head, avail, mutex, rolled, buf>>
  BY DEF StoreCall, StoreRefuse, StoreSignal, Poll, WaitEnter, WaitWoken, WaitSpurious,
         WaitTimeout, ControlSignal, vars, ring, writer, reader
<1>2. pcR' = "forward" <=> pcR = "forward"
  BY DEF StoreCall, StoreRefuse, StoreSignal, Poll, WaitEnter, WaitWoken, WaitSpurious,
         WaitTimeout, ControlSignal, vars, reader
<1>3. UNCHANGED Queue
  BY <1>1 DEF Queue, Stored
<1>4. UNCHANGED Handed
  BY <1>1, <1>2 DEF Handed
<1> QED
  BY <1>3, <1>4 DEF Alone

(* The bytes are gone when they are on the card.                           *)
LEMMA ForwardUses == RingInv /\ Forward => Fifo!Use
<1> SUFFICES ASSUME RingInv, Forward PROVE Fifo!Use
  OBVIOUS
<1>1. buf # << >> /\ pcR = "forward" /\ pcR' = "poll" /\ mutex # "reader"
      /\ UNCHANGED <<data, head, avail, mutex, rolled>>
  BY DEF RingInv, OwnerInv, ReaderInv, Forward, ring, writer
<1>2. UNCHANGED Queue
  BY <1>1 DEF Queue, Stored
<1>3. Handed = buf /\ Handed' = << >>
  BY <1>1 DEF Handed
<1> QED
  BY <1>1, <1>2, <1>3 DEF Fifo!Use

(* flush() drops what is stored, and leaves the reader what it holds.      *)
LEMMA FlushDrops == RingInv /\ Flush => Fifo!Drop
<1> SUFFICES ASSUME RingInv, Flush PROVE Fifo!Drop
  OBVIOUS
<1>1. mutex' = None /\ avail' = 0 /\ UNCHANGED <<pcR, buf>>
  BY DEF Flush, reader
<1>2. TypeOK'
  BY FlushRing DEF RingInv
<1>3. Stored(0)' = << >>
  BY <1>2, StoredThen, EmptySeq, SizeAssumption DEF Reads, Stored
<1>4. Queue' = << >>
  BY <1>1, <1>3, NoneAssumption DEF Queue
<1>5. UNCHANGED Handed
  BY <1>1 DEF Handed
<1> QED
  BY <1>4, <1>5 DEF Fifo!Drop

(* p is the n bytes from from on, q the first k of them, which do not roll *)
(* over the end, and r the rest.                                           *)
Splits(p, q, r, d, from, n, k) ==
  /\ d \in [Index -> Byte] /\ from \in 0..(Size - 1)
  /\ n \in 0..Size /\ k \in 0..n /\ from + k <= Size
  /\ Reads(p, d, from, n)
  /\ q \in Seq(Byte) /\ Len(q) = k /\ \A i \in 1..k : q[i] = d[from + i - 1]
  /\ Reads(r, d, IF from + k < Size THEN from + k ELSE 0, n - k)

LEMMA SplitAt ==
  ASSUME NEW p, NEW q, NEW r, NEW d, NEW from, NEW n, NEW k,
         Splits(p, q, r, d, from, n, k)
  PROVE  p = q \o r
<1> DEFINE to == IF from + k < Size THEN from + k ELSE 0
<1>0. /\ d \in [Index -> Byte] /\ from \in 0..(Size - 1)
      /\ n \in 0..Size /\ k \in 0..n /\ from + k <= Size
      /\ Reads(p, d, from, n)
      /\ q \in Seq(Byte) /\ Len(q) = k /\ \A i \in 1..k : q[i] = d[from + i - 1]
      /\ Reads(r, d, to, n - k)
  BY DEF Splits
<1>1. n \in Nat /\ k \in Nat /\ k <= n /\ Size \in Nat
  BY <1>0, SizeAssumption
<1>2. p \in Seq(Byte) /\ Len(p) = n /\ r \in Seq(Byte) /\ Len(r) = n - k
  BY <1>0 DEF Reads
<1>3. /\ q \o r \in Seq(Byte) /\ Len(q \o r) = n
      /\ \A i \in 1..n : (q \o r)[i] = IF i <= k THEN q[i] ELSE r[i - k]
  <2>1. q \in Seq(Byte) /\ Len(q) = k
    BY <1>0
  <2>2. /\ q \o r \in Seq(Byte) /\ Len(q \o r) = Len(q) + Len(r)
        /\ \A i \in 1..(Len(q) + Len(r)) :
              (q \o r)[i] = IF i <= Len(q) THEN q[i] ELSE r[i - Len(q)]
    BY <1>2, <2>1, ConcatProperties
  <2>3. Len(q) + Len(r) = n
    BY <1>1, <1>2, <2>1
  <2> QED
    BY <2>1, <2>2, <2>3
<1>4. ASSUME NEW i \in 1..n PROVE p[i] = (q \o r)[i]
  <2>1. p[i] = d[Cell(from, i)]
    BY <1>0 DEF Reads
  <2>2. CASE i <= k
    <3>1. Cell(from, i) = from + i - 1 /\ i \in 1..k
      BY <1>0, <1>1, <2>2 DEF Cell
    <3> QED
      BY <1>0, <1>3, <2>1, <2>2, <3>1
  <2>3. CASE ~(i <= k)
    <3>1. i - k \in 1..(n - k)
      BY <1>1, <2>3
    <3>2. r[i - k] = d[Cell(to, i - k)]
      BY <1>0, <3>1 DEF Reads
    <3>3. Cell(to, i - k) = Cell(from, i)
      BY <1>0, <1>1, <2>3 DEF Cell
    <3> QED
      BY <1>3, <2>1, <2>3, <3>2, <3>3
  <2> QED
    BY <2>2, <2>3
<1> QED
  BY <1>0, <1>2, <1>3, <1>4, SeqEqual

(* A sequence that starts with a, as the SubSeqs of ByteFifo.              *)
LEMMA TakenIs ==
  ASSUME NEW a \in Seq(Byte), NEW b \in Seq(Byte), a # << >>
  PROVE  \E n \in 1..Len(a \o b) :
            a = SubSeq(a \o b, 1, n) /\ b = SubSeq(a \o b, n + 1, Len(a \o b))
<1> DEFINE n == Len(a)
           all == a \o b
<1>1. n \in Nat \ {0} /\ Len(b) \in Nat
  BY EmptySeq, LenProperties
<1>2. all \in Seq(Byte) /\ Len(all) = n + Len(b)
      /\ \A i \in 1..(n + Len(b)) : all[i] = IF i <= n THEN a[i] ELSE b[i - n]
  BY ConcatProperties
<1>3. \A i \in 1..Len(all) : all[i] \in Byte
  BY <1>2, ElementOfSeq
<1> HIDE DEF all
<1>4. a = SubSeq(all, 1, n)
  <2>1. \A i \in 1..n : all[i] \in Byte /\ all[i] = a[i]
    BY <1>1, <1>2, <1>3
  <2>2. /\ SubSeq(all, 1, n) \in Seq(Byte) /\ Len(SubSeq(all, 1, n)) = n
        /\ \A i \in 1..n : SubSeq(all, 1, n)[i] = all[i]
    BY <1>1, <2>1, SubSeqProperties
  <2> QED
    BY <2>1, <2>2, SeqEqual
<1>5. b = SubSeq(all, n + 1, Len(all))
  <2> DEFINE k == Len(all)
             c == SubSeq(all, n + 1, k)
  <2>1. \A i \in (n + 1)..k : all[i] \in Byte
    BY <1>1, <1>2, <1>3
  <2>2. n + 1 \in Int /\ k \in Int /\ k - (n + 1) + 1 = Len(b)
    BY <1>1, <1>2
  <2>3. /\ c \in Seq(Byte) /\ Len(c) = Len(b)
        /\ \A i \in 1..Len(b) : c[i] = all[n + 1 + i - 1]
    <3> HIDE DEF k
    <3>1. /\ c \in Seq(Byte) /\ Len(c) = (IF n + 1 <= k THEN k - (n + 1) + 1 ELSE 0)
          /\ \A i \in 1..(k - (n + 1) + 1) : c[i] = all[n + 1 + i - 1]
      BY <2>1, <2>2, SubSeqProperties
    <3> QED
      BY <1>1, <2>2, <3>1
  <2>4. \A i \in 1..Len(b) : all[n + 1 + i - 1] = b[i]
    BY <1>1, <1>2
  <2> HIDE DEF c
  <2>5. b = c
    BY <2>3, <2>4, SeqEqual
  <2> QED
    BY <2>5 DEF c
<1>6. n \in 1..Len(all)
  BY <1>1, <1>2
<1> QED
  BY <1>4, <1>5, <1>6 DEF all

(* The first half of a fetch() over the end: the bytes are in buf, but the *)
(* reader still has the mutex, so that they count as stored.               *)
LEMMA FetchRollAlone == RingInv /\ FetchRoll => Alone
<1> SUFFICES ASSUME RingInv, FetchRoll PROVE Alone
  OBVIOUS
<1> DEFINE k == Size - head
<1>1. /\ TypeOK /\ head \in 0..(Size - 1) /\ avail \in 0..Size /\ Size \in Nat
      /\ data \in [Index -> Byte] /\ head \in Index
  BY Ranges, SizeAssumption DEF RingInv, TypeOK
<1>2. PICK len \in 1..Size : head + Upto(len) > Size /\ buf' = Span(head, k)
  BY DEF FetchRoll
<1>3. Upto(len) <= avail /\ k \in 0..avail /\ k \in Nat /\ head + k = Size
  BY <1>1, <1>2 DEF Upto
<1>4. /\ avail' = avail - k /\ head' = 0 /\ UNCHANGED <<data, pcW>>
      /\ mutex' = "reader" /\ mutex = None /\ pcR = "fetch" /\ pcR' = "copy"
  BY DEF FetchRoll, writer
<1>5. Queue = Stored(avail)
  BY <1>4, NoneAssumption DEF Queue
<1>6. Reads(Stored(avail), data, head, avail)
  BY <1>1, StoredNow
<1>7. Reads(Stored(avail)', data, 0, avail - k)
  <2>1. TypeOK' /\ avail' \in 0..Size
    <3>1. TypeOK'
      BY FetchRollRing DEF RingInv
    <3> QED
      BY <1>1, <1>3, <1>4, <3>1
  <2> QED
    BY <1>4, <2>1, StoredThen DEF Stored
<1>8. /\ buf' \in Seq(Byte) /\ Len(buf') = k
      /\ \A i \in 1..k : buf'[i] = data[head + i - 1]
  <2> HIDE DEF k
  <2>1. buf' = Span(head, k) /\ k \in Nat /\ head + k <= Size
    BY <1>1, <1>2, <1>3
  <2> QED
    BY <1>1, <2>1, SpanIsSeq
<1>9. Stored(avail) = buf' \o Stored(avail)'
  <2> DEFINE now == Stored(avail)
             then == Stored(avail)'
             taken == buf'
  <2>1. Reads(now, data, head, avail) /\ Reads(then, data, 0, avail - k)
    BY <1>6, <1>7
  <2>2. /\ taken \in Seq(Byte) /\ Len(taken) = k
        /\ \A i \in 1..k : taken[i] = data[head + i - 1]
    BY <1>8
  <2>3. (IF head + k < Size THEN head + k ELSE 0) = 0 /\ k \in 0..avail /\ head + k <= Size
    BY <1>1, <1>3
  <2> HIDE DEF now, then, taken, k
  <2>4. Splits(now, taken, then, data, head, avail, k)
    BY <1>1, <2>1, <2>2, <2>3 DEF Splits
  <2>5. now = taken \o then
    BY <2>4, SplitAt
  <2> QED
    BY <2>5 DEF now, then, taken
<1>10. Queue' = buf' \o Stored(avail)'
  BY <1>4, NoneAssumption DEF Queue
<1>11. Handed = << >> /\ Handed' = << >>
  BY <1>4 DEF Handed
<1> QED
  BY <1>5, <1>9, <1>10, <1>11 DEF Alone

(* From the bytes taken and the rest to a step of ByteFifo.                *)
LEMMA TakeOrAlone ==
  ASSUME NEW a \in Seq(Byte), NEW b \in Seq(Byte), Queue = a \o b, Queue' = b,
         Handed = << >>, Handed' = a
  PROVE  Fifo!Take \/ Alone
<1>1. CASE a = << >>
  BY <1>1, ConcatEmptySeq DEF Alone
<1>2. CASE a # << >>
  <2>1. \E n \in 1..Len(Queue) :
           /\ Handed' = SubSeq(Queue, 1, n)
           /\ Queue' = SubSeq(Queue, n + 1, Len(Queue))
    BY <1>2, TakenIs
  <2> QED
    BY <2>1 DEF Fifo!Take
<1> QED
  BY <1>1, <1>2

(* The end of fetch() hands out all it has taken, from one half or two.    *)
LEMMA FetchRestTakes == RingInv /\ FetchRest => Fifo!Take \/ Alone
<1> SUFFICES ASSUME RingInv, FetchRest PROVE Fifo!Take \/ Alone
  OBVIOUS
<1> DEFINE part(n) == Span(head, n)
           rest == Stored(avail)'
<1>1. /\ TypeOK /\ head \in 0..(Size - 1) /\ avail \in 0..Size /\ Size \in Nat
      /\ data \in [Index -> Byte] /\ head \in Index /\ buf \in Seq(Byte)
  BY Ranges, SizeAssumption DEF RingInv, TypeOK
<1>2. TypeOK' /\ UNCHANGED data /\ mutex' = None /\ pcR' = AfterFetch(buf')
  BY FetchRestRing DEF FetchRest, RingInv
<1>3. ASSUME NEW n \in 0..avail, head + n <= Size, avail' = avail - n,
             head' = (head + n) % Size
      PROVE  /\ part(n) \in Seq(Byte) /\ rest \in Seq(Byte)
             /\ Stored(avail) = part(n) \o rest
  <2> DEFINE to == IF head + n < Size THEN head + n ELSE 0
             now == Stored(avail)
             left == avail - n
             taken == part(n)
  <2>1. n \in 0..Size /\ n \in Nat /\ left \in 0..Size
    BY <1>1
  <2>2. head' = IF head + n < Size THEN head + n ELSE head + n - Size
    BY <1>1, <1>3, <2>1, Wrap
  <2>3. head' = to
    BY <1>1, <1>3, <2>1, <2>2
  <2>4. Reads(rest, data, to, left)
    BY <1>2, <1>3, <2>1, <2>3, StoredThen DEF Stored
  <2>5. Reads(now, data, head, avail)
    BY <1>1, StoredNow
  <2>6. /\ taken \in Seq(Byte) /\ Len(taken) = n
        /\ \A i \in 1..n : taken[i] = data[head + i - 1]
    BY <1>1, <1>3, <2>1, SpanIsSeq
  <2>7. rest \in Seq(Byte)
    BY <2>4 DEF Reads
  <2>8. Reads(rest, data, to, avail - n) /\ to = IF head + n < Size THEN head + n ELSE 0
    BY <2>4
  <2> HIDE DEF to, now, rest, taken, left
  <2>9. Splits(now, taken, rest, data, head, avail, n)
    BY <1>1, <1>3, <2>5, <2>6, <2>8 DEF Splits
  <2>10. now = taken \o rest
    BY <2>9, SplitAt
  <2> QED
    BY <2>6, <2>7, <2>10 DEF now, taken
<1>4. Queue' = rest
  BY <1>2, NoneAssumption DEF Queue
<1>5. Handed' = buf'
  BY <1>2 DEF AfterFetch, Handed
<1>6. CASE pcR = "copy"
  <2>1. want \in 0..avail /\ head = 0
    BY <1>1, <1>6 DEF RingInv, ReaderInv, TypeOK
  <2>2. /\ buf' = buf \o part(want) /\ avail' = avail - want
        /\ head' = (head + want) % Size
    BY <1>6 DEF FetchRest
  <2>3. mutex = "reader"
    BY <1>6 DEF RingInv, OwnerInv
  <2>4. head + want <= Size
    BY <1>1, <2>1
  <2> HIDE DEF rest
  <2>5. /\ part(want) \in Seq(Byte) /\ rest \in Seq(Byte)
        /\ Stored(avail) = part(want) \o rest
    BY <1>3, <2>1, <2>2, <2>4
  <2> HIDE DEF part
  <2>6. Queue = buf \o (part(want) \o rest)
    BY <2>3, <2>5 DEF Queue
  <2>7. Queue = buf' \o rest
    <3> DEFINE p == part(want)
    <3>1. buf \in Seq(Byte) /\ p \in Seq(Byte) /\ rest \in Seq(Byte)
      BY <1>1, <2>5
    <3>2. buf' = buf \o p /\ Queue = buf \o (p \o rest)
      BY <2>2, <2>6
    <3> HIDE DEF p
    <3>3. (buf \o p) \o rest = buf \o (p \o rest)
      BY <3>1, ConcatAssociative
    <3> QED
      BY <3>2, <3>3
  <2>8. buf' \in Seq(Byte)
    BY <1>2 DEF TypeOK
  <2>9. Handed = << >>
    BY <1>6 DEF Handed
  <2> QED
    BY <1>4, <1>5, <2>5, <2>7, <2>8, <2>9, TakeOrAlone
<1>7. CASE pcR = "fetch" /\ mutex = None
  <2>1. PICK len \in 1..Size : /\ head + Upto(len) <= Size
                               /\ buf' = part(Upto(len))
                               /\ avail' = avail - Upto(len)
                               /\ head' = (head + Upto(len)) % Size
    BY <1>7 DEF FetchRest
  <2>2. Upto(len) \in 0..avail
    BY <1>1 DEF Upto
  <2> HIDE DEF rest, part
  <2>3. /\ part(Upto(len)) \in Seq(Byte) /\ rest \in Seq(Byte)
        /\ Stored(avail) = part(Upto(len)) \o rest
    BY <1>3, <2>1, <2>2
  <2>4. Queue = buf' \o rest /\ buf' \in Seq(Byte)
    BY <1>7, <2>1, <2>3, NoneAssumption DEF Queue
  <2>5. Handed = << >>
    BY <1>7 DEF Handed
  <2> QED
    BY <1>4, <1>5, <2>3, <2>4, <2>5, TakeOrAlone
<1> QED
  BY <1>6, <1>7 DEF FetchRest

(* The first half of a store() over the end: what it writes is behind the  *)
(* stored bytes and does not count yet.                                    *)
LEMMA StoreRollAlone == RingInv /\ StoreRoll => Alone
<1> SUFFICES ASSUME RingInv, StoreRoll PROVE Alone
  OBVIOUS
<1> DEFINE now == Stored(avail)
           then == Stored(avail - rolled)'
<1>1. /\ TypeOK /\ head \in 0..(Size - 1) /\ avail \in 0..Size /\ tail \in 1..(Size - 1)
      /\ head + avail = tail /\ Size \in Nat
  <2>1. head \in 0..(Size - 1) /\ avail \in 0..Size /\ tail \in 0..(Size - 1)
    BY Ranges DEF RingInv
  <2>2. chunk \in Chunk /\ Len(chunk) \in Nat /\ Len(chunk) > 0
    BY ChunkIsSeq, ChunkAssumption DEF RingInv, StoreRoll, WriterInv, TypeOK, Chunk
  <2>3. Len(chunk) <= Size - avail /\ tail + Len(chunk) > Size
    BY DEF StoreRoll, Fits, Rolls
  <2> QED
    BY <2>1, <2>2, <2>3, SizeAssumption DEF RingInv, TailAt
<1>2. /\ mutex = None /\ mutex' = "writer" /\ head' = head
      /\ avail' = avail + (Size - tail) /\ rolled' = Size - tail /\ UNCHANGED <<pcR, buf>>
      /\ data' = [i \in Index |-> IF i >= tail THEN chunk[i - tail + 1] ELSE data[i]]
  BY DEF StoreRoll, reader
<1>3. avail' - rolled' = avail
  BY <1>1, <1>2
<1>4. Queue = now /\ Queue' = then
  BY <1>2, NoneAssumption DEF Queue
<1>5. Reads(now, data, head, avail)
  BY <1>1, StoredNow
<1>6. Reads(then, data', head, avail)
  <2>1. TypeOK'
    BY StoreRollRing DEF RingInv
  <2> QED
    BY <1>1, <1>2, <1>3, <2>1, StoredThen DEF Stored
<1>7. ASSUME NEW i \in 1..avail PROVE data'[Cell(head, i)] = data[Cell(head, i)]
  <2>1. Cell(head, i) \in Index /\ ~(Cell(head, i) >= tail)
    BY <1>1 DEF Cell, Index
  <2> QED
    BY <1>2, <2>1
<1> HIDE DEF now, then
<1>8. now = then
  BY <1>5, <1>6, <1>7, SeqEqual DEF Reads
<1>9. UNCHANGED Handed
  BY <1>2 DEF Handed
<1> QED
  BY <1>4, <1>8, <1>9 DEF Alone

(* A queue and a chunk, and the queue with the chunk behind it.            *)
LEMMA PutIs ==
  ASSUME NEW p, NEW c, NEW q, NEW d, NEW e, NEW n \in Nat, NEW m \in Nat,
         Reads(p, d, head, n), Reads(q, e, head, n + m),
         c \in Seq(Byte), Len(c) = m,
         \A i \in 1..n : e[Cell(head, i)] = d[Cell(head, i)],
         \A j \in 1..m : e[Cell(head, n + j)] = c[j]
  PROVE  q = p \o c
<1>1. /\ p \in Seq(Byte) /\ Len(p) = n /\ q \in Seq(Byte) /\ Len(q) = n + m
      /\ \A i \in 1..n : p[i] = d[Cell(head, i)]
      /\ \A i \in 1..(n + m) : q[i] = e[Cell(head, i)]
  BY DEF Reads
<1>2. /\ p \o c \in Seq(Byte) /\ Len(p \o c) = n + m
      /\ \A i \in 1..(n + m) : (p \o c)[i] = IF i <= n THEN p[i] ELSE c[i - n]
  BY <1>1, ConcatProperties, ZenonT(30)
<1>3. ASSUME NEW i \in 1..(n + m) PROVE q[i] = (p \o c)[i]
  <2>1. CASE i <= n
    <3>1. i \in 1..n /\ i \in 1..(n + m)
      BY <2>1
    <3>2. p[i] = d[Cell(head, i)] /\ q[i] = e[Cell(head, i)]
      BY <1>1, <3>1
    <3>3. e[Cell(head, i)] = d[Cell(head, i)]
      BY <3>1
    <3>4. (p \o c)[i] = p[i]
      BY <1>2, <2>1, <3>1
    <3> QED
      BY <3>2, <3>3, <3>4
  <2>2. CASE ~(i <= n)
    <3>1. i - n \in 1..m /\ n + (i - n) = i
      BY <2>2
    <3>2. e[Cell(head, n + (i - n))] = c[i - n]
      BY <3>1
    <3> QED
      BY <1>1, <1>2, <2>2, <3>1, <3>2
  <2> QED
    BY <2>1, <2>2
<1> QED
  BY <1>1, <1>2, <1>3, SeqEqual

(* The end of store() puts the whole chunk behind the queue, also when its *)
(* first half is at the end of the ring and the second at the beginning.   *)
LEMMA StoreAppendPuts == RingInv /\ Written /\ StoreAppend => Fifo!Put
<1> SUFFICES ASSUME RingInv, Written, StoreAppend PROVE Fifo!Put
  OBVIOUS
<1> DEFINE n == avail - rolled
           m == Len(chunk)
           now == Stored(n)
           then == Stored(avail)'
<1>1. /\ TypeOK /\ head \in 0..(Size - 1) /\ avail \in 0..Size /\ tail \in 0..(Size - 1)
      /\ Size \in Nat /\ chunk \in Seq(Byte) /\ rolled \in Nat /\ m \in Nat
  BY Ranges, ChunkIsSeq, SizeAssumption DEF RingInv, TypeOK
<1>2. /\ 0 < m /\ n \in 0..Size /\ n + m <= Size /\ rolled < m
      /\ \/ pcW = "append" /\ tail = 0 /\ head + n + rolled = Size
         \/ rolled = 0 /\ mutex = None /\ tail + m <= Size
            /\ tail = IF head + n < Size THEN head + n ELSE head + n - Size
  <2>1. CASE pcW = "append"
    BY <1>1, <2>1 DEF RingInv, WriterInv
  <2>2. CASE pcW = "store" /\ mutex = None /\ Fits /\ ~Rolls
    <3>1. m > 0 /\ rolled = 0
      BY <2>2, ChunkIsSeq, ChunkAssumption DEF RingInv, WriterInv, Chunk
    <3> QED
      BY <1>1, <2>2, <3>1 DEF RingInv, TailAt, Fits, Rolls
  <2> QED
    BY <2>1, <2>2 DEF StoreAppend
<1>3. /\ data' = [i \in Index |-> IF i \in tail..(tail + (m - rolled) - 1)
                                  THEN chunk[rolled + i - tail + 1] ELSE data[i]]
      /\ avail' = avail + (m - rolled) /\ head' = head /\ mutex' = None /\ UNCHANGED <<pcR, buf>>
  BY DEF StoreAppend, Left, reader
<1>4. Queue = now /\ Queue' = then
  <2>1. Queue' = then
    BY <1>3, NoneAssumption DEF Queue
  <2>2. CASE pcW = "append"
    <3>1. mutex = "writer"
      BY <2>2 DEF RingInv, OwnerInv
    <3> QED
      BY <2>1, <3>1 DEF Queue
  <2>3. CASE mutex = None /\ rolled = 0
    <3>1. avail - rolled = avail
      BY <1>1, <2>3
    <3> QED
      BY <2>1, <2>3, <3>1, NoneAssumption DEF Queue
  <2> QED
    BY <1>2, <2>2, <2>3
<1>5. Reads(now, data, head, n)
  BY <1>1, <1>2, StoredNow
<1>6. avail' = n + m /\ n + m \in 0..Size
  BY <1>1, <1>2, <1>3
<1>7. Reads(then, data', head, n + m)
  <2>1. TypeOK'
    BY StoreAppendRing DEF RingInv
  <2> HIDE DEF n, m
  <2> QED
    BY <1>3, <1>6, <2>1, StoredThen DEF Stored
<1>8. ASSUME NEW i \in 1..n PROVE data'[Cell(head, i)] = data[Cell(head, i)]
  <2>1. Cell(head, i) \in Index /\ ~(Cell(head, i) \in tail..(tail + (m - rolled) - 1))
    BY <1>1, <1>2 DEF Cell, Index
  <2> QED
    BY <1>3, <2>1
<1>9. ASSUME NEW j \in 1..m PROVE data'[Cell(head, n + j)] = chunk[j]
  <2> DEFINE c == Cell(head, n + j)
  <2>1. CASE j <= rolled
    <3>1. pcW = "append" /\ head + n + rolled = Size
      BY <1>1, <1>2, <2>1
    <3>2. c = Size - rolled + j - 1 /\ c \in Index
          /\ ~(c \in tail..(tail + (m - rolled) - 1))
      BY <1>1, <1>2, <2>1, <3>1 DEF Cell, Index
    <3>3. data[Size - rolled + j - 1] = chunk[j]
      BY <1>1, <2>1, <3>1 DEF Written
    <3> HIDE DEF c
    <3> QED
      BY <1>3, <3>2, <3>3 DEF c
  <2>2. CASE ~(j <= rolled)
    <3>1. c \in Index /\ c \in tail..(tail + (m - rolled) - 1) /\ rolled + c - tail + 1 = j
      BY <1>1, <1>2, <2>2 DEF Cell, Index
    <3> HIDE DEF c
    <3> QED
      BY <1>3, <3>1 DEF c
  <2> QED
    BY <2>1, <2>2
<1>10. then = now \o chunk
  <2>1. n \in Nat /\ m \in Nat /\ m = Len(chunk)
    BY <1>1, <1>2
  <2> DEFINE e == data'
  <2>2. /\ Reads(now, data, head, n) /\ Reads(then, e, head, n + m)
        /\ \A i \in 1..n : e[Cell(head, i)] = data[Cell(head, i)]
        /\ \A j \in 1..m : e[Cell(head, n + j)] = chunk[j]
    BY <1>5, <1>7, <1>8, <1>9
  <2> HIDE DEF n, m, now, then, e
  <2> QED
    BY <1>1, <2>1, <2>2, PutIs, ZenonT(30)
<1>11. m \in 1..(Size - Len(Queue)) /\ chunk \in [1..m -> Byte]
  <2>1. Len(Queue) = n
    BY <1>4, <1>5 DEF Reads
  <2>2. chunk \in [1..m -> Byte]
    BY <1>1, LenProperties
  <2> QED
    BY <1>1, <1>2, <2>1, <2>2
<1>12. UNCHANGED Handed
  BY <1>3 DEF Handed
<1>13. Queue' = Queue \o chunk
  BY <1>4, <1>10
<1> HIDE DEF m
<1> QED
  BY <1>11, <1>12, <1>13 DEF Fifo!Put

(* Every step is one of ByteFifo, or leaves queue and handed alone.        *)
LEMMA StepsOfFifo == RingInv /\ Written /\ [Next]_vars => [Fifo!FifoNext]_(Fifo!fifoVars)
<1> SUFFICES ASSUME RingInv, Written, [Next]_vars PROVE Fifo!FifoNext \/ Alone
  BY DEF Alone, Fifo!fifoVars
<1> QED
  BY CallsAlone, StoreRollAlone, StoreAppendPuts, FetchRollAlone, FetchRestTakes,
     ForwardUses, FlushDrops
  DEF Next, Fifo!FifoNext

(* The ring is a bounded queue of bytes: store() appends a whole chunk or  *)
(* nothing, fetch() hands out what is first in the queue, and flush()      *)
(* drops all of it, whatever the size of the ring, the chunks, where they  *)
(* roll over the end and how the threads interleave.                       *)
THEOREM ImplementsFifo == Spec => IsFifo
<1>1. Init => Written
  BY DEF Init, Written
<1>2. IInv => RingInv
  BY DEF IInv
<1> QED
  BY Invariance, FifoStarts, WrittenKept, StepsOfFifo, <1>1, <1>2, PTL
  DEF Spec, IsFifo, Fifo!FifoSpec
=============================================================================
