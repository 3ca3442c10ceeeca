------------------------------- MODULE Bounce -------------------------------
(***************************************************************************)
(* The bounce buffer (class cBounce with its cIoWatch, bounce.h): a ring   *)
(* of bytes between the thread that receives or plays audio (the writer)   *)
(* and the thread that forwards it to the sound card (the reader), flushed *)
(* by a third one that switches the forwarding off or mutes it.            *)
(*                                                                         *)
(* One action per critical section, or per part of one when the unlocked   *)
(* read of avail in poll() can tell the difference: store() and fetch()    *)
(* move avail in two steps when the chunk rolls over the end of the ring.  *)
(* The mutex is the cIoMutex of module IoMutex, here at its abstraction:   *)
(* one owner or none.                                                      *)
(***************************************************************************)
EXTENDS Integers, Sequences

CONSTANTS Byte,       \* the values of a byte
          Size,       \* bytes in the ring (BOUNCE_MEM)
          Threshold,  \* bank(): poll() sleeps on this many bytes or fewer
          MaxChunk,   \* bound: the longest chunk a call of store() offers
          None        \* the mutex has no owner

ASSUME SizeAssumption == Size \in Nat \ {0}
ASSUME ThresholdAssumption == Threshold \in 0..(Size - 1)
ASSUME ChunkAssumption == MaxChunk \in Nat \ {0}
ASSUME NoneAssumption == None \notin {"writer", "reader"}

VARIABLES data, head, tail, avail,   \* the ring
          mutex,                     \* who is inside store() or fetch()
          bounce, sleeps,            \* the members of cIoWatch
          pcW, chunk, rolled, wakeup, ret, refused,  \* the writer in store()
          pcR, buf, want, signalled, \* the reader in poll(), Wait() and fetch()
          pcC,                       \* the controlling thread
          due                        \* history: a store() with wakeup is not served yet

ring == <<data, head, tail, avail>>
watch == <<bounce, sleeps>>
writer == <<pcW, chunk, rolled, wakeup, ret, refused>>
reader == <<pcR, buf, want>>
vars == <<ring, mutex, watch, writer, reader, signalled, pcC, due>>

Index == 0..(Size - 1)
Chunk == UNION {[1..n -> Byte] : n \in 1..MaxChunk}

TypeOK ==
  /\ data \in [Index -> Byte]
  /\ head \in Index /\ tail \in Index /\ avail \in 0..Size
  /\ mutex \in {"writer", "reader", None}
  /\ bounce \in BOOLEAN /\ sleeps \in BOOLEAN
  /\ pcW \in {"idle", "store", "append", "signal"}
  /\ chunk \in Chunk \cup {<< >>} /\ rolled \in 0..Len(chunk)
  /\ wakeup \in BOOLEAN /\ ret \in BOOLEAN /\ refused \in BOOLEAN
  /\ pcR \in {"poll", "wait", "asleep", "fetch", "copy", "forward"}
  /\ buf \in Seq(Byte) /\ want \in 0..Size
  /\ signalled \in BOOLEAN
  /\ pcC \in {"idle", "signal"}
  /\ due \in BOOLEAN

Init ==
  /\ data \in [Index -> Byte]
  /\ head = 0 /\ tail = 0 /\ avail = 0
  /\ mutex = None
  /\ bounce = FALSE /\ sleeps = FALSE
  /\ pcW = "idle" /\ chunk = << >> /\ rolled = 0 /\ wakeup = FALSE
  /\ ret = FALSE /\ refused = FALSE
  /\ pcR = "poll" /\ buf = << >> /\ want = 0 /\ signalled = FALSE
  /\ pcC = "idle" /\ due = FALSE

-----------------------------------------------------------------------------
(* Mutants: Signal() forgets the event, or does not release the sleeper.   *)
SignalForgets ==
  /\ UNCHANGED <<bounce, sleeps>>
  /\ signalled' = (signalled \/ sleeps)
SignalKeepsSleeper ==
  /\ bounce' = TRUE /\ UNCHANGED <<sleeps, signalled>>

(* cIoWatch::Signal: remember the event, and release a sleeper.            *)
Signal ==
  /\ bounce' = TRUE /\ UNCHANGED sleeps
  /\ signalled' = (signalled \/ sleeps)

-----------------------------------------------------------------------------
(* store()                                                                 *)
Fits == Len(chunk) <= Size - avail
Rolls == tail + Len(chunk) > Size
Left == Len(chunk) - rolled

StoreCall ==
  /\ pcW = "idle"
  /\ \E c \in Chunk, w \in BOOLEAN : chunk' = c /\ wakeup' = w
  /\ pcW' = "store"
  /\ UNCHANGED <<ring, mutex, watch, rolled, ret, refused, reader, signalled, pcC, due>>

AfterStore == IF wakeup THEN "signal" ELSE "idle"

StoreRefuse ==
  /\ pcW = "store" /\ mutex = None /\ ~Fits
  /\ ret' = FALSE /\ refused' = TRUE
  /\ chunk' = << >>
  /\ pcW' = AfterStore
  /\ UNCHANGED <<ring, mutex, watch, rolled, wakeup, reader, signalled, pcC, due>>

(* Mutant: tail does not roll over.                                        *)
StoreRollNoReset ==
  /\ pcW = "store" /\ mutex = None /\ Fits /\ Rolls
  /\ data' = [i \in Index |-> IF i >= tail THEN chunk[i - tail + 1] ELSE data[i]]
  /\ avail' = avail + (Size - tail)
  /\ rolled' = Size - tail
  /\ mutex' = "writer"
  /\ pcW' = "append"
  /\ UNCHANGED <<head, tail, watch, chunk, wakeup, ret, refused, reader, signalled, pcC, due>>

(* Fill the ring up to its end; tail rolls over to its beginning.          *)
StoreRoll ==
  /\ pcW = "store" /\ mutex = None /\ Fits /\ Rolls
  /\ data' = [i \in Index |-> IF i >= tail THEN chunk[i - tail + 1] ELSE data[i]]
  /\ avail' = avail + (Size - tail)
  /\ rolled' = Size - tail
  /\ tail' = 0
  /\ mutex' = "writer"
  /\ pcW' = "append"
  /\ UNCHANGED <<head, watch, chunk, wakeup, ret, refused, reader, signalled, pcC, due>>

(* Append what is left of the chunk and leave the critical section.  The   *)
(* result is whether room was left, so an exact fit is stored and FALSE.   *)
StoreAppend ==
  /\ \/ pcW = "append"
     \/ pcW = "store" /\ mutex = None /\ Fits /\ ~Rolls
  /\ data' = [i \in Index |-> IF i \in tail..(tail + Left - 1)
                              THEN chunk[rolled + i - tail + 1] ELSE data[i]]
  /\ avail' = avail + Left
  /\ tail' = (tail + Left) % Size
  /\ ret' = (avail + Left < Size) /\ refused' = FALSE
  /\ chunk' = << >> /\ rolled' = 0
  /\ mutex' = None
  /\ pcW' = AfterStore
  /\ due' = (due \/ (wakeup /\ avail' > Threshold))
  /\ UNCHANGED <<head, watch, wakeup, reader, signalled, pcC>>

StoreSignal ==
  /\ pcW = "signal"
  /\ Signal
  /\ pcW' = "idle"
  /\ UNCHANGED <<ring, mutex, chunk, rolled, wakeup, ret, refused, reader, pcC, due>>

-----------------------------------------------------------------------------
(* poll() reads avail without the mutex.                                   *)
Poll ==
  /\ pcR = "poll"
  /\ pcR' = IF avail <= Threshold THEN "wait" ELSE "fetch"
  /\ UNCHANGED <<ring, mutex, watch, writer, buf, want, signalled, pcC, due>>

(* Mutant: Wait() sleeps without a look at the event.                      *)
WaitEnterBlind ==
  /\ pcR = "wait"
  /\ sleeps' = TRUE /\ UNCHANGED bounce
  /\ pcR' = "asleep"
  /\ UNCHANGED <<ring, mutex, writer, buf, want, signalled, pcC, due>>

(* Wait(): an event since the last Wait() is taken at once.                *)
WaitEnter ==
  /\ pcR = "wait"
  /\ bounce' = FALSE
  /\ sleeps' = ~bounce
  /\ pcR' = IF bounce THEN "fetch" ELSE "asleep"
  /\ UNCHANGED <<ring, mutex, writer, buf, want, signalled, pcC, due>>

(* pthread_cond_timedwait returns 0 on a signal or for no reason at all.   *)
WaitLeave == bounce' = FALSE /\ sleeps' = FALSE /\ signalled' = FALSE

WaitWoken ==
  /\ pcR = "asleep" /\ signalled
  /\ WaitLeave
  /\ pcR' = "fetch"
  /\ UNCHANGED <<ring, mutex, writer, buf, want, pcC, due>>

WaitSpurious ==
  /\ pcR = "asleep" /\ ~signalled
  /\ WaitLeave
  /\ pcR' = "fetch"
  /\ UNCHANGED <<ring, mutex, writer, buf, want, pcC, due>>

(* The timeout may win against a Signal; the event is swallowed with it.   *)
(* The caller polls again, or fetches anyhow while the output is paused.   *)
WaitTimeout ==
  /\ pcR = "asleep"
  /\ WaitLeave
  /\ pcR' \in {"poll", "fetch"}
  /\ UNCHANGED <<ring, mutex, writer, buf, want, pcC, due>>

-----------------------------------------------------------------------------
(* fetch()                                                                 *)
Upto(n) == IF n > avail THEN avail ELSE n
SpanFromStart(from, n) == [i \in 1..n |-> data[i - 1]]   \* mutant: head forgotten
Span(from, n) == [i \in 1..n |-> data[from + i - 1]]
AfterFetch(bytes) == IF bytes = << >> THEN "poll" ELSE "forward"

(* Empty the ring up to its end; head rolls over to its beginning.         *)
FetchRoll ==
  /\ pcR = "fetch" /\ mutex = None
  /\ \E len \in 1..Size :
       /\ head + Upto(len) > Size
       /\ buf' = Span(head, Size - head)
       /\ want' = Upto(len) - (Size - head)
  /\ avail' = avail - (Size - head)
  /\ head' = 0
  /\ mutex' = "reader"
  /\ pcR' = "copy"
  /\ UNCHANGED <<data, tail, watch, writer, signalled, pcC, due>>

FetchRest ==
  /\ \/ pcR = "copy" /\ buf' = buf \o Span(head, want)
        /\ avail' = avail - want /\ head' = (head + want) % Size
     \/ pcR = "fetch" /\ mutex = None
        /\ \E len \in 1..Size :
             /\ head + Upto(len) <= Size
             /\ buf' = Span(head, Upto(len))
             /\ avail' = avail - Upto(len)
             /\ head' = (head + Upto(len)) % Size
  /\ want' = 0
  /\ mutex' = None
  /\ pcR' = AfterFetch(buf')
  /\ due' = (due /\ avail' > Threshold)
  /\ UNCHANGED <<data, tail, watch, writer, signalled, pcC>>

Forward ==
  /\ pcR = "forward"
  /\ buf' = << >> /\ pcR' = "poll"
  /\ UNCHANGED <<ring, mutex, watch, writer, want, signalled, pcC, due>>

-----------------------------------------------------------------------------
(* flush(), by any thread outside store() and fetch(); switching off and   *)
(* muting also signal(), the other callers do not.                         *)
Flush ==
  /\ pcC = "idle" /\ mutex = None
  /\ avail' = 0 /\ head' = 0 /\ tail' = 0
  /\ pcC' \in {"idle", "signal"}
  /\ due' = FALSE
  /\ UNCHANGED <<data, mutex, watch, writer, reader, signalled>>

ControlSignal ==
  /\ pcC = "signal"
  /\ Signal
  /\ pcC' = "idle"
  /\ UNCHANGED <<ring, mutex, writer, reader, due>>

-----------------------------------------------------------------------------
StoreStep == StoreRefuse \/ StoreRoll \/ StoreAppend \/ StoreSignal
WaitStep == WaitWoken \/ WaitSpurious \/ WaitTimeout
FetchStep == FetchRoll \/ FetchRest

Next ==
  \/ StoreCall \/ StoreRefuse \/ StoreRoll \/ StoreAppend \/ StoreSignal
  \/ Poll \/ WaitEnter \/ WaitWoken \/ WaitSpurious \/ WaitTimeout
  \/ FetchRoll \/ FetchRest \/ Forward
  \/ Flush \/ ControlSignal

Spec == Init /\ [][Next]_vars

(* A thread inside a call goes on.  Its steps that need the mutex get it   *)
(* when it is free again and again: the writer has 184 bytes at a time.    *)
(* No fairness for WaitTimeout and WaitSpurious, for the calls of store()  *)
(* and for the flushes.                                                    *)
FairSpec ==
  /\ Spec
  /\ SF_vars(StoreStep)
  /\ WF_vars(Poll) /\ WF_vars(WaitEnter) /\ WF_vars(WaitWoken)
  /\ SF_vars(FetchStep) /\ WF_vars(Forward)
  /\ WF_vars(ControlSignal)

-----------------------------------------------------------------------------
(* The indices agree with the count at every step, also between the two    *)
(* halves of a chunk that rolls over, and only the owner of the mutex is   *)
(* between them.                                                           *)
RingConsistent ==
  /\ tail = (head + avail) % Size
  /\ mutex = "writer" <=> pcW = "append"
  /\ mutex = "reader" <=> pcR = "copy"

(* poll() looks at avail before Wait() and without its mutex, and Wait()   *)
(* clears an event it did not wait for; still the reader never sleeps on   *)
(* bytes a store() with wakeup announced or is about to announce.          *)
NoLostWakeup ==
  /\ pcR = "asleep" /\ due => signalled \/ pcW = "signal"
  /\ pcR = "wait" /\ due => bounce \/ pcW = "signal"

(* ChangeLog: store() "returns boolean, true if successfull, false if      *)
(* buffer overflow".  The result of a store() that is about to signal is   *)
(* FALSE only if the chunk was refused.                                    *)
StoreFalseOnlyOnOverflow == pcW = "signal" => ret \/ refused

(* What was announced is fetched or flushed even if the timeout of poll()  *)
(* never fires: the bounce flag alone keeps the forwarding thread going.   *)
AnnouncedIsServed == due ~> (pcR = "forward" \/ ~due)

(* A reader asleep while the controlling thread flushes and signals        *)
(* returns from Wait() without the timeout, so that the forwarding thread  *)
(* gets to look at ACTIVE.                                                 *)
SignalEndsSleep == (pcC = "signal" /\ pcR = "asleep") ~> pcR # "asleep"

(* Both: the reader is woken for bytes and by the controlling thread.      *)
ReaderIsWoken == AnnouncedIsServed /\ SignalEndsSleep

-----------------------------------------------------------------------------
(* The refinement.  A chunk counts as stored when store() leaves its       *)
(* critical section, and bytes count as fetched when fetch() does.         *)
Stored(n) == [i \in 1..n |-> data[(head + i - 1) % Size]]
Queue ==
  CASE mutex = "writer" -> Stored(avail - rolled)
    [] mutex = "reader" -> buf \o Stored(avail)
    [] OTHER -> Stored(avail)
Handed == IF pcR = "forward" THEN buf ELSE << >>

Fifo == INSTANCE ByteFifo WITH queue <- Queue, handed <- Handed
IsFifo == Fifo!FifoSpec
=============================================================================
