---------------------------- MODULE Mp2Scanner ----------------------------
(* The Mpeg audio scanner of mp2.c: Count() and Frame() as in Ac3Scanner,   *)
(* but a frame is either put into a burst as it is (flag MP2SPDIF), or      *)
(* decoded with libmad, which wants the first MAD_BUFFER_GUARD bytes of the *)
(* next frame behind it.  These bytes are kept and scanned first by the     *)
(* next call, and Count() waits for them before it tells of a frame.        *)
(* libmad is external: it plays a sound frame, and answers anything to a    *)
(* broken one, after which it may stand elsewhere than at the guard bytes.  *)
EXTENDS Integers, Sequences, Functions

CONSTANTS Streams,      \* what a channel may send, as sequences of bytes
          Chunks,       \* lengths of a piece of payload
          Rate,         \* cMP2::sample_rate
          MAD_BUFFER_GUARD

Magic == <<"ff", "e0">>
None == <<"00", "1f">>
Least(a, b) == IF a < b THEN a ELSE b

VARIABLES stream,       \* the bytes the channel sends
          spdif,        \* flag MP2SPDIF
          buf, out,     \* bytes Count() and Frame() have consumed
          tail,         \* end of the current piece
          turn,         \* who works on the piece
          s,            \* scanner: sync word, payload, sizes, guard bytes
          obuf,         \* guard bytes of the last frame not yet scanned
          running,      \* libmad is started
          rest,         \* libmad stands at the guard bytes (BufferGuard())
          c,            \* counter: sync word, bytes found, size, guard left
          ret,          \* what Count() returns
          last,         \* the frame in the last burst, -1: none
          heard         \* the frames in the bursts handed to the device

countVars == <<buf, c, ret>>
madVars == <<running, rest>>
frameVars == <<out, s, obuf, madVars, last, heard>>
vars == <<stream, spdif, tail, turn, countVars, frameVars>>

\* The third byte of a frame holds the codes of its sampling rate and length;
\* length 0 stands for a combination that is not valid.
IsHead(b) == b.v = "head"
SizeOf(b) == IF IsHead(b) THEN b.z ELSE 0

ScanReset == [sync |-> None, pay |-> <<>>, size |-> 0, rate |-> 0,
              guard |-> <<>>]
CountReset == [sync |-> None, bfound |-> 0, fsize |-> 0, guard |-> 0]
Pos == Len(s.pay) + 2

Init == /\ stream \in Streams /\ spdif \in BOOLEAN
        /\ buf = 0 /\ out = 0 /\ tail = 0
        /\ turn = "idle"
        /\ s = ScanReset /\ obuf = <<>> /\ c = CountReset
        /\ running = FALSE /\ rest = TRUE
        /\ ret = FALSE /\ last = -1 /\ heard = <<>>

\* A piece of payload arrives.
Feed == /\ turn = "idle" /\ out < Len(stream)
        /\ \E n \in Chunks : tail' = Least(out + n, Len(stream))
        /\ turn' = "count"
        /\ buf' = out /\ ret' = FALSE
        /\ UNCHANGED <<stream, spdif, frameVars, c>>

\* A mute or a switch clears the scanner and stops libmad; another stream,
\* and maybe the other flag, follow.
Refeed == /\ turn = "idle"
          /\ stream' \in Streams /\ spdif' \in BOOLEAN
          /\ buf' = 0 /\ out' = 0 /\ tail' = 0
          /\ obuf' = <<>> /\ c' = CountReset
          /\ running' = FALSE /\ rest' = TRUE
          /\ ret' = FALSE /\ last' = -1 /\ heard' = <<>>
          /\ UNCHANGED turn
\* Mutant: the guard bytes survive the reset.
KeepGuard == Refeed /\ s' = [ScanReset EXCEPT !.guard = s.guard]
Clear == Refeed /\ s' = ScanReset

-----------------------------------------------------------------------------
(* Count().                                                                  *)

Counting == turn = "count" /\ UNCHANGED <<stream, spdif, tail, frameVars>>

CountSync == /\ Counting
             /\ c.bfound < 2 /\ c.sync # Magic /\ buf < tail
             /\ buf' = buf + 1
             /\ c' = [c EXCEPT !.sync = <<@[2], stream[buf'].v>>]
             /\ UNCHANGED <<turn, ret>>

\* The sync word of the next frame is part of the guard bytes.
CountFound == /\ Counting
              /\ c.bfound < 2 /\ c.sync = Magic
              /\ c' = [c EXCEPT !.bfound = 2,
                         !.guard = IF @ = MAD_BUFFER_GUARD THEN @ - 2 ELSE 0]
              /\ UNCHANGED <<turn, buf, ret>>

CountHead == /\ Counting
             /\ c.bfound = 2 /\ buf < tail
             /\ LET g == IF c.guard # 0 /\ c.guard = MAD_BUFFER_GUARD - 2
                         THEN c.guard - 1 ELSE 0
                IN \/ /\ SizeOf(stream[buf + 1]) # 0
                      /\ c' = [c EXCEPT !.bfound = 3, !.guard = g,
                                 !.fsize = SizeOf(stream[buf + 1])]
                      /\ buf' = buf + 1
                   \/ /\ SizeOf(stream[buf + 1]) = 0
                      /\ c' = [c EXCEPT !.bfound = 0, !.guard = g,
                                 !.sync = None]
                      /\ UNCHANGED buf
             /\ UNCHANGED <<turn, ret>>

\* The rest of the guard bytes go by with the body of the next frame.
\* Mutant: only the end of the piece is looked at.
GuardLate == /\ Counting
             /\ c.bfound >= 3 /\ c.bfound < c.fsize /\ buf < tail
             /\ LET n == Least(c.fsize - c.bfound, tail - buf)
                IN /\ c' = [c EXCEPT !.bfound = @ + n,
                              !.guard = @ - Least(n, @)]
                   /\ buf' = buf + n
                   /\ ret' = (ret \/ (c.guard # 0 /\ n > c.guard))
             /\ UNCHANGED turn
CountBody == /\ Counting
             /\ c.bfound >= 3 /\ c.bfound < c.fsize /\ buf < tail
             /\ LET n == Least(c.fsize - c.bfound, tail - buf)
                IN /\ c' = [c EXCEPT !.bfound = @ + n,
                              !.guard = @ - Least(n, @)]
                   /\ buf' = buf + n
                   /\ ret' = (ret \/ (c.guard # 0 /\ n >= c.guard))
             /\ UNCHANGED turn

CountCross == /\ Counting
              /\ c.bfound >= 3 /\ c.bfound >= c.fsize
              /\ c' = [c EXCEPT !.bfound = 0, !.sync = None,
                         !.guard = IF spdif THEN @ ELSE MAD_BUFFER_GUARD]
              /\ ret' = (ret \/ spdif)
              /\ UNCHANGED <<turn, buf>>

CountOut == /\ Counting
            /\ buf >= tail
            /\ ~(c.bfound < 2 /\ c.sync = Magic)
            /\ ~(c.bfound >= 3 /\ c.bfound >= c.fsize)
            /\ turn' = "frame"
            /\ UNCHANGED countVars

Count == \/ CountSync \/ CountFound \/ CountHead
         \/ CountBody \/ CountCross \/ CountOut

-----------------------------------------------------------------------------
(* Frame(), and the loop of Forward() around it.  The guard bytes of the     *)
(* last frame are scanned before those of the piece.                         *)

Framing == turn = "frame" /\ UNCHANGED <<stream, spdif, tail, countVars>>
Resync == [s EXCEPT !.sync = None, !.pay = <<>>]
HeadKnown == s.sync = Magic /\ Pos >= 3
GuardFull == Len(s.guard) = MAD_BUFFER_GUARD

More == obuf # <<>> \/ out < tail
NextByte == IF obuf # <<>> THEN obuf[1] ELSE stream[out + 1]
Consumed == IF obuf # <<>> THEN obuf' = Tail(obuf) /\ UNCHANGED out
                           ELSE out' = out + 1 /\ UNCHANGED obuf

\* A new frame begins with the guard bytes of the one before.
\* Mutant: they are taken as read.
DropGuard == /\ Framing
             /\ GuardFull /\ s.pay = <<>> /\ s.sync = None
             /\ s' = [s EXCEPT !.guard = <<>>]
             /\ UNCHANGED <<turn, out, obuf, madVars, last, heard>>
FrameNew == /\ Framing
            /\ GuardFull /\ s.pay = <<>> /\ s.sync = None
            /\ obuf' = s.guard
            /\ s' = [s EXCEPT !.guard = <<>>]
            /\ UNCHANGED <<turn, out, madVars, last, heard>>

FrameSync == /\ Framing
             /\ s.sync # Magic /\ ~GuardFull /\ More
             /\ s' = [s EXCEPT !.sync = <<@[2], NextByte.v>>]
             /\ Consumed
             /\ UNCHANGED <<turn, madVars, last, heard>>

FrameHead == /\ Framing
             /\ s.sync = Magic /\ Pos < 3 /\ More
             /\ s' = [s EXCEPT !.pay = Append(@, NextByte)]
             /\ Consumed
             /\ UNCHANGED <<turn, madVars, last, heard>>

FrameParse == /\ Framing
              /\ HeadKnown /\ s.size = 0
              /\ LET b == s.pay[1]
                 IN s' = IF SizeOf(b) = 0
                         THEN Resync
                         ELSE [s EXCEPT !.size = SizeOf(b), !.rate = b.r]
              /\ UNCHANGED <<turn, out, obuf, madVars, last, heard>>

FrameRate == /\ Framing
             /\ HeadKnown /\ s.size # 0 /\ s.rate # Rate
             /\ s' = [Resync EXCEPT !.size = 0]
             /\ UNCHANGED <<turn, out, obuf, madVars, last, heard>>

Fits == HeadKnown /\ s.size # 0 /\ s.rate = Rate

FrameBody == /\ Framing
             /\ Fits /\ Pos < s.size /\ More
             /\ LET from == IF obuf # <<>> THEN obuf
                                           ELSE SubSeq(stream, out + 1, tail)
                    n == Least(s.size - Pos, Len(from))
                IN /\ s' = [s EXCEPT !.pay = @ \o SubSeq(from, 1, n)]
                   /\ IF obuf # <<>>
                      THEN obuf' = SubSeq(obuf, n + 1, Len(obuf)) /\ out' = out
                      ELSE out' = out + n /\ obuf' = obuf
             /\ UNCHANGED <<turn, madVars, last, heard>>

Sound == \A k \in 1..Len(s.pay) : /\ s.pay[k].f = s.pay[1].f
                                  /\ s.pay[k].i = k + 1
                                  /\ s.pay[k].ok

\* The frame goes into a burst as it is.
FramePlay == /\ Framing
             /\ spdif /\ Fits /\ Pos >= s.size
             /\ s' = [Resync EXCEPT !.size = 0]
             /\ last' = s.pay[1].f
             /\ heard' = Append(heard, last')
             /\ UNCHANGED <<turn, out, obuf, madVars>>

\* The guard bytes are read from the piece.
\* Mutant: all that is left of the piece is taken.
GuardOver == /\ Framing
             /\ ~spdif /\ Fits /\ Pos >= s.size /\ ~GuardFull /\ out < tail
             /\ out' = tail
             /\ s' = [s EXCEPT !.guard = @ \o SubSeq(stream, out + 1, tail)]
             /\ UNCHANGED <<turn, obuf, madVars, last, heard>>
FrameGuard == /\ Framing
              /\ ~spdif /\ Fits /\ Pos >= s.size /\ ~GuardFull /\ out < tail
              /\ out' = Least(out + MAD_BUFFER_GUARD - Len(s.guard), tail)
              /\ s' = [s EXCEPT !.guard = @ \o SubSeq(stream, out + 1, out')]
              /\ UNCHANGED <<turn, obuf, madVars, last, heard>>

\* Stream() starts libmad, which resets the scanner, or finds that libmad
\* does not stand where it should.
Ready == ~spdif /\ Fits /\ Pos >= s.size /\ GuardFull
Finished == IF running THEN [Resync EXCEPT !.size = 0] ELSE ScanReset

StreamFails == /\ Framing
               /\ Ready /\ running /\ ~rest
               /\ s' = Finished
               /\ UNCHANGED <<turn, out, obuf, madVars, last, heard>>

Answers == IF Sound THEN {"play"} ELSE {"play", "data", "last", "error"}

\* The frame behind the payload is repeated, or taken for the end of the
\* piece when there is none.
Again == \/ /\ last # -1
            /\ heard' = Append(heard, last)
            /\ UNCHANGED <<turn, out>>
         \/ /\ last = -1
            /\ out' = tail /\ turn' = "idle"
            /\ UNCHANGED heard

\* Decode() plays, wants more (an empty burst), repeats, or gives up.
Decode == /\ Framing
          /\ Ready /\ (rest \/ ~running)
          /\ running' = TRUE
          /\ s' = Finished
          /\ UNCHANGED obuf
          /\ \E a \in Answers :
                /\ rest' \in IF a \in {"last", "error"} THEN BOOLEAN ELSE {TRUE}
                /\ \/ /\ a \in {"play", "data"}
                      /\ last' = IF a = "play" THEN s.pay[1].f ELSE 0
                      /\ heard' = Append(heard, last')
                      /\ UNCHANGED <<turn, out>>
                   \/ a = "last" /\ Again /\ UNCHANGED last
                   \/ a = "error" /\ UNCHANGED <<turn, out, last, heard>>

\* Frame() is out of bytes: no burst, and Forward() returns.
FrameOut == /\ Framing
            /\ ~More
            /\ ~(GuardFull /\ s.pay = <<>> /\ s.sync = None)
            /\ ~(HeadKnown /\ (s.size = 0 \/ s.rate # Rate))
            /\ ~(spdif /\ Fits /\ Pos >= s.size) /\ ~Ready
            /\ turn' = "idle"
            /\ UNCHANGED frameVars

Frame == \/ FrameNew \/ FrameSync \/ FrameHead \/ FrameParse \/ FrameRate
         \/ FrameBody \/ FramePlay \/ FrameGuard \/ StreamFails \/ Decode
         \/ FrameOut

Next == Feed \/ Clear \/ Count \/ Frame

Spec == Init /\ [][Next]_vars

-----------------------------------------------------------------------------
(* Properties.                                                               *)

\* The variables hold what the code keeps in them (mp2.h).
TypeOK == /\ stream \in Streams /\ spdif \in BOOLEAN
          /\ tail \in 0..Len(stream) /\ buf \in 0..tail /\ out \in 0..tail
          /\ turn \in {"idle", "count", "frame"}
          /\ Pos \in 2..(IF s.size > 3 THEN s.size ELSE 3)
          /\ Len(s.guard) <= MAD_BUFFER_GUARD /\ Len(obuf) <= MAD_BUFFER_GUARD
          /\ c.guard \in 0..MAD_BUFFER_GUARD /\ c.bfound \in Nat
          /\ {running, rest, ret} \subseteq BOOLEAN

AllHeard == turn = "idle" /\ out = Len(stream) /\ out > 0
FrameNo == {stream[k].f : k \in 1..Len(stream)}
Final == stream[Len(stream)].f
\* Frame n begins behind byte j and is whole, sound and of the own rate.
Places(n) == {k \in 1..Len(stream) : stream[k].f = n}
SyncAt(j) == <<stream[j + 1].v, stream[j + 2].v>> = Magic
WholeAt(n, j) == /\ SizeOf(stream[j + 3]) >= MAD_BUFFER_GUARD
                 /\ stream[j + 3].r = Rate
                 /\ Places(n) = j + 1..j + SizeOf(stream[j + 3])
                 /\ \A k \in Places(n) : stream[k].i = k - j - 1 /\ stream[k].ok
                 /\ SyncAt(j)
Whole(n) == \E j \in 0..Len(stream) - 3 : WholeAt(n, j)
\* Nothing is lost, and no data look like a sync word.
Intact == /\ \A n \in FrameNo : Whole(n)
          /\ \A j \in 0..Len(stream) - 2 : SyncAt(j) => stream[j + 1].i = 0
\* What must be heard: a sound frame behind a sound one, except the last one
\* for libmad, whose guard bytes are still to come.
Due(n) == Whole(n) /\ (n = 1 \/ Whole(n - 1)) /\ (spdif \/ n < Final)

\* A damaged frame costs at most the one after it, and starting libmad the
\* second one, however the stream is cut into pieces (Frame()), as long as
\* libmad stands where it should: nothing puts it there again but a reset.
LostOnlyBehindDamage ==
    AllHeard /\ rest => \A n \in FrameNo :
        Due(n) /\ ~(~spdif /\ heard # <<>> /\ n = heard[1] + 1)
            => n \in Range(heard)

\* libmad gets a whole frame and the bytes that follow it in the stream
\* (Stream() on its arguments).
StreamedWhole ==
    turn = "frame" /\ Ready /\ Intact =>
        /\ Sound
        /\ \A k \in 1..MAD_BUFFER_GUARD :
              s.guard[k].i = k - 1 /\ s.guard[k].f = s.pay[1].f + 1

\* Count() tells of a frame in the piece that completes it, with the guard
\* bytes libmad wants (Count() against Frame()).
CrossedIsCounted ==
    turn = "frame" /\ Intact /\ (Ready \/ (spdif /\ Fits /\ Pos >= s.size))
        => ret
=============================================================================
