---------------------------- MODULE Ac3Scanner ----------------------------
(* The AC3 scanner of ac3.c.  The receiving side hands each piece of        *)
(* payload to Count(), which tells whether it crossed the end of a frame;   *)
(* the forwarding side calls Frame() in a loop, which puts the frames of    *)
(* the stream into bursts.  Both keep what they know of an unfinished frame *)
(* between two pieces, in `c' and in `s'.  A byte is its value, reduced to  *)
(* what the scanner tells apart, together with the frame it belongs to and  *)
(* its place there; the check sum of a payload is right exactly for the     *)
(* whole body of one sound frame.  Piece after piece, Count() runs first    *)
(* and Frame() after it: they share nothing.                                *)
EXTENDS Integers, Sequences, Functions

CONSTANTS Streams,      \* what a channel may send, as sequences of bytes
          Chunks,       \* lengths of a piece of payload
          Rate,         \* cAC3::sample_rate
          Wild          \* what the size table may hold beyond its columns

Rates == {32, 44, 48}
Magic == <<"0b", "77">>
None == <<"ff", "ff">>

\* Byte 4 of a frame holds the sampling rate code (0 for the reserved one)
\* and the size code, here the length of the frame in bytes (0 for a code the
\* table has no row for).
FreqOf(b) == IF b.v = "code" THEN b.r ELSE 0
SizeOf(b) == IF FreqOf(b) # 0 THEN b.z ELSE 0

VARIABLES stream,       \* the bytes the channel sends
          buf, out,     \* bytes Count() and Frame() have consumed
          tail,         \* end of the current piece
          turn,         \* who works on the piece
          s,            \* scanner: sync word, payload, payload size, rate
          c,            \* counter: sync word, bytes found, frame size
          ret,          \* what Count() returns
          last,         \* the frame in the last burst, 0: none
          heard,        \* the frames in the bursts handed to the device
          crossed       \* frame ends Count() has seen

vars == <<stream, buf, out, tail, turn, s, c, ret, last, heard, crossed>>
countVars == <<buf, c, ret, crossed>>
frameVars == <<out, s, last, heard>>

ScanReset == [sync |-> None, pay |-> <<>>, size |-> 0, rate |-> 0]
CountReset == [sync |-> None, bfound |-> 0, fsize |-> 0]
Pos == Len(s.pay) + 2

Init == /\ stream \in Streams
        /\ buf = 0 /\ out = 0 /\ tail = 0
        /\ turn = "idle"
        /\ s = ScanReset /\ c = CountReset
        /\ ret = FALSE /\ last = 0 /\ heard = <<>> /\ crossed = 0

\* A piece of payload arrives.
Feed == /\ turn = "idle"
        /\ out < Len(stream)
        /\ \E n \in Chunks : tail' = IF out + n < Len(stream)
                                     THEN out + n ELSE Len(stream)
        /\ turn' = "count"
        /\ buf' = out
        /\ ret' = FALSE
        /\ UNCHANGED <<stream, frameVars, c, crossed>>

\* A mute or a switch clears the scanner; another stream follows.
Refeed == /\ turn = "idle"
         /\ stream' \in Streams
         /\ buf' = 0 /\ out' = 0 /\ tail' = 0
         /\ last' = 0 /\ heard' = <<>> /\ crossed' = 0 /\ ret' = FALSE
         /\ UNCHANGED turn
\* Mutant: the payload size survives the reset.
KeepSize == /\ Refeed
            /\ c' = CountReset
            /\ s' = [ScanReset EXCEPT !.size = s.size, !.rate = s.rate]
Clear == /\ Refeed
         /\ c' = CountReset
         /\ s' = ScanReset

-----------------------------------------------------------------------------
(* Count(): bytes 0 and 1 are the sync word, 2 and 3 are skipped, 4 tells    *)
(* the size.                                                                 *)

Counting == turn = "count" /\ UNCHANGED <<stream, tail, frameVars>>
NextByte == stream[buf + 1]

CountSync == /\ Counting
             /\ c.bfound < 2 /\ c.sync # Magic /\ buf < tail
             /\ buf' = buf + 1
             /\ c' = [c EXCEPT !.sync = <<@[2], NextByte.v>>]
             /\ UNCHANGED <<turn, ret, crossed>>

CountFound == /\ Counting
              /\ c.bfound < 2 /\ c.sync = Magic
              /\ c' = [c EXCEPT !.bfound = 2]
              /\ UNCHANGED <<turn, buf, ret, crossed>>

CountSkip == /\ Counting
             /\ c.bfound \in {2, 3} /\ buf < tail
             /\ buf' = buf + 1
             /\ c' = [c EXCEPT !.bfound = @ + 1]
             /\ UNCHANGED <<turn, ret, crossed>>

\* The reserved rate indexes the size table beyond its three columns.
CountSize == /\ Counting
             /\ c.bfound = 4 /\ buf < tail
             /\ buf' = buf + 1
             /\ \E n \in IF FreqOf(NextByte) = 0 THEN Wild
                         ELSE {SizeOf(NextByte)} :
                   c' = [c EXCEPT !.bfound = 5, !.fsize = n]
             /\ UNCHANGED <<turn, ret, crossed>>

CountBody == /\ Counting
             /\ c.bfound >= 5 /\ c.bfound < c.fsize /\ buf < tail
             /\ LET n == IF c.fsize - c.bfound < tail - buf
                         THEN c.fsize - c.bfound ELSE tail - buf
                IN /\ c' = [c EXCEPT !.bfound = @ + n]
                   /\ buf' = buf + n
             /\ UNCHANGED <<turn, ret, crossed>>

\* Mutant: the end of a frame that ends with its piece is not told.
CrossLate == /\ Counting
             /\ c.bfound >= 5 /\ c.fsize # 0 /\ c.bfound >= c.fsize
             /\ c' = [c EXCEPT !.bfound = 0, !.sync = None]
             /\ ret' = (buf < tail)
             /\ crossed' = crossed + 1
             /\ UNCHANGED <<turn, buf>>
CountCross == /\ Counting
              /\ c.bfound >= 5 /\ c.fsize # 0 /\ c.bfound >= c.fsize
              /\ c' = [c EXCEPT !.bfound = 0, !.sync = None]
              /\ ret' = TRUE
              /\ crossed' = crossed + 1
              /\ UNCHANGED <<turn, buf>>

\* Count() is out of bytes, or holds a size no row of the table gave.
CountOut == /\ Counting
            /\ \/ /\ buf >= tail
                  /\ ~(c.bfound < 2 /\ c.sync = Magic)
                  /\ ~(c.bfound >= 5 /\ c.fsize # 0 /\ c.bfound >= c.fsize)
               \/ c.bfound >= 5 /\ c.fsize = 0
            /\ turn' = "frame"
            /\ UNCHANGED countVars

Count == \/ CountSync \/ CountFound \/ CountSkip \/ CountSize
         \/ CountBody \/ CountCross \/ CountOut

-----------------------------------------------------------------------------
(* Frame(), and the loop of Forward() around it.                             *)

Framing == turn = "frame" /\ UNCHANGED <<stream, tail, countVars>>
Resync == [s EXCEPT !.sync = None, !.pay = <<>>]
HeadKnown == s.sync = Magic /\ Pos >= 6

FrameSync == /\ Framing
             /\ s.sync # Magic /\ out < tail
             /\ out' = out + 1
             /\ s' = [s EXCEPT !.sync = <<@[2], stream[out + 1].v>>]
             /\ UNCHANGED <<turn, last, heard>>

FrameHead == /\ Framing
             /\ s.sync = Magic /\ Pos < 6 /\ out < tail
             /\ out' = out + 1
             /\ s' = [s EXCEPT !.pay = Append(@, stream[out + 1])]
             /\ UNCHANGED <<turn, last, heard>>

\* The header is parsed once per frame: payload_size tells whether it was.
FrameParse == /\ Framing
              /\ HeadKnown /\ s.size = 0
              /\ LET b == s.pay[3]
                 IN s' = IF SizeOf(b) = 0
                         THEN [Resync EXCEPT !.rate = FreqOf(b)]
                         ELSE [s EXCEPT !.size = SizeOf(b), !.rate = FreqOf(b)]
              /\ UNCHANGED <<turn, out, last, heard>>

\* A frame of another sampling rate is not played.
\* Mutant: its size is kept for the next frame, as the DTS scanner does.
RateSizeKept == /\ Framing
                /\ HeadKnown /\ s.size # 0 /\ s.rate # Rate
                /\ s' = Resync
                /\ UNCHANGED <<turn, out, last, heard>>
FrameRate == /\ Framing
             /\ HeadKnown /\ s.size # 0 /\ s.rate # Rate
             /\ s' = [Resync EXCEPT !.size = 0]
             /\ UNCHANGED <<turn, out, last, heard>>

Fits == HeadKnown /\ s.size # 0 /\ s.rate = Rate

\* Mutant: a piece that ends in a frame is taken for the whole frame's rest.
FrameBodyOver == /\ Framing
                 /\ Fits /\ Pos < s.size /\ out < tail
                 /\ s' = [s EXCEPT !.pay = @ \o SubSeq(stream, out + 1, tail)]
                 /\ out' = tail
                 /\ UNCHANGED <<turn, last, heard>>
FrameBody == /\ Framing
             /\ Fits /\ Pos < s.size /\ out < tail
             /\ LET n == IF s.size - Pos < tail - out
                         THEN s.size - Pos ELSE tail - out
                IN /\ s' = [s EXCEPT !.pay =
                                  @ \o SubSeq(stream, out + 1, out + n)]
                   /\ out' = out + n
             /\ UNCHANGED <<turn, last, heard>>

\* The check sum over the payload behind the sync word.
CrcCheck == /\ \A k \in 1..Len(s.pay) : /\ s.pay[k].f = s.pay[1].f
                                        /\ s.pay[k].i = k + 1
                                        /\ s.pay[k].ok

\* A sound frame is played, and remembered.
\* Mutant: the scanner is not reset behind it.
PlayTwice == /\ Framing
             /\ Fits /\ Pos >= s.size /\ CrcCheck
             /\ last' = s.pay[1].f
             /\ heard' = Append(heard, last')
             /\ UNCHANGED <<turn, out, s>>
FramePlay == /\ Framing
             /\ Fits /\ Pos >= s.size /\ CrcCheck
             /\ s' = [Resync EXCEPT !.size = 0]
             /\ last' = s.pay[1].f
             /\ heard' = Append(heard, last')
             /\ UNCHANGED <<turn, out>>

\* A broken frame is replaced by the last one.  When there is none, Forward()
\* takes the answer for the end of the piece.
\* Mutant: a broken frame is only skipped.
CrcSkips == /\ Framing
            /\ Fits /\ Pos >= s.size /\ ~CrcCheck
            /\ s' = [Resync EXCEPT !.size = 0]
            /\ UNCHANGED <<turn, out, last, heard>>
FrameCrc == /\ Framing
            /\ Fits /\ Pos >= s.size /\ ~CrcCheck
            /\ s' = [Resync EXCEPT !.size = 0]
            /\ \/ /\ last # 0
                  /\ heard' = Append(heard, last)
                  /\ UNCHANGED <<turn, out>>
               \/ /\ last = 0
                  /\ out' = tail
                  /\ turn' = "idle"
                  /\ UNCHANGED heard
            /\ UNCHANGED last

\* Frame() is out of bytes: no burst, and Forward() returns.
\* Mutant: what was scanned of an unfinished header is forgotten.
FrameForgets == /\ Framing
                /\ out >= tail /\ ~(HeadKnown /\ s.size = 0)
                /\ ~(HeadKnown /\ s.size # 0 /\ s.rate # Rate)
                /\ ~(Fits /\ Pos >= s.size)
                /\ turn' = "idle"
                /\ s' = IF Pos < 6 THEN Resync ELSE s
                /\ UNCHANGED <<out, last, heard>>
FrameOut == /\ Framing
            /\ out >= tail /\ ~(HeadKnown /\ s.size = 0)
            /\ ~(HeadKnown /\ s.size # 0 /\ s.rate # Rate)
            /\ ~(Fits /\ Pos >= s.size)
            /\ turn' = "idle"
            /\ UNCHANGED frameVars

Frame == \/ FrameSync \/ FrameHead \/ FrameParse \/ FrameRate
         \/ FrameBody \/ FramePlay \/ FrameCrc \/ FrameOut

Next == Feed \/ Clear \/ Count \/ Frame

Spec == Init /\ [][Next]_vars

-----------------------------------------------------------------------------
(* Properties.                                                               *)

\* The variables hold what the code keeps in them (ac3.h).
TypeOK == /\ stream \in Streams
          /\ tail \in 0..Len(stream) /\ buf \in 0..tail /\ out \in 0..tail
          /\ turn \in {"idle", "count", "frame"}
          /\ s.size \in Nat /\ s.rate \in Rates \cup {0}
          /\ Pos \in 2..(IF s.size > 6 THEN s.size ELSE 6)
          /\ c.bfound \in Nat /\ c.fsize \in Nat
          /\ ret \in BOOLEAN /\ last \in Nat

AllHeard == turn = "idle" /\ out = Len(stream) /\ out > 0
\* Frame n begins behind byte j and is whole: its sync word, its code and all
\* bytes the code tells of are there.
FrameNo == {stream[k].f : k \in 1..Len(stream)}
Places(n) == {k \in 1..Len(stream) : stream[k].f = n}
SyncAt(j) == <<stream[j + 1].v, stream[j + 2].v>> = Magic
Code(j) == stream[j + 5]
WholeAt(n, j) == /\ SizeOf(Code(j)) > 5
                 /\ Places(n) = j + 1..j + SizeOf(Code(j))
                 /\ \A k \in Places(n) : stream[k].i = k - j - 1
                 /\ SyncAt(j)
Starts == 0..Len(stream) - 5
Whole(n) == \E j \in Starts : WholeAt(n, j)
\* Whole, with the right check sum, and of the rate of the card.
Sound(n) == \E j \in Starts : /\ WholeAt(n, j) /\ FreqOf(Code(j)) = Rate
                              /\ \A k \in Places(n) : stream[k].ok

\* A damaged frame costs at most the one after it: a sound frame behind a
\* sound one (or at the start) is in a burst, however the stream is cut into
\* pieces (Frame() over all its calls).  A stream that begins with a broken
\* frame is the exception: there is no frame yet to repeat, which Forward()
\* takes for the end of the piece.
LostOnlyBehindDamage ==
    AllHeard /\ Sound(1) => \A n \in FrameNo :
        Sound(n) /\ (n = 1 \/ Sound(n - 1)) => n \in Range(heard)

\* No sound frame is played twice unless a broken one is replaced by it, and
\* bursts are never out of order (FramePlay, FrameCrc).
NeverBack == \A k \in 1..Len(heard) - 1 : heard[k] <= heard[k + 1]
InOrder == /\ NeverBack
           /\ (\A n \in FrameNo : Sound(n)) =>
                 \A k \in 1..Len(heard) - 1 : heard[k] < heard[k + 1]

\* Every sync word, in the data too, is followed by a code of the own rate and
\* a length beyond the header; or every frame is whole, and no data look like
\* a sync word.
HeadsFit == \A j \in Starts :
               SyncAt(j) => FreqOf(Code(j)) = Rate /\ SizeOf(Code(j)) > 5
Intact == /\ \A n \in FrameNo : Whole(n)
          /\ \A j \in 0..Len(stream) - 2 : SyncAt(j) => stream[j + 1].i = 0

\* The counter and the scanner, which never talk to each other, agree piece
\* by piece: as many ends of frames were crossed as bursts were made, the
\* repeated ones included, once there is one to repeat (Count() against
\* Frame()).
CountsAsFramed ==
    turn = "idle" /\ HeadsFit /\ Sound(1) => crossed = Len(heard)

\* Count() tells that a piece crossed the end of a data frame, whenever
\* Frame() will complete one from it (iec60958.h on Count()).  At a reserved
\* code Frame() goes on with the next byte, while Count() takes any size for
\* the frame.
CrossedIsCounted ==
    /\ turn = "frame" /\ Fits /\ Pos >= s.size /\ CrcCheck
    /\ (HeadsFit /\ Sound(1)) \/ Intact
    => ret
=============================================================================
