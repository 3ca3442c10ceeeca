---------------------------- MODULE DtsScanner ----------------------------
(* The DTS scanner of dts.c: Count() for the receiving side and Frame() for *)
(* the forwarding side, as in Ac3Scanner, but with a sync word of four      *)
(* bytes, a header of ten, bursts whose length the frame names itself, and  *)
(* no check sum: a frame that lost bytes is filled up with those behind it. *)
(* A byte is its value, reduced to what the scanner tells apart, the frame  *)
(* it belongs to, its place there, and what the header of the frame says.   *)
EXTENDS Integers, Sequences, Functions

CONSTANTS Streams,      \* what a disc may send, as sequences of bytes
          Chunks,       \* lengths of a piece of payload
          Rate          \* cDTS::sample_rate

SPDIF_BURST_SIZE == 6144
Magic == <<"7f", "fe", "80", "01">>
None == <<"ff", "ff", "ff", "ff">>
Least(a, b) == IF a < b THEN a ELSE b

VARIABLES stream,       \* the bytes the disc sends
          buf, out,     \* bytes Count() and Frame() have consumed
          tail,         \* end of the current piece
          turn,         \* who works on the piece
          s,            \* scanner: sync word, payload, payload size, syncinfo
          c,            \* counter: sync word, bytes found, frame size
          heard,        \* the bursts handed to the device
          crossed       \* frame ends Count() has seen

vars == <<stream, buf, out, tail, turn, s, c, heard, crossed>>

\* parse_syncinfo(): bytes 5 to 7 hold the length of the frame, 4 and 5 that
\* of the burst, 8 the sampling rate.
NoInfo == [rate |-> 0, burst |-> 0]
SizeOf(b) == b.z
InfoOf(b) == [rate |-> b.r, burst |-> Least(b.burst, SPDIF_BURST_SIZE)]

ScanReset == [sync |-> None, pay |-> <<>>, size |-> 0, info |-> NoInfo]
CountReset == [sync |-> None, bfound |-> 0, fsize |-> 0]
Pos == Len(s.pay) + 4

Init == /\ stream \in Streams
        /\ buf = 0 /\ out = 0 /\ tail = 0
        /\ turn = "idle"
        /\ s = ScanReset /\ c = CountReset
        /\ heard = <<>> /\ crossed = 0

\* A piece of payload arrives.
Feed == /\ turn = "idle" /\ out < Len(stream)
        /\ \E n \in Chunks : tail' = Least(out + n, Len(stream))
        /\ turn' = "count"
        /\ UNCHANGED <<stream, buf, out, s, c, heard, crossed>>

\* A mute or a switch clears the scanner; another stream follows.
Refeed == /\ turn = "idle"
          /\ stream' \in Streams
          /\ buf' = 0 /\ out' = 0 /\ tail' = 0
          /\ heard' = <<>> /\ crossed' = 0
          /\ UNCHANGED turn
\* Mutant: only the scanner is reset.
ClearScan == Refeed /\ s' = ScanReset /\ UNCHANGED c
Clear == Refeed /\ s' = ScanReset /\ c' = CountReset

-----------------------------------------------------------------------------
(* Count().                                                                  *)

Counting == /\ turn = "count"
            /\ UNCHANGED <<stream, tail, out, s, heard>>

CountSync == /\ Counting
             /\ c.bfound < 4 /\ c.sync # Magic /\ buf < tail
             /\ buf' = buf + 1
             /\ c' = [c EXCEPT !.sync = Append(Tail(@), stream[buf'].v)]
             /\ UNCHANGED <<turn, crossed>>

CountFound == /\ Counting
              /\ c.bfound < 4 /\ c.sync = Magic
              /\ c' = [c EXCEPT !.bfound = 4]
              /\ UNCHANGED <<turn, buf, crossed>>

\* The frame size is known with the last of the bytes 5 to 7.
CountHead == /\ Counting
             /\ c.bfound \in 4..7 /\ buf < tail
             /\ buf' = buf + 1
             /\ c' = [c EXCEPT !.bfound = @ + 1,
                        !.fsize = IF c.bfound = 7 THEN SizeOf(stream[buf'])
                                  ELSE @]
             /\ UNCHANGED <<turn, crossed>>

CountBody == /\ Counting
             /\ c.bfound >= 8 /\ c.bfound < c.fsize /\ buf < tail
             /\ LET n == Least(c.fsize - c.bfound, tail - buf)
                IN c' = [c EXCEPT !.bfound = @ + n] /\ buf' = buf + n
             /\ UNCHANGED <<turn, crossed>>

CountCross == /\ Counting
              /\ c.bfound >= 8 /\ c.bfound >= c.fsize
              /\ c' = [c EXCEPT !.bfound = 0, !.sync = None]
              /\ crossed' = crossed + 1
              /\ UNCHANGED <<turn, buf>>

CountOut == /\ Counting
            /\ buf >= tail
            /\ ~(c.bfound < 4 /\ c.sync = Magic)
            /\ ~(c.bfound >= 8 /\ c.bfound >= c.fsize)
            /\ turn' = "frame"
            /\ UNCHANGED <<buf, c, crossed>>

Count == \/ CountSync \/ CountFound \/ CountHead
         \/ CountBody \/ CountCross \/ CountOut

-----------------------------------------------------------------------------
(* Frame(), and the loop of Forward() around it.                             *)

Framing == turn = "frame" /\ UNCHANGED <<stream, tail, buf, c, crossed>>
Resync == [s EXCEPT !.sync = None, !.pay = <<>>]
HeadKnown == s.sync = Magic /\ Pos >= 10

FrameSync == /\ Framing
             /\ s.sync # Magic /\ out < tail
             /\ out' = out + 1
             /\ s' = [s EXCEPT !.sync = Append(Tail(@), stream[out'].v)]
             /\ UNCHANGED <<turn, heard>>

FrameHead == /\ Framing
             /\ s.sync = Magic /\ Pos < 10 /\ out < tail
             /\ out' = out + 1
             /\ s' = [s EXCEPT !.pay = Append(@, stream[out'])]
             /\ UNCHANGED <<turn, heard>>

\* The header is parsed once per frame: payload_size tells whether it was.
FrameParse == /\ Framing
              /\ HeadKnown /\ s.size = 0
              /\ s' = [s EXCEPT !.size = SizeOf(s.pay[4]),
                                !.info = InfoOf(s.pay[5])]
              /\ UNCHANGED <<turn, out, heard>>

Misfit == s.info.burst < s.size \/ s.info.rate # Rate

\* A burst too short for the frame, or another sampling rate: the scanner
\* goes on, with the payload size and the syncinfo it has.
FrameMisfit == /\ Framing
               /\ HeadKnown /\ s.size # 0 /\ Misfit
               /\ s' = Resync
               /\ UNCHANGED <<turn, out, heard>>

Fits == HeadKnown /\ s.size # 0 /\ ~Misfit

\* Mutant: the copy runs to the end of the piece.
FrameBodyOver == /\ Framing
                 /\ Fits /\ Pos < s.size /\ out < tail
                 /\ s' = [s EXCEPT !.pay = @ \o SubSeq(stream, out + 1, tail)]
                 /\ out' = tail
                 /\ UNCHANGED <<turn, heard>>
FrameBody == /\ Framing
             /\ Fits /\ Pos < s.size /\ out < tail
             /\ out' = Least(out + s.size - Pos, tail)
             /\ s' = [s EXCEPT !.pay = @ \o SubSeq(stream, out + 1, out')]
             /\ UNCHANGED <<turn, heard>>

\* What the device gets: whose sync word it follows, whether all bytes are of
\* that frame, in place, and the length.
Synced == stream[out - Len(s.pay)].f
Burst == [f |-> Synced,
          pure |-> \A k \in 1..Len(s.pay) : /\ s.pay[k].f = Synced
                                            /\ s.pay[k].i = k + 3,
          size |-> s.info.burst]

\* Mutant: the payload size is kept for the next frame.
PlayKeeps == /\ Framing
             /\ Fits /\ Pos >= s.size
             /\ s' = Resync
             /\ heard' = Append(heard, Burst)
             /\ UNCHANGED <<turn, out>>
FramePlay == /\ Framing
             /\ Fits /\ Pos >= s.size
             /\ s' = [Resync EXCEPT !.size = 0]
             /\ heard' = Append(heard, Burst)
             /\ UNCHANGED <<turn, out>>

FrameOut == /\ Framing
            /\ out >= tail
            /\ ~(HeadKnown /\ (s.size = 0 \/ Misfit))
            /\ ~(Fits /\ Pos >= s.size)
            /\ turn' = "idle"
            /\ UNCHANGED <<out, s, heard>>

Frame == \/ FrameSync \/ FrameHead \/ FrameParse \/ FrameMisfit
         \/ FrameBody \/ FramePlay \/ FrameOut

Next == Feed \/ Clear \/ Count \/ Frame

Spec == Init /\ [][Next]_vars

-----------------------------------------------------------------------------
(* Properties.                                                               *)

\* The variables hold what the code keeps in them (dts.h).
TypeOK == /\ stream \in Streams
          /\ tail \in 0..Len(stream) /\ buf \in 0..tail /\ out \in 0..tail
          /\ turn \in {"idle", "count", "frame"}
          /\ s.size \in Nat /\ s.info.burst \in 0..SPDIF_BURST_SIZE
          /\ Pos \in 4..(IF s.size > 10 THEN s.size ELSE 10)
          /\ c.bfound \in Nat /\ c.fsize \in Nat

AllHeard == turn = "idle" /\ out = Len(stream) /\ out > 0
\* Frame n begins behind byte j and is whole: its sync word and all bytes it
\* tells of are there.
FrameNo == {stream[k].f : k \in 1..Len(stream)}
Places(n) == {k \in 1..Len(stream) : stream[k].f = n}
SyncAt(j) == <<stream[j + 1].v, stream[j + 2].v, stream[j + 3].v, stream[j + 4].v>> = Magic
WholeAt(n, j) == /\ stream[j + 8].z > 9
                 /\ Places(n) = j + 1..j + stream[j + 8].z
                 /\ \A k \in Places(n) : stream[k].i = k - j - 1
                 /\ SyncAt(j)
Starts == 0..Len(stream) - 10
Whole(n) == \E j \in Starts : WholeAt(n, j)
Misfits(n) == \E j, k \in Places(n) : \/ stream[j].r # Rate
                                      \/ InfoOf(stream[j]).burst < stream[k].z
Sound(n) == Whole(n) /\ ~Misfits(n)
\* Only the first bytes of a frame look like a sync word.
TrueSyncs == \A j \in 0..Len(stream) - 4 : SyncAt(j) => stream[j + 4].i = 3

\* A frame that is not played costs at most the one after it: a sound frame
\* behind a whole one (or at the start) is in a burst of its own, of the
\* length it names, however the stream is cut into pieces (Frame()).  A
\* frame that did not fit leaves its size behind, and nothing is promised.
LostOnlyBehindDamage ==
    AllHeard => \A n \in FrameNo :
        /\ Sound(n) /\ (n = 1 \/ Whole(n - 1))
        /\ \A m \in FrameNo : m < n => ~Misfits(m)
        =>
            \E k \in Places(n) :
                [f |-> n, pure |-> TRUE, size |-> InfoOf(stream[k]).burst] \in Range(heard)

\* Only a frame that lost bytes is filled up with those of the next
\* (FrameBody, which has no check sum to go by).
PureUnlessDamaged ==
    TrueSyncs => \A k \in 1..Len(heard) : Whole(heard[k].f) => heard[k].pure

\* The counter and the scanner, which never talk to each other, agree piece
\* by piece on how many frames went by, as long as every frame would fit every
\* burst, and none is shorter than its header (Count() against Frame()).
BurstsFit == \A j, k \in 1..Len(stream) :
                /\ stream[j].r = Rate /\ stream[k].z > 9
                /\ stream[k].z <= InfoOf(stream[j]).burst
CountsAsFramed == turn = "idle" /\ BurstsFit => crossed = Len(heard)
=============================================================================
