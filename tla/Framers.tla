------------------------------ MODULE Framers ------------------------------
(* The scanners and the clock of the framers side by side.  A behaviour is  *)
(* of one `format', or of the clock that every framer has; the variables of *)
(* the others keep their first values.                                      *)
EXTENDS PtsSync, Sequences

CONSTANTS Ac3Streams, DtsStreams, Mp2Streams,   \* what is sent, in bytes
          Chunks,       \* lengths of a piece of payload
          Rate,         \* sampling rate of the card
          Wild,         \* of Ac3Scanner
          MAD_BUFFER_GUARD      \* of Mp2Scanner

(* What a stream may hold.  Frames are numbered in the order in which they   *)
(* were sent; the guard bytes of Mpeg audio reach beyond its header.         *)
Ac3Byte == [f : Nat \ {0}, i : Nat, ok : BOOLEAN, r : {0, 32, 44, 48}, z : Nat, v : STRING]
DtsByte == [f : Nat, i : Nat, z : Nat, burst : Nat, r : Nat, v : STRING]
Mp2Byte == [f : Nat, i : Nat, ok : BOOLEAN, r : Nat, z : Nat, v : STRING]
ASSUME StreamAssumption ==
  /\ Ac3Streams \subseteq Seq(Ac3Byte) /\ DtsStreams \subseteq Seq(DtsByte)
  /\ Mp2Streams \subseteq Seq(Mp2Byte)
ASSUME OrderAssumption ==
  /\ \A sent \in Ac3Streams : \A j, k \in 1..Len(sent) : j <= k => sent[j].f <= sent[k].f
  /\ \A sent \in Mp2Streams : \A k \in 1..Len(sent) - 1 :
        sent[k + 1].f \in {sent[k].f, sent[k].f + 1}
ASSUME PieceAssumption == Chunks \subseteq Nat /\ Wild \subseteq Nat
ASSUME GuardAssumption == MAD_BUFFER_GUARD \in Nat /\ MAD_BUFFER_GUARD >= 4

VARIABLES format,
          stream, buf, out, tail, turn, s, c, heard,    \* of every scanner
          crossed, ret, last,                           \* of some
          spdif, obuf, running, rest                    \* of Mp2Scanner

scanned == <<stream, buf, out, tail, turn, s, c, heard, crossed, ret, last,
             spdif, obuf, running, rest>>

Ac3 == INSTANCE Ac3Scanner WITH Streams <- Ac3Streams
Dts == INSTANCE DtsScanner WITH Streams <- DtsStreams
Mp2 == INSTANCE Mp2Scanner WITH Streams <- Mp2Streams

-----------------------------------------------------------------------------
NoMp2 == spdif = FALSE /\ obuf = <<>> /\ running = FALSE /\ rest = TRUE
NoAc3 == ret = FALSE /\ last = 0
FramersInit ==
    /\ Init
    /\ \/ format = "ac3" /\ Ac3!Init /\ NoMp2
       \/ format = "dts" /\ Dts!Init /\ NoMp2 /\ NoAc3
       \/ format = "mp2" /\ Mp2!Init /\ crossed = 0
       \/ /\ format = "clock" /\ NoMp2 /\ NoAc3 /\ crossed = 0
          /\ stream = <<>> /\ buf = 0 /\ out = 0 /\ tail = 0 /\ turn = "idle"
          /\ s = Dts!ScanReset /\ c = Dts!CountReset /\ heard = <<>>
    /\ format # "clock" => device = (CHOOSE d \in Devices : TRUE) /\ runs

ScannerNext ==
    \/ format = "ac3" /\ Ac3!Next /\ UNCHANGED <<spdif, obuf, running, rest>>
    \/ format = "dts" /\ Dts!Next /\ UNCHANGED <<ret, last, spdif, obuf, running, rest>>
    \/ format = "mp2" /\ Mp2!Next /\ UNCHANGED crossed

FramersNext ==
    \/ ScannerNext /\ UNCHANGED <<format, vars>>
    \/ format = "clock" /\ Next /\ UNCHANGED <<format, scanned>>

FramersSpec == FramersInit /\ [][FramersNext]_<<format, vars, scanned>>

-----------------------------------------------------------------------------
\* The properties of the scanners and the clock; their parts are explained in
\* the modules.
OfAc3(P) == format = "ac3" => P
OfDts(P) == format = "dts" => P
OfMp2(P) == format = "mp2" => P

\* The types of the variables of all four.
TypesOK == TypeOK /\ OfAc3(Ac3!TypeOK) /\ OfDts(Dts!TypeOK) /\ OfMp2(Mp2!TypeOK)

\* A sound frame is only lost behind a damaged one, however the stream is cut
\* into pieces (Frame() of the three framers).
LostOnlyBehindDamage ==
    /\ OfAc3(Ac3!LostOnlyBehindDamage)
    /\ OfDts(Dts!LostOnlyBehindDamage)
    /\ OfMp2(Mp2!LostOnlyBehindDamage)

\* AC3 frames are played in order, each once but for repeats in place of a
\* broken one; a DTS burst has the bytes of one frame, unless bytes were lost;
\* libmad gets whole frames, each with its guard behind it.
FramesAreWhole ==
    /\ OfAc3(Ac3!InOrder)
    /\ OfDts(Dts!PureUnlessDamaged)
    /\ OfMp2(Mp2!StreamedWhole)

\* Count() on the receiving side, which never talks to Frame() on the
\* forwarding side, tells of the frames Frame() will find: as many, and in the
\* piece in which it finds them.
CountAgrees ==
    /\ OfAc3(Ac3!CountsAsFramed /\ Ac3!CrossedIsCounted)
    /\ OfDts(Dts!CountsAsFramed)
    /\ OfMp2(Mp2!CrossedIsCounted)

\* AVsync is only set while the device's clock runs steadily, and off is the
\* distance of the frame from that clock.
ClockIsTrue == SteadyWhenSynced /\ OffIsDistance
=============================================================================
