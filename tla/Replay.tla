------------------------------- MODULE Replay -------------------------------
(***************************************************************************)
(* The replay part: cReplayOutSPDif (replay.c).  The player of VDR calls   *)
(* Play() for every audio packet, and Clear(); the viewer mutes and        *)
(* changes the setup; the forwarding thread is Action().                   *)
(*                                                                         *)
(* A packet is of a source: an AC3 stream of a DVB recording, two tracks   *)
(* of a DVD, which have a sub stream header, or two Mpeg tracks.  It has a *)
(* Present Time Stamp, is only marked as aligned, or is neither.  The      *)
(* bounce buffer is the set of what it holds.  Threads that die within     *)
(* Open() or burst() are in SpdifCard, the card is in SpdifPlay.           *)
(***************************************************************************)
EXTENDS Naturals

CONSTANTS
  Sources,    \* sources the player may send
  Kinds       \* kinds of packets

Dvb == {"bd"}
Dvd == {"d1", "d2"}
Mpeg == {"m1", "m2"}
None == "none"

ASSUME SourcesAssumption == Sources \subseteq Dvb \cup Dvd \cup Mpeg
ASSUME KindsAssumption == Kinds \subseteq {"pts", "aligned", "plain"}

(* The mp2 framer is one object with a track; ac3 is told by its source.   *)
Framer(s) == IF s \in Mpeg THEN "mp2" ELSE s
Framers == {Framer(s) : s \in Sources}
NoPacket == [src |-> None, kind |-> None]

VARIABLES
  src,        \* what the player sends
  setup,      \* bits of the setup
  flags,      \* flags of the part
  stream,     \* framer of the part, and
  track,      \* the track of mp2
  synched,    \* the PTS clock is started
  data,       \* what the bounce buffer holds
  skip,       \* packets to skip after an overflow
  at, pkt, curr,          \* Play(): where it is, the packet in hand, `curr'
  muting,     \* Mute(true) has set MUTE
  pc, fcurr, chunk            \* Action(): where it is, `curr', what it forwards

player == <<at, pkt, curr, skip>>
viewer == <<src, muting>>
forwarder == <<pc, fcurr, chunk>>
framer == <<stream, track, synched>>
vars == <<viewer, setup, flags, framer, data, player, forwarder>>

TypeOK ==
  /\ src \in Sources /\ muting \in BOOLEAN
  /\ setup \subseteq {"ACTIVE", "MP2ENABLE", "RESET", "MUTE"}
  /\ flags \subseteq {"ACTIVE", "RUNNING", "FAILED", "BOUNDARY", "WASMUTED"}
  /\ stream \in Framers \cup {None} /\ track \in Mpeg /\ synched \in BOOLEAN
  /\ data \subseteq Sources /\ skip \in 0..2
  /\ at \in {"idle", "decide", "start", "started", "store", "clear", "call",
             "join", "cleared"}
  /\ pkt \in [src : Sources, kind : Kinds] \cup {NoPacket} /\ curr \in Framers \cup {None}
  /\ pc \in {None, "begin", "open", "loop", "sync", "ready", "forward", "close", "end", "flags"}
  /\ fcurr \in Framers \cup {None} /\ chunk \subseteq Sources

Init ==
  /\ src \in Sources /\ muting = FALSE
  /\ setup = {"ACTIVE", "MP2ENABLE"} /\ flags = {}
  /\ stream = None /\ track = "m1" /\ synched = FALSE /\ data = {} /\ skip = 0
  /\ at = "idle" /\ pkt = NoPacket /\ curr = None
  /\ pc = None /\ fcurr = None /\ chunk = {}

Goes(from, to) == at = from /\ at' = to
Drops(from, to) == Goes(from, to) /\ pkt' = NoPacket /\ curr' = None
Runs(from, to) == pc = from /\ pc' = to

-----------------------------------------------------------------------------
(* The entry of Play(): what it does with a packet while the setup has it  *)
(* off, after an overflow, and while it is muted.                          *)
PlayOff ==
  /\ "ACTIVE" \notin setup /\ "ACTIVE" \in flags /\ Goes("idle", "clear")
  /\ UNCHANGED <<setup, flags, framer, data, pkt, curr, skip>>

(* Mutant: the packets to skip are counted down without a look.            *)
PlaySkipBlind ==
  /\ at = "idle" /\ "ACTIVE" \in setup /\ skip' = skip - 1
  /\ UNCHANGED <<setup, flags, framer, data, at, pkt, curr>>

PlaySkip ==
  /\ at = "idle" /\ "ACTIVE" \in setup /\ skip > 0 /\ skip' = skip - 1
  /\ UNCHANGED <<setup, flags, framer, data, at, pkt, curr>>

PlayMuted ==
  /\ at = "idle" /\ {"ACTIVE", "MUTE"} \subseteq setup /\ skip = 0 /\ data # {}
  /\ data' = {}
  /\ UNCHANGED <<setup, flags, framer, player>>

PlayEnter(kind) ==
  /\ Goes("idle", "decide")
  /\ "ACTIVE" \in setup /\ "MUTE" \notin setup /\ skip = 0
  /\ pkt' = [src |-> src, kind |-> kind]
  /\ curr' = stream
  /\ UNCHANGED <<setup, flags, framer, data, skip>>

-----------------------------------------------------------------------------
(* What Play() makes of the packet.  A framer that does not fit any more   *)
(* is reset: the other kind, another track, another sub stream.            *)
IsMpeg == pkt.src \in Mpeg
Bounded == "BOUNDARY" \in flags

(* Mutant: the track of mp2 is not compared.                               *)
MisfitKind ==
  /\ curr # None
  /\ IF IsMpeg THEN "MP2ENABLE" \in setup /\ curr # "mp2"
               ELSE curr = "mp2" \/ (Bounded /\ curr # pkt.src)

Misfit ==
  /\ curr # None
  /\ IF IsMpeg THEN "MP2ENABLE" \in setup /\ (curr # "mp2" \/ track # pkt.src)
               ELSE curr = "mp2" \/ (Bounded /\ curr # pkt.src)

(* Mutant: a packet that does not fit is dropped, and that is all.         *)
DecideDrop ==
  /\ Misfit /\ Drops("decide", "idle")
  /\ UNCHANGED <<setup, flags, framer, data, skip>>

DecideReset ==
  /\ Misfit /\ Drops("decide", "clear")
  /\ UNCHANGED <<setup, flags, framer, data, skip>>

Ignored ==
  \/ IsMpeg /\ "MP2ENABLE" \notin setup
  \/ Bounded /\ curr = None
  \/ ~Bounded /\ pkt.kind = "plain"

DecideIgnore ==
  /\ ~Misfit /\ Ignored /\ Drops("decide", "idle")
  /\ UNCHANGED <<setup, flags, framer, data, skip>>

DecideStore ==
  /\ ~Misfit /\ ~Ignored /\ Bounded /\ Goes("decide", "store")
  /\ UNCHANGED <<setup, flags, framer, data, pkt, curr, skip>>

(* At a boundary the payload is searched for its sync words, unless there  *)
(* is a stream already; then the offset of a sub header is not found       *)
(* either.  BOUNDARY is set before the look for the PTS.                   *)
Seeks == ~Misfit /\ ~Ignored /\ ~Bounded

DecideNotFound ==
  /\ Seeks /\ stream = None /\ Drops("decide", "idle")
  /\ UNCHANGED <<setup, flags, framer, data, skip>>

Gate == CASE {"RUNNING", "WASMUTED"} \subseteq flags -> IF pkt.kind = "pts" THEN "store" ELSE "idle"
          [] "RUNNING" \notin flags -> IF pkt.kind = "pts" THEN "start" ELSE "idle"
          [] OTHER -> "store"

Digests == IsMpeg \/ stream = None

DecideFound ==
  /\ Seeks
  /\ stream' = (IF Digests THEN Framer(pkt.src) ELSE stream)
  /\ synched' = (synched /\ ~Digests)
  /\ IF Gate = "idle" THEN Drops("decide", Gate)
                      ELSE Goes("decide", Gate) /\ curr' = stream' /\ UNCHANGED pkt
  /\ flags' = (flags \ {f \in {"WASMUTED"} : Gate = "store"}) \cup {"BOUNDARY"}
  /\ track' = IF IsMpeg /\ Gate # "idle" THEN pkt.src ELSE track
  /\ UNCHANGED <<setup, data, skip>>

Decide == DecideReset \/ DecideIgnore \/ DecideStore \/ DecideNotFound \/ DecideFound

-----------------------------------------------------------------------------
(* Activate(true).  A failure is forgiven when the viewer has raised       *)
(* RESET.  Start() gives the new thread 10 ms.                             *)
Start ==
  /\ Goes("start", "started")
  /\ LET left == IF "RESET" \in setup THEN flags \ {"FAILED"} ELSE flags
         refused == left \cap {"FAILED", "ACTIVE"} # {}
     IN IF refused THEN flags' = left /\ UNCHANGED <<data, pc>>
                   ELSE flags' = left \cup {"ACTIVE"} /\ data' = {} /\ Runs(None, "begin")
  /\ setup' = setup \ {"RESET"}
  /\ UNCHANGED <<framer, pkt, curr, skip, fcurr, chunk>>

Started ==
  /\ pc # "begin" /\ Goes("started", "store")
  /\ flags' = flags \ {"WASMUTED"}
  /\ UNCHANGED <<setup, framer, data, pkt, curr, skip>>

(* The packet is counted, starts the clock when it has a PTS and the STC   *)
(* runs steadily, and is stored.  A buffer that is full refuses it.        *)
StoreNot ==
  /\ ~synched /\ Drops("store", "idle")
  /\ UNCHANGED <<setup, flags, framer, data, skip>>

StorePut ==
  /\ synched \/ pkt.kind = "pts"
  /\ Drops("store", "idle") /\ synched' = TRUE
  /\ data' = data \cup {pkt.src}
  /\ UNCHANGED <<setup, flags, stream, track, skip>>

StoreFull ==
  /\ synched /\ data # {} /\ Drops("store", "idle") /\ skip' = 2
  /\ UNCHANGED <<setup, flags, framer, data>>

Store == StoreNot \/ StorePut \/ StoreFull

-----------------------------------------------------------------------------
(* Mutant: the thread is waited for, but not told to stop.                 *)
ClearWaits ==
  /\ at \in {"clear", "call"} /\ at' = IF "RUNNING" \in flags THEN "join" ELSE "cleared"
  /\ UNCHANGED <<setup, flags, framer, data, pkt, curr, skip>>

(* Clear(), called by VDR or by Play(), with Activate(false) in it.        *)
ClearCall ==
  /\ Goes("idle", "call")
  /\ UNCHANGED <<setup, flags, framer, data, pkt, curr, skip>>

Clear ==
  /\ at \in {"clear", "call"} /\ at' = IF "RUNNING" \in flags THEN "join" ELSE "cleared"
  /\ flags' = IF "RUNNING" \in flags THEN flags \ {"ACTIVE"} ELSE flags
  /\ UNCHANGED <<setup, framer, data, pkt, curr, skip>>

(* Mutant: the wait for the forwarding thread is left at once.             *)
JoinNot ==
  /\ Goes("join", "cleared")
  /\ data' = {} /\ stream' = None
  /\ UNCHANGED <<setup, flags, track, synched, pkt, curr, skip>>

Join ==
  /\ pc = None /\ Goes("join", "cleared")
  /\ data' = {} /\ stream' = None
  /\ UNCHANGED <<setup, flags, track, synched, pkt, curr, skip>>

(* Mutant: RUNNING stays set for the thread that was killed.               *)
KillForgets ==
  /\ Runs("sync", None) /\ Goes("join", "cleared")
  /\ flags' = flags \ {"BOUNDARY"}
  /\ stream' = None /\ synched' = FALSE /\ data' = {} /\ fcurr' = None
  /\ UNCHANGED <<setup, track, pkt, curr, skip, chunk>>

(* A thread that hangs in the driver is killed, and what it would have     *)
(* done at its end is done for it.                                         *)
Kill ==
  /\ Runs("sync", None) /\ Goes("join", "cleared")
  /\ flags' = flags \ {"BOUNDARY", "RUNNING"}
  /\ stream' = None /\ synched' = FALSE /\ data' = {} /\ fcurr' = None
  /\ UNCHANGED <<setup, track, pkt, curr, skip, chunk>>

Cleared ==
  /\ Goes("cleared", "idle")
  /\ stream' = None /\ flags' = flags \ {"BOUNDARY"}
  /\ IF stream # None THEN synched' = FALSE /\ data' = {} ELSE UNCHANGED <<synched, data>>
  /\ UNCHANGED <<setup, track, pkt, curr, skip>>

-----------------------------------------------------------------------------
(* Mute() of the viewer, and the setup.  The player sends another source.  *)
MuteOn ==
  /\ "MUTE" \notin setup /\ ~muting /\ muting' = TRUE
  /\ setup' = setup \cup {"MUTE"}
  /\ synched' = (synched /\ stream = None)
  /\ UNCHANGED <<src, flags, stream, track, data, player>>

MuteFlush ==
  /\ muting /\ muting' = FALSE
  /\ data' = {} /\ flags' = flags \ {"BOUNDARY"}
  /\ UNCHANGED <<src, setup, framer, player>>

MuteOff ==
  /\ "MUTE" \in setup /\ ~muting /\ setup' = setup \ {"MUTE"}
  /\ UNCHANGED <<viewer, flags, framer, data, player>>

Setup ==
  /\ \E b \in {"ACTIVE", "MP2ENABLE", "RESET"} :
       setup' = IF b \in setup THEN setup \ {b} ELSE setup \cup {b}
  /\ UNCHANGED <<viewer, flags, framer, data, player>>

Source ==
  /\ src' \in Sources \ {src}
  /\ UNCHANGED <<muting, setup, flags, framer, data, player>>

-----------------------------------------------------------------------------
(* Action(), the forwarding thread.                                        *)
Begin ==
  /\ Runs("begin", IF stream = None THEN "end" ELSE "open") /\ fcurr' = stream
  /\ flags' = flags \cup {"RUNNING"} \cup {f \in {"FAILED"} : stream = None}
  /\ UNCHANGED <<framer, data, chunk>>

Open == Runs("open", "loop") /\ UNCHANGED <<flags, framer, data, fcurr, chunk>>

OpenFails ==
  /\ Runs("open", "end") /\ flags' = flags \cup {"FAILED"}
  /\ UNCHANGED <<framer, data, fcurr, chunk>>

(* A mute clears the card and all that was on its way, once.               *)
Muted == "MUTE" \in setup
MuteOnce ==
  IF Muted /\ "WASMUTED" \notin flags
    THEN /\ flags' = (flags \ {"BOUNDARY"}) \cup {"WASMUTED"}
         /\ data' = {} /\ synched' = FALSE
    ELSE UNCHANGED <<flags, data, synched>>

Loop ==
  /\ IF "ACTIVE" \in flags THEN Runs("loop", "sync") /\ MuteOnce
                           ELSE Runs("loop", "close") /\ UNCHANGED <<flags, data, synched>>
  /\ UNCHANGED <<stream, track, fcurr, chunk>>

(* Synchronize() comes back with data or at a timeout; a card that stopped *)
(* has the framer cleared.                                                 *)
Sync ==
  /\ Runs("sync", IF data # {} THEN "ready" ELSE "loop")
  /\ synched' \in {synched, FALSE}
  /\ UNCHANGED <<flags, stream, track, data, fcurr, chunk>>

ReadyNot ==
  /\ "ACTIVE" \notin flags \/ Muted
  /\ IF "ACTIVE" \notin flags THEN Runs("ready", "close") /\ UNCHANGED <<flags, data, synched>>
                              ELSE Runs("ready", "loop") /\ MuteOnce
  /\ UNCHANGED <<stream, track, fcurr, chunk>>

Fetch ==
  /\ "ACTIVE" \in flags /\ ~Muted /\ Runs("ready", "forward")
  /\ chunk' = data /\ data' = {}
  /\ UNCHANGED <<flags, framer, fcurr>>

Forward ==
  /\ Runs("forward", "loop") /\ chunk' = {}
  /\ UNCHANGED <<flags, framer, data, fcurr>>

Close ==
  /\ Runs("close", "end") /\ flags' = flags \ {"BOUNDARY"} /\ synched' = FALSE
  /\ UNCHANGED <<stream, track, data, fcurr, chunk>>

End ==
  /\ Runs("end", "flags") /\ stream' = None /\ data' = {}
  /\ UNCHANGED <<flags, track, synched, fcurr, chunk>>

EndFlags ==
  /\ Runs("flags", None) /\ flags' = flags \ {"ACTIVE", "RUNNING"} /\ fcurr' = None
  /\ UNCHANGED <<framer, data, chunk>>

-----------------------------------------------------------------------------
Action == /\ \/ Begin \/ Open \/ OpenFails \/ Loop \/ Sync \/ ReadyNot \/ Fetch \/ Forward
             \/ Close \/ End \/ EndFlags
          /\ UNCHANGED <<viewer, setup, player>>

Play == \/ /\ \/ PlayOff \/ PlaySkip \/ PlayMuted \/ Decide \/ Started \/ Store
              \/ Clear \/ Join \/ Cleared \/ \E k \in Kinds : PlayEnter(k)
           /\ UNCHANGED <<viewer, forwarder>>
        \/ (Start \/ Kill) /\ UNCHANGED viewer

Mute == (MuteOn \/ MuteFlush \/ MuteOff) /\ UNCHANGED forwarder

Next == \/ Play \/ Action \/ Mute
        \/ (Setup \/ Source) /\ UNCHANGED forwarder
        \/ ClearCall /\ UNCHANGED <<viewer, forwarder>>

(* The threads run, the player goes on with packets and sends one with a   *)
(* PTS again and again, payload and STC are in order again and again.      *)
Fairness ==
  /\ WF_vars(Play) /\ WF_vars(Action) /\ WF_vars(MuteFlush /\ UNCHANGED forwarder)
  /\ SF_vars(PlayEnter("pts") /\ UNCHANGED <<viewer, forwarder>>)
  /\ SF_vars(DecideFound /\ UNCHANGED <<viewer, forwarder>>)
  /\ SF_vars(StorePut /\ UNCHANGED <<viewer, forwarder>>)

Spec == Init /\ [][Next]_vars
FairSpec == Spec /\ Fairness

-----------------------------------------------------------------------------
(* The mp2 decoder is never fed with packets of Private Stream 1 or of     *)
(* another track, nor the AC3 framer with Mpeg audio, whatever the player  *)
(* switches to and whenever the thread ended.                              *)
KindsApart ==
  \A t \in chunk : IF t \in Mpeg THEN fcurr = "mp2" /\ track = t ELSE fcurr # "mp2"

(* The flags tell whether there is a forwarding thread: a flag that stays  *)
(* would keep the part from ever starting one again.  And the framer a     *)
(* thread holds stays the stream of the part until it is at its end.       *)
ThreadIsKnown ==
  /\ pc = None => flags \cap {"ACTIVE", "RUNNING"} = {} /\ chunk = {}
  /\ pc \in {"open", "loop", "sync", "ready", "forward", "close"} => stream = fcurr

(* The player goes on with one source, nobody mutes, clears or changes the *)
(* setup, and the card works: then this source is played.  The exception   *)
(* is a boundary found in a packet without PTS, once and for all or again  *)
(* after every reset: no thread is started, and BOUNDARY keeps the next    *)
(* packets from starting one.                                              *)
Settled == /\ setup = {"ACTIVE", "MP2ENABLE"} /\ "FAILED" \notin flags
           /\ ~muting /\ at # "call"
Stuck == pc = None /\ "BOUNDARY" \in flags /\ stream # None
SoundFollows ==
  <>[]Settled /\ <>[][src' = src]_src => []<>(src \in chunk) \/ []<>Stuck

(* When the viewer switches the part off, the forwarding ends.             *)
OffStops == <>[]("ACTIVE" \notin setup) => <>[](pc = None)
=============================================================================
