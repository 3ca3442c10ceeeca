----------------------------- MODULE LiveStream -----------------------------
(***************************************************************************)
(* The life of a live audio stream (class cInStream, channel.c).  A        *)
(* controlling thread attaches a new object to the primary device and      *)
(* detaches and deletes it (AttachReceiver of cChannelOutSPDif), the       *)
(* receiving thread of VDR hands it TS packets, and the forwarding thread  *)
(* it starts takes the audio from the bounce buffer to the sound card.     *)
(* They share the flags of the object, the bits of the setup, the stream   *)
(* pointer, the bounce buffer (module Bounce) and the sound card.          *)
(*                                                                         *)
(* A flag operation is one step, as the single instruction of types.h is   *)
(* on one processor; module FlagWord looks at more than one.  The bounce   *)
(* buffer is counted in TS packets, and its condition variable is `event'. *)
(***************************************************************************)
EXTENDS Integers

CONSTANTS Room,     \* TS packets that fit into the bounce buffer
          Skip,     \* packets ignored after the buffer was full (20)
          Changes,  \* the setup bits the viewer changes
          Hangs     \* calls into the sound card driver that may never return

Call == {"open", "clear", "synchronize", "burst", "close"}

ASSUME RoomAssumption == Room \in Nat \ {0}
ASSUME SkipAssumption == Skip \in Nat
ASSUME ChangesAssumption == Changes \subseteq {"ACTIVE", "MUTE", "CLEAR"}
ASSUME HangsAssumption == Hangs \subseteq Call

VARIABLES
  setup,        \* the shared bits ACTIVE, MUTE, CLEAR and LIVE that are set
  flags,        \* the flags of the object that are set
  stream,       \* whether the stream pointer is not NULL
  ready,        \* the event of StreamReady
  inPes,        \* the scanner is in the payload of a PES packet
  synch,        \* pts.synch() of the current stream
  avail, event, \* the bounce buffer: packets stored, and its event
  skip,         \* the static counter of Receive(), shared by all objects
  dev,          \* the sound card
  left,         \* what a cancelled thread left behind in class spdif
  pcV,          \* the viewer in Mute()
  pcC,          \* the controlling thread in AttachReceiver()
  pcOff,        \* the threads in Activate(false)
  pcR, pkt,     \* the receiving thread in Receive(), and its packet
  pcF, resume,  \* the forwarding thread in Action(), and where a mute ends
  hung,         \* its call into the driver does not return
  pesPts        \* history: the header of the PES packet had a PTS

bits == <<setup, flags>>
buffer == <<avail, event>>
card == <<dev, left>>
scanner == <<inPes, pesPts>>
receiver == <<pcR, pkt, skip>>
forwarder == <<pcF, resume, hung>>
vdr == <<pcV, pcC, pcOff, receiver>>
vars == <<bits, stream, ready, scanner, synch, buffer, card, vdr, forwarder>>

Bit == {"ACTIVE", "MUTE", "CLEAR", "LIVE"}
Flag == {"RUNNING", "ACTIVE", "FAILED", "BOUNDARY", "WASMUTED", "PAYSTART",
         "STREAMING", "SET_PTS"}
Packet == {"pts", "nopts", "cont"}      \* PES header with or without PTS, or none
Stopper == {"control", "receiver"}      \* the threads that call Activate(false)

TypeOK ==
  /\ setup \subseteq Bit /\ flags \subseteq Flag
  /\ stream \in BOOLEAN /\ ready \in BOOLEAN /\ inPes \in BOOLEAN
  /\ synch \in BOOLEAN /\ pesPts \in BOOLEAN
  /\ avail \in 0..Room /\ event \in BOOLEAN /\ skip \in 0..Skip
  /\ dev \in {"open", "closed"} /\ left \subseteq {"_close", "BURSTRUN"}
  /\ pcV \in {"idle", "flush"}
  /\ pcC \in {"out", "in", "clearing", "cleared", "detach", "detaching", "delete"}
  /\ pcOff \in [Stopper -> {"no", "clear", "kick", "test", "cancel", "check",
                            "close", "reset", "null"}]
  /\ pcR \in {"idle", "scan", "gate", "sync", "store"} /\ pkt \in Packet
  /\ pcF \in {"off", "start", "active", "await", "opening", "open", "loop",
              "mute", "clear", "flush", "resync", "muted", "synchronize",
              "after", "fetch", "burst", "close", "closed", "forget", "drain",
              "quit", "end"}
  /\ hung \in BOOLEAN /\ (hung => pcF \in Hangs)
  /\ resume \in {"synchronize", "loop"}

Init ==
  /\ setup \in {{"ACTIVE"} \cup b : b \in SUBSET (Changes \cap {"MUTE"})}
  /\ flags = {} /\ stream = FALSE /\ ready = FALSE
  /\ inPes = FALSE /\ pesPts = FALSE /\ synch = FALSE
  /\ avail = 0 /\ event = FALSE /\ skip = 0
  /\ dev = "closed" /\ left = {}
  /\ pcV = "idle" /\ pcC = "out" /\ pcOff = [w \in Stopper |-> "no"]
  /\ pcR = "idle" /\ pkt = "cont"
  /\ pcF = "off" /\ resume = "synchronize" /\ hung = FALSE

-----------------------------------------------------------------------------
(* The viewer: the setup menu, the mute key, and the end of the plugin.    *)
(* Mute(true) of the replay part sets MUTE for both parts and then flushes *)
(* the bounce buffer they share.                                           *)
SetupActive ==
  /\ "ACTIVE" \in Changes /\ "CLEAR" \notin setup
  /\ setup' = IF "ACTIVE" \in setup THEN setup \ {"ACTIVE"} ELSE setup \cup {"ACTIVE"}
  /\ UNCHANGED <<flags, stream, ready, scanner, synch, buffer, card, pcV, pcC, pcOff,
                 receiver, forwarder>>

ViewerMutes ==
  /\ "MUTE" \in Changes \ setup /\ "CLEAR" \notin setup
  /\ pcV = "idle" /\ pcV' = "flush"
  /\ setup' = setup \cup {"MUTE"}
  /\ UNCHANGED <<flags, stream, ready, scanner, synch, buffer, card, pcC, pcOff,
                 receiver, forwarder>>

ViewerFlushes ==
  /\ pcV = "flush" /\ pcV' = "idle"
  /\ avail' = 0 /\ event' = TRUE
  /\ UNCHANGED <<bits, stream, ready, scanner, synch, card, pcC, pcOff,
                 receiver, forwarder>>

ViewerUnmutes ==
  /\ "MUTE" \in Changes \cap setup /\ "CLEAR" \notin setup /\ pcV = "idle"
  /\ setup' = setup \ {"MUTE"}
  /\ UNCHANGED <<flags, stream, ready, scanner, synch, buffer, card, pcV, pcC, pcOff,
                 receiver, forwarder>>

Stop ==
  /\ "CLEAR" \in Changes \ setup
  /\ setup' = setup \cup {"CLEAR"}
  /\ UNCHANGED <<flags, stream, ready, scanner, synch, buffer, card, pcV, pcC, pcOff,
                 receiver, forwarder>>

-----------------------------------------------------------------------------
(* The controlling thread.  A new object is attached: Activate(true) runs  *)
(* before the device knows the receiver.  The card is closed here; who     *)
(* else might have opened it is not part of this module.                   *)
Attach ==
  /\ pcC = "out" /\ "CLEAR" \notin setup /\ dev = "closed"
  /\ flags' = {"ACTIVE"} /\ setup' = setup \cup {"LIVE"}
  /\ stream' = FALSE /\ ready' = FALSE /\ inPes' = FALSE /\ pesPts' = FALSE
  /\ avail' = 0
  /\ pcF' = "start"
  /\ pcC' = "in"
  /\ UNCHANGED <<synch, event, card, pcV, pcOff, receiver, resume, hung>>

(* in->Clear() while packets still arrive, and only then Detach().         *)
ClearStream ==
  /\ pcC = "in"
  /\ pcC' = IF "RUNNING" \in flags THEN "clearing" ELSE "cleared"
  /\ pcOff' = [pcOff EXCEPT !["control"] = IF "RUNNING" \in flags THEN "clear" ELSE "no"]
  /\ UNCHANGED <<bits, stream, ready, scanner, synch, buffer, card, pcV, receiver, forwarder>>

ClearRest ==
  /\ \/ pcC = "clearing" /\ pcOff["control"] = "no"
     \/ pcC = "cleared"
  /\ avail' = 0
  /\ inPes' = FALSE /\ flags' = flags \ {"BOUNDARY", "FAILED"}
  /\ pcC' = "detach"
  /\ UNCHANGED <<setup, stream, ready, pesPts, synch, event, card, pcV, pcOff, receiver, forwarder>>

(* The device lets go of the receiver between two packets and then calls   *)
(* Activate(false).                                                        *)
Detach ==
  /\ pcC = "detach" /\ pcR = "idle" /\ pcOff["receiver"] = "no"
  /\ pcC' = "detaching"
  /\ pcOff' = [pcOff EXCEPT !["control"] = "clear"]
  /\ UNCHANGED <<bits, stream, ready, scanner, synch, buffer, card, pcV, receiver, forwarder>>

Delete ==
  /\ pcC = "detaching" /\ pcOff["control"] = "no"
  /\ avail' = 0
  /\ pcC' = "out"
  /\ UNCHANGED <<bits, stream, ready, scanner, synch, event, card, pcV, pcOff, receiver, forwarder>>

-----------------------------------------------------------------------------
(* Activate(false), by the thread w.                                       *)
OffStep(w, from, to) == pcOff[w] = from /\ pcOff' = [pcOff EXCEPT ![w] = to]

OffClear(w) ==
  /\ OffStep(w, "clear", "kick")
  /\ flags' = flags \ {"ACTIVE"}
  /\ UNCHANGED <<setup, stream, ready, scanner, synch, buffer, card, pcV, pcC, receiver, forwarder>>

(* Mutant: the forwarding thread is not woken.                             *)
OffKickNoSignal(w) ==
  /\ OffStep(w, "kick", "test")
  /\ avail' = 0
  /\ UNCHANGED <<bits, stream, ready, scanner, synch, event, card, pcV, pcC, receiver, forwarder>>

OffKick(w) ==
  /\ OffStep(w, "kick", "test")
  /\ avail' = 0 /\ event' = TRUE
  /\ UNCHANGED <<bits, stream, ready, scanner, synch, card, pcV, pcC, receiver, forwarder>>

(* 500 ms of kicks are enough for a thread that does not hang.             *)
OffTest(w) ==
  /\ OffStep(w, "test", IF pcF # "off" /\ "RUNNING" \in flags /\ ~hung
                        THEN "kick" ELSE "cancel")
  /\ UNCHANGED <<bits, stream, ready, scanner, synch, buffer, card, pcV, pcC, receiver, forwarder>>

(* Mutant: Cancel() does not wait.                                         *)
OffJoinNot(w) ==
  /\ OffStep(w, "cancel", "check")
  /\ UNCHANGED <<bits, stream, ready, scanner, synch, buffer, card, pcV, pcC, receiver, forwarder>>

(* Cancel(1) waits a second for the end of the thread and then kills it,   *)
(* wherever it is and whatever it holds.                                   *)
OffJoin(w) ==
  /\ pcF = "off"
  /\ OffStep(w, "cancel", "check")
  /\ UNCHANGED <<bits, stream, ready, scanner, synch, buffer, card, pcV, pcC, receiver, forwarder>>

LeftIn(c) == CASE c \in {"open", "close"} -> {"_close"}
               [] c = "burst" -> {"BURSTRUN"}
               [] OTHER -> {}

OffKill(w) ==
  /\ OffStep(w, "cancel", "check")
  /\ hung
  /\ left' = left \cup LeftIn(pcF)
  /\ pcF' = "off" /\ hung' = FALSE
  /\ UNCHANGED <<bits, stream, ready, scanner, synch, buffer, dev, pcV, pcC, receiver, resume>>

(* Mutant: the card of a killed thread is not closed.                      *)
OffCheckNoClose(w) ==
  /\ OffStep(w, "check", "reset")
  /\ flags' = flags \ {"RUNNING"}
  /\ UNCHANGED <<setup, stream, ready, scanner, synch, buffer, card, pcV, pcC, receiver, forwarder>>

OffCheck(w) ==
  /\ OffStep(w, "check", IF "RUNNING" \in flags /\ stream THEN "close" ELSE "reset")
  /\ flags' = IF stream THEN flags ELSE flags \ {"RUNNING"}
  /\ UNCHANGED <<setup, stream, ready, scanner, synch, buffer, card, pcV, pcC, receiver, forwarder>>

(* Close() takes the lock of the device and waits for the end of burst().  *)
OffClose(w) ==
  /\ left = {}
  /\ OffStep(w, "close", "reset")
  /\ dev' = "closed"
  /\ flags' = flags \ {"BOUNDARY", "RUNNING"}
  /\ synch' = FALSE
  /\ UNCHANGED <<setup, stream, ready, scanner, buffer, left, pcV, pcC, receiver, forwarder>>

OffReset(w) ==
  /\ OffStep(w, "reset", "null")
  /\ inPes' = FALSE /\ flags' = flags \ {"BOUNDARY", "STREAMING"}
  /\ setup' = setup \ {"LIVE"}
  /\ UNCHANGED <<stream, ready, pesPts, synch, buffer, card, pcV, pcC, receiver, forwarder>>

OffNull(w) ==
  /\ OffStep(w, "null", "no")
  /\ stream' = FALSE
  /\ UNCHANGED <<bits, ready, scanner, synch, buffer, card, pcV, pcC, receiver, forwarder>>

Off(w) == \/ OffClear(w) \/ OffKick(w) \/ OffTest(w) \/ OffJoin(w) \/ OffKill(w)
          \/ OffCheck(w) \/ OffClose(w) \/ OffReset(w) \/ OffNull(w)

-----------------------------------------------------------------------------
(* The receiving thread, while the object is attached: Receive().          *)
Linked == pcC \in {"in", "clearing", "cleared", "detach"}
Receiving == /\ Linked /\ pcR = "idle" /\ pcOff["receiver"] = "no"
             /\ "CLEAR" \notin setup

ReceiveOff ==
  /\ Receiving /\ "ACTIVE" \notin setup /\ "RUNNING" \in flags
  /\ pcOff' = [pcOff EXCEPT !["receiver"] = "clear"]
  /\ UNCHANGED <<bits, stream, ready, scanner, synch, buffer, card, pcV, pcC, receiver, forwarder>>

ReceiveSkip ==
  /\ Receiving /\ "ACTIVE" \in setup /\ skip > 0
  /\ skip' = skip - 1
  /\ UNCHANGED <<bits, stream, ready, scanner, synch, buffer, card, pcV, pcC, pcOff,
                 pcR, pkt, forwarder>>

ReceiveMuted ==
  /\ Receiving /\ {"ACTIVE", "MUTE"} \subseteq setup /\ skip = 0
  /\ flags' = flags \ {"PAYSTART"}
  /\ UNCHANGED <<setup, stream, ready, scanner, synch, buffer, card, pcV, pcC, pcOff,
                 receiver, forwarder>>

ReceivePacket(p) ==
  /\ Receiving /\ "ACTIVE" \in setup /\ "MUTE" \notin setup /\ skip = 0
  /\ "PAYSTART" \in flags \/ p # "cont"
  /\ flags' = flags \cup {"PAYSTART"}
  /\ pkt' = p /\ pcR' = "scan"
  /\ UNCHANGED <<setup, stream, ready, scanner, synch, buffer, card, pcV, pcC, pcOff,
                 skip, forwarder>>

(* ScanTSforAudio().  `goto reset': look for the next PES header.          *)
Rescan == /\ inPes' = FALSE /\ flags' = flags \ {"BOUNDARY"}
          /\ pcR' = "idle" /\ pkt' = "cont" /\ pesPts' = FALSE

(* Outside of a PES packet only a header is of use.  It marks a boundary   *)
(* if it has a PTS or says that the payload is aligned.  Without a stream  *)
(* the format has to be detected in the payload, and its class is reset.   *)
ScanHeader ==
  /\ pcR = "scan" /\ ~inPes /\ pkt # "cont"
  /\ \E aligned \in BOOLEAN, found \in BOOLEAN :
       LET boundary == pkt = "pts" \/ aligned \/ "BOUNDARY" \in flags
           seen == boundary /\ (stream \/ found)
       IN  /\ flags' = IF seen
                       THEN flags \cup {"BOUNDARY"} \cup (IF pkt = "pts" THEN {"SET_PTS"} ELSE {})
                       ELSE (flags \ {"BOUNDARY"}) \cup (IF pkt = "pts" THEN {"SET_PTS"} ELSE {})
           /\ inPes' = seen
           /\ pcR' = IF seen THEN "gate" ELSE "idle"
           /\ synch' = (synch /\ ~(seen /\ ~stream))
           /\ pesPts' = (seen /\ pkt = "pts")
  /\ pkt' = "cont"
  /\ UNCHANGED <<setup, stream, ready, buffer, card, pcV, pcC, pcOff, skip, forwarder>>

ScanNothing ==
  /\ pcR = "scan" /\ ~inPes /\ pkt = "cont"
  /\ pcR' = "idle"
  /\ flags' = IF stream THEN flags ELSE flags \ {"BOUNDARY"}
  /\ UNCHANGED <<setup, stream, ready, scanner, synch, buffer, card, pcV, pcC, pcOff,
                 pkt, skip, forwarder>>

(* Inside of a PES packet everything is payload, a lost end included.      *)
ScanPayload ==
  /\ pcR = "scan" /\ inPes
  /\ \E found \in BOOLEAN :
       IF "BOUNDARY" \in flags /\ (stream \/ found)
       THEN /\ pcR' = "gate" /\ pkt' = "cont"
            /\ synch' = (synch /\ stream)
            /\ UNCHANGED <<flags, scanner>>
       ELSE Rescan /\ UNCHANGED synch
  /\ UNCHANGED <<setup, stream, ready, buffer, card, pcV, pcC, pcOff, skip, forwarder>>

(* Start, or go on after a mute, "only on PES boundary and if we got a     *)
(* Present Time Stamp".  The flag SET_PTS is what the code asks for.       *)
Awaited == "STREAMING" \notin flags \/ "WASMUTED" \in flags

GateReset ==
  /\ pcR = "gate" /\ Awaited /\ "SET_PTS" \notin flags
  /\ Rescan
  /\ UNCHANGED <<setup, stream, ready, synch, buffer, card, pcV, pcC, pcOff, skip, forwarder>>

(* Mutant: the stream is set and not signalled.                            *)
GatePassSilent ==
  /\ pcR = "gate" /\ (Awaited => "SET_PTS" \in flags)
  /\ stream' = (stream \/ "STREAMING" \notin flags) /\ UNCHANGED ready
  /\ flags' = flags \ {"WASMUTED"}
  /\ pcR' = "sync"
  /\ UNCHANGED <<setup, scanner, synch, buffer, card, pcV, pcC, pcOff, pkt, skip, forwarder>>

GatePass ==
  /\ pcR = "gate" /\ (Awaited => "SET_PTS" \in flags)
  /\ IF "STREAMING" \notin flags
     THEN stream' = TRUE /\ ready' = TRUE
     ELSE UNCHANGED <<stream, ready>>
  /\ flags' = flags \ {"WASMUTED"}
  /\ pcR' = "sync"
  /\ UNCHANGED <<setup, scanner, synch, buffer, card, pcV, pcC, pcOff, pkt, skip, forwarder>>

(* Whether the clock of the DVB device runs steadily is left open.         *)
ReceiveSync ==
  /\ pcR = "sync"
  /\ \/ synch /\ pcR' = "store" /\ UNCHANGED <<flags, scanner, synch, pkt>>
     \/ ~synch /\ pcR' = "store" /\ synch' = TRUE
        /\ flags' = flags \ {"SET_PTS"} /\ UNCHANGED <<scanner, pkt>>
     \/ ~synch /\ pcR' = "idle" /\ pkt' = "cont" /\ inPes' = FALSE
        /\ pesPts' = FALSE
        /\ flags' = flags \ {"SET_PTS", "BOUNDARY"} /\ UNCHANGED synch
  /\ UNCHANGED <<setup, stream, ready, buffer, card, pcV, pcC, pcOff, skip, forwarder>>

(* Mutant: the buffer overruns.                                            *)
ReceiveStoreAlways ==
  /\ pcR = "store"
  /\ avail' = avail + 1
  /\ skip' = IF avail + 1 < Room THEN skip ELSE Skip
  /\ event' \in {event, TRUE}
  /\ inPes' \in BOOLEAN /\ pesPts' = (pesPts /\ inPes')
  /\ pcR' = "idle"
  /\ UNCHANGED <<bits, stream, ready, synch, card, pcV, pcC, pcOff, pkt, forwarder>>

(* Store the payload and wake the forwarding thread if an audio frame is   *)
(* complete.  When no room is left the next packets are skipped.           *)
ReceiveStore ==
  /\ pcR = "store"
  /\ avail' = IF avail < Room THEN avail + 1 ELSE avail
  /\ skip' = IF avail + 1 < Room THEN skip ELSE Skip
  /\ event' \in {event, TRUE}
  /\ inPes' \in BOOLEAN /\ pesPts' = (pesPts /\ inPes')
  /\ pcR' = "idle"
  /\ UNCHANGED <<bits, stream, ready, synch, card, pcV, pcC, pcOff, pkt, forwarder>>

Receive ==
  \/ ReceiveOff \/ ReceiveSkip \/ ReceiveMuted \/ (\E p \in Packet : ReceivePacket(p))
  \/ ScanHeader \/ ScanNothing \/ ScanPayload \/ GateReset \/ GatePass
  \/ ReceiveSync \/ ReceiveStore

-----------------------------------------------------------------------------
(* The forwarding thread: Action().                                        *)
At(label) == pcF = label /\ ~hung
Goto(label) == pcF' = label /\ UNCHANGED <<resume, hung>>
Active == "ACTIVE" \in flags

Run ==
  /\ At("start") /\ Goto("active")
  /\ flags' = flags \cup {"RUNNING"}
  /\ UNCHANGED <<setup, stream, ready, scanner, synch, buffer, card, vdr>>

AwaitEnter ==
  /\ At("active") /\ Goto(IF Active THEN "await" ELSE "forget")
  /\ UNCHANGED <<bits, stream, ready, scanner, synch, buffer, card, vdr>>

AwaitSignal ==
  /\ At("await") /\ ready
  /\ ready' = FALSE
  /\ Goto(IF stream THEN "opening" ELSE "active")
  /\ flags' = IF stream THEN flags \cup {"STREAMING"} ELSE flags
  /\ UNCHANGED <<setup, stream, scanner, synch, buffer, card, vdr>>

(* The timeout may win against a Signal() and swallow the event.           *)
AwaitTimeout ==
  /\ At("await") /\ Goto("active")
  /\ ready' = FALSE
  /\ UNCHANGED <<bits, stream, scanner, synch, buffer, card, vdr>>

OpenTest ==
  /\ At("opening") /\ Goto(IF Active THEN "open" ELSE "forget")
  /\ UNCHANGED <<bits, stream, ready, scanner, synch, buffer, card, vdr>>

Open ==
  /\ At("open") /\ left = {}
  /\ \/ dev' = "open" /\ Goto("loop") /\ UNCHANGED flags
     \/ dev' = "closed" /\ Goto("forget") /\ flags' = flags \cup {"FAILED"}
  /\ UNCHANGED <<setup, stream, ready, scanner, synch, buffer, left, vdr>>

Hang ==
  /\ pcF \in Hangs /\ ~hung
  /\ hung' = TRUE
  /\ UNCHANGED <<bits, stream, ready, scanner, synch, buffer, card, pcV, pcC, pcOff,
                 receiver, pcF, resume>>

Muted == "MUTE" \in setup

Loop ==
  /\ At("loop")
  /\ Goto(IF ~Active THEN "close" ELSE IF Muted THEN "mute" ELSE "synchronize")
  /\ UNCHANGED <<bits, stream, ready, scanner, synch, buffer, card, vdr>>

(* Mute: clear the card, the buffer and the stream once.                   *)
MuteTest ==
  /\ At("mute") /\ Goto(IF "WASMUTED" \in flags THEN "muted" ELSE "clear")
  /\ UNCHANGED <<bits, stream, ready, scanner, synch, buffer, card, vdr>>

MuteClear ==
  /\ At("clear") /\ Goto("flush")
  /\ flags' = flags \ {"BOUNDARY"}
  /\ UNCHANGED <<setup, stream, ready, scanner, synch, buffer, card, vdr>>

MuteFlush ==
  /\ At("flush") /\ Goto("resync")
  /\ avail' = 0
  /\ UNCHANGED <<bits, stream, ready, scanner, synch, event, card, vdr>>

MuteResync ==
  /\ At("resync") /\ Goto("muted")
  /\ synch' = FALSE
  /\ UNCHANGED <<bits, stream, ready, scanner, buffer, card, vdr>>

MuteDone ==
  /\ At("muted")
  /\ pcF' = resume /\ resume' = "synchronize" /\ UNCHANGED hung
  /\ flags' = flags \cup {"WASMUTED"}
  /\ UNCHANGED <<setup, stream, ready, scanner, synch, buffer, card, vdr>>

(* Synchronize() waits in poll() unless there is data already.  Underruns  *)
(* of the card reset the stream.  FALSE after a timeout, but TRUE while    *)
(* the output pauses; FALSE at once when the plugin stops.                 *)
Synchronized ==
  /\ At("synchronize") /\ "CLEAR" \notin setup
  /\ \/ avail > 0 /\ UNCHANGED event
     \/ avail = 0 /\ event /\ event' = FALSE
  /\ Goto("after")
  /\ synch' \in {synch, FALSE}
  /\ UNCHANGED <<bits, stream, ready, scanner, avail, card, vdr>>

SynchronizeTimeout ==
  /\ At("synchronize") /\ "CLEAR" \notin setup /\ avail = 0
  /\ event' = FALSE
  /\ \/ Goto("loop") \/ Goto("after")
  /\ synch' \in {synch, FALSE}
  /\ UNCHANGED <<bits, stream, ready, scanner, avail, card, vdr>>

SynchronizeStopped ==
  /\ At("synchronize") /\ "CLEAR" \in setup
  /\ Goto("loop")
  /\ UNCHANGED <<bits, stream, ready, scanner, synch, buffer, card, vdr>>

AfterSync ==
  /\ At("after") /\ UNCHANGED hung
  /\ pcF' = IF ~Active THEN "close" ELSE IF Muted THEN "mute" ELSE "fetch"
  /\ resume' = IF Active /\ Muted THEN "loop" ELSE resume
  /\ UNCHANGED <<bits, stream, ready, scanner, synch, buffer, card, vdr>>

Fetch ==
  /\ At("fetch")
  /\ IF avail = 0
     THEN Goto("loop") /\ UNCHANGED avail
     ELSE Goto("burst") /\ \E n \in 1..avail : avail' = avail - n
  /\ UNCHANGED <<bits, stream, ready, scanner, synch, event, card, vdr>>

(* Forward(): every burst clears pts.synch().                              *)
Burst ==
  /\ At("burst") /\ Goto("loop")
  /\ synch' \in {synch, FALSE}
  /\ UNCHANGED <<bits, stream, ready, scanner, buffer, card, vdr>>

Close ==
  /\ At("close") /\ left = {} /\ Goto("closed")
  /\ dev' = "closed"
  /\ flags' = flags \ {"BOUNDARY"}
  /\ UNCHANGED <<setup, stream, ready, scanner, synch, buffer, left, vdr>>

CloseReset ==
  /\ At("closed") /\ Goto("forget")
  /\ synch' = FALSE
  /\ UNCHANGED <<bits, stream, ready, scanner, buffer, card, vdr>>

Forget ==
  /\ At("forget") /\ Goto("drain")
  /\ stream' = FALSE
  /\ UNCHANGED <<bits, ready, scanner, synch, buffer, card, vdr>>

Drain ==
  /\ At("drain") /\ Goto("quit")
  /\ avail' = 0
  /\ UNCHANGED <<bits, stream, ready, scanner, synch, event, card, vdr>>

Quit ==
  /\ At("quit") /\ Goto("end")
  /\ flags' = flags \ {"ACTIVE", "RUNNING"}
  /\ UNCHANGED <<setup, stream, ready, scanner, synch, buffer, card, vdr>>

End ==
  /\ At("end") /\ Goto("off")
  /\ UNCHANGED <<bits, stream, ready, scanner, synch, buffer, card, vdr>>

Mute == MuteTest \/ MuteClear \/ MuteFlush \/ MuteResync \/ MuteDone
Action ==
  \/ Run \/ AwaitEnter \/ AwaitSignal \/ OpenTest \/ Open
  \/ Loop \/ Mute \/ Synchronized \/ SynchronizeStopped \/ AfterSync \/ Fetch \/ Burst
  \/ Close \/ CloseReset \/ Forget \/ Drain \/ Quit \/ End

-----------------------------------------------------------------------------
(* The plugin is stopped and its last stream is deleted: nothing is left.  *)
Stopped == "CLEAR" \in setup /\ pcC = "out" /\ UNCHANGED vars

Control == Attach \/ ClearStream \/ ClearRest \/ Detach \/ Delete
Next == \/ SetupActive \/ ViewerMutes \/ ViewerFlushes \/ ViewerUnmutes \/ Stop
        \/ Control \/ (\E w \in Stopper : Off(w))
        \/ Receive \/ Action \/ AwaitTimeout \/ SynchronizeTimeout \/ Hang
        \/ Stopped

Spec == Init /\ [][Next]_vars

(* Every thread goes on.  The receiver gets packets with a PTS again and   *)
(* again, Detach() gets its turn between two packets, and the 100 ms of    *)
(* StreamReady.Wait() end but do not win every race against Signal().  No  *)
(* fairness for the timeout of poll(), the viewer and the call of Clear(). *)
FairSpec ==
  /\ Spec
  /\ WF_vars(Action) /\ SF_vars(AwaitSignal) /\ WF_vars(AwaitTimeout)
  /\ \A w \in Stopper : WF_vars(Off(w))
  /\ WF_vars(ViewerFlushes) /\ WF_vars(ClearRest) /\ SF_vars(Detach) /\ WF_vars(Delete)
  /\ SF_vars(ReceivePacket("pts"))
  /\ WF_vars(Receive /\ (pcR # "idle" \/ skip > 0))

-----------------------------------------------------------------------------
Streaming == {"loop", "mute", "clear", "flush", "resync", "muted", "synchronize",
              "after", "fetch", "burst", "close"}

(* When AttachReceiver(false) deleted the object nothing of it is left     *)
(* that the next stream or the replay would meet: no thread runs on it,    *)
(* the card is closed, the shared bounce buffer is empty although packets  *)
(* were received until Detach(), and LIVE does not keep the replay mute.   *)
DeletedLeavesNothing ==
  pcC = "out" => /\ pcF = "off" /\ pcR = "idle" /\ pcOff = [w \in Stopper |-> "no"]
                 /\ dev = "closed" /\ avail = 0 /\ ~stream
                 /\ "LIVE" \notin setup /\ "RUNNING" \notin flags

(* While the forwarding thread uses the card its stream stays in place, so *)
(* that Activate(false) knows that there is a card to close if it has to   *)
(* kill the thread.                                                        *)
ForwarderKeepsStream == pcF \in Streaming => stream /\ "STREAMING" \in flags

(* Nobody closes the card under the forwarding thread.                     *)
ClosedByOwner ==
  [][dev = "open" /\ dev' = "closed" => pcF \in {"close", "off"}]_vars

(* channel.c:616: "Start or continue after mute the forwarding thread only *)
(* on PES boundary and if we got a Present Time Stamp (PTS)".              *)
StartsOnPts == [][pcR = "gate" /\ pcR' = "sync" /\ Awaited => pesPts]_vars

(* Clear() and Detach() return, without the help of the timeout of poll(): *)
(* the kicks of Activate(false) end the forwarding thread.                 *)
DetachReturns == pcC \in {"clearing", "cleared", "detach", "detaching"} ~> pcC = "out"

(* A stream that the receiver announced is taken by the forwarding thread, *)
(* which tries to open the card with it, even when a timeout swallowed the *)
(* event.                                                                  *)
StreamIsTaken ==
  stream /\ Active ~> \/ dev = "open" \/ "FAILED" \in flags \/ ~Active
                      \/ Muted \/ "ACTIVE" \notin setup \/ "CLEAR" \in setup
=============================================================================
