-------------------------- MODULE LiveStreamProofs --------------------------
(***************************************************************************)
(* Proofs about module LiveStream, for any size of the bounce buffer, any  *)
(* number of skipped packets, any setup bits the viewer changes and any    *)
(* set of driver calls that hang.                                          *)
(***************************************************************************)
EXTENDS LiveStream, TLAPS

(* The types: bits, truth values, and places and counters.                 *)
BitsOK == setup \subseteq Bit /\ flags \subseteq Flag /\ left \subseteq {"_close", "BURSTRUN"}
TruthOK ==
  /\ stream \in BOOLEAN /\ ready \in BOOLEAN /\ inPes \in BOOLEAN
  /\ synch \in BOOLEAN /\ pesPts \in BOOLEAN /\ event \in BOOLEAN /\ hung \in BOOLEAN
PlacesOK ==
  /\ avail \in 0..Room /\ skip \in 0..Skip /\ dev \in {"open", "closed"}
  /\ pcV \in {"idle", "flush"}
  /\ pcC \in {"out", "in", "clearing", "cleared", "detach", "detaching", "delete"}
  /\ pcOff \in [Stopper -> {"no", "clear", "kick", "test", "cancel", "check",
                            "close", "reset", "null"}]
  /\ pcR \in {"idle", "scan", "gate", "sync", "store"} /\ pkt \in Packet
  /\ pcF \in {"off", "start", "active", "await", "opening", "open", "loop",
              "mute", "clear", "flush", "resync", "muted", "synchronize",
              "after", "fetch", "burst", "close", "closed", "forget", "drain",
              "quit", "end"}
  /\ (hung => pcF \in Hangs)
  /\ resume \in {"synchronize", "loop"}

(* The stream is set before the forwarding thread goes for the card and    *)
(* reset behind its Close(), and RUNNING is set exactly while it runs.     *)
ThreadInv ==
  /\ pcF \in {"opening", "open"} \cup Streaming => stream /\ "STREAMING" \in flags
  /\ pcF \notin {"off", "start", "end"} => "RUNNING" \in flags
  /\ pcF \in {"start", "end"} => "RUNNING" \notin flags

(* The card is open for the forwarding thread, or left open by one that    *)
(* was killed; then stream and RUNNING tell Activate(false) of it.         *)
CardInv == dev = "open" => \/ pcF \in Streaming
                           \/ pcF = "off" /\ stream /\ "RUNNING" \in flags

(* Who is inside which call.                                               *)
CallInv ==
  /\ pcOff["control"] # "no" => pcC \in {"clearing", "detaching"}
  /\ pcOff["receiver"] # "no" => Linked /\ pcR = "idle"
  /\ pcR # "idle" => Linked

(* What Activate(false) has done already stays done: behind Cancel() there *)
(* is no thread, behind Close() no open card, and at its end no LIVE.      *)
OffInv ==
  \A w \in Stopper :
    /\ pcOff[w] \in {"check", "close", "reset", "null"} => pcF = "off"
    /\ pcOff[w] \in {"reset", "null"} => dev = "closed" /\ "RUNNING" \notin flags
    /\ pcOff[w] = "null" => "LIVE" \notin setup

Gone == /\ pcF = "off" /\ dev = "closed" /\ ~stream
        /\ "LIVE" \notin setup /\ "RUNNING" \notin flags

GoneInv ==
  /\ pcC = "out" => Gone /\ avail = 0
  /\ pcC = "detaching" /\ pcOff["control"] = "no" => Gone

IInv == BitsOK /\ TruthOK /\ PlacesOK /\ ThreadInv /\ CardInv /\ CallInv /\ OffInv /\ GoneInv
(* The viewer changes bits of the setup; a hang changes nothing else.      *)
LEMMA ViewerKeeps ==
  /\ IInv
  /\ \/ SetupActive \/ ViewerMutes \/ ViewerFlushes \/ ViewerUnmutes \/ Stop
     \/ Hang
  => IInv'
<1> USE RoomAssumption, SkipAssumption, HangsAssumption
    DEF IInv, BitsOK, TruthOK, PlacesOK, ThreadInv, CardInv, CallInv, OffInv, GoneInv, Gone,
        Bit, Flag, Call, Streaming, Stopper, Linked,
        bits, buffer, card, scanner, receiver, forwarder, vdr
<1>1. ASSUME IInv, SetupActive PROVE IInv'
  <2>1. TruthOK'
    BY <1>1, Zenon DEF SetupActive
  <2> QED
    BY <1>1, <2>1 DEF SetupActive
<1>2. ASSUME IInv, ViewerMutes PROVE IInv'
  <2>1. TruthOK'
    BY <1>2, Zenon DEF ViewerMutes
  <2> QED
    BY <1>2, <2>1 DEF ViewerMutes
<1>3. ASSUME IInv, ViewerFlushes PROVE IInv'
  BY <1>3 DEF ViewerFlushes
<1>4. ASSUME IInv, ViewerUnmutes PROVE IInv'
  BY <1>4 DEF ViewerUnmutes
<1>5. ASSUME IInv, Stop PROVE IInv'
  <2>1. TruthOK'
    BY <1>5, Zenon DEF Stop
  <2> QED
    BY <1>5, <2>1 DEF Stop
<1>6. ASSUME IInv, Hang PROVE IInv'
  BY <1>6 DEF Hang, Call
<1> QED
  BY <1>1, <1>2, <1>3, <1>4, <1>5, <1>6

(* AttachReceiver(): a new object is made when nothing is left of the old  *)
(* one, and deleted when Activate(false) has come to its end.              *)
LEMMA ControlKeeps ==
  /\ IInv
  /\ \/ Attach \/ ClearStream \/ ClearRest \/ Detach \/ Delete
  => IInv'
<1> USE RoomAssumption, SkipAssumption, HangsAssumption
    DEF IInv, BitsOK, TruthOK, PlacesOK, ThreadInv, CardInv, CallInv, OffInv, GoneInv, Gone,
        Bit, Flag, Call, Streaming, Stopper, Linked,
        bits, buffer, card, scanner, receiver, forwarder, vdr
<1>1. ASSUME IInv, Attach PROVE IInv'
  <2>1. TruthOK'
    BY <1>1, Zenon DEF Attach
  <2> QED
    BY <1>1, <2>1 DEF Attach
<1>2. ASSUME IInv, ClearStream PROVE IInv'
  BY <1>2 DEF ClearStream
<1>3. ASSUME IInv, ClearRest PROVE IInv'
  <2>1. TruthOK'
    BY <1>3, Zenon DEF ClearRest
  <2> QED
    BY <1>3, <2>1 DEF ClearRest
<1>4. ASSUME IInv, Detach PROVE IInv'
  BY <1>4 DEF Detach
<1>5. ASSUME IInv, Delete PROVE IInv'
  BY <1>5 DEF Delete
<1> QED
  BY <1>1, <1>2, <1>3, <1>4, <1>5

(* Activate(false), which two threads may be in.  The thread is gone when  *)
(* the first of them looks for a card to close, and no one starts another. *)
LEMMA OffKeeps ==
  ASSUME NEW w \in Stopper
  PROVE  IInv /\ Off(w) => IInv'
<1> USE RoomAssumption, SkipAssumption, HangsAssumption
    DEF IInv, BitsOK, TruthOK, PlacesOK, ThreadInv, CardInv, CallInv, OffInv, GoneInv, Gone,
        Bit, Flag, Call, Streaming, Stopper, Linked,
        bits, buffer, card, scanner, receiver, forwarder, vdr
<1>1. ASSUME IInv, OffClear(w) PROVE IInv'
  BY <1>1 DEF OffClear, OffStep
<1>2. ASSUME IInv, OffKick(w) PROVE IInv'
  BY <1>2 DEF OffKick, OffStep
<1>3. ASSUME IInv, OffTest(w) PROVE IInv'
  BY <1>3 DEF OffTest, OffStep
<1>4. ASSUME IInv, OffJoin(w) PROVE IInv'
  BY <1>4 DEF OffJoin, OffStep
<1>5. ASSUME IInv, OffKill(w) PROVE IInv'
  <2>1. TruthOK'
    BY <1>5, Zenon DEF OffKill, OffStep, LeftIn
  <2> QED
    BY <1>5, <2>1 DEF OffKill, OffStep, LeftIn
<1>6. ASSUME IInv, OffCheck(w) PROVE IInv'
  BY <1>6 DEF OffCheck, OffStep
<1>7. ASSUME IInv, OffClose(w) PROVE IInv'
  <2>1. TruthOK'
    BY <1>7, Zenon DEF OffClose, OffStep
  <2> QED
    BY <1>7, <2>1 DEF OffClose, OffStep
<1>8. ASSUME IInv, OffReset(w) PROVE IInv'
  <2>1. TruthOK'
    BY <1>8, Zenon DEF OffReset, OffStep
  <2> QED
    BY <1>8, <2>1 DEF OffReset, OffStep
<1>9. ASSUME IInv, OffNull(w) PROVE IInv'
  <2>1. TruthOK'
    BY <1>9, Zenon DEF OffNull, OffStep
  <2> QED
    BY <1>9, <2>1 DEF OffNull, OffStep
<1> QED
  BY <1>1, <1>2, <1>3, <1>4, <1>5, <1>6, <1>7, <1>8, <1>9 DEF Off

(* Receive(): the only one to set the stream, while the object is linked.  *)
LEMMA ReceiveKeeps ==
  /\ IInv
  /\ \/ ReceiveOff \/ ReceiveSkip \/ ReceiveMuted \/ ScanHeader
     \/ ScanNothing \/ ScanPayload \/ GateReset \/ GatePass \/ ReceiveSync
     \/ ReceiveStore
  => IInv'
<1> USE RoomAssumption, SkipAssumption, HangsAssumption
    DEF IInv, BitsOK, TruthOK, PlacesOK, ThreadInv, CardInv, CallInv, OffInv, GoneInv, Gone,
        Bit, Flag, Call, Streaming, Stopper, Linked,
        bits, buffer, card, scanner, receiver, forwarder, vdr
<1>1. ASSUME IInv, ReceiveOff PROVE IInv'
  BY <1>1 DEF ReceiveOff, Receiving
<1>2. ASSUME IInv, ReceiveSkip PROVE IInv'
  BY <1>2 DEF ReceiveSkip, Receiving
<1>3. ASSUME IInv, ReceiveMuted PROVE IInv'
  BY <1>3 DEF ReceiveMuted, Receiving
<1>4. ASSUME IInv, ScanHeader PROVE IInv'
  <2>1. TruthOK'
    BY <1>4, Zenon DEF ScanHeader, Rescan, Packet
  <2> QED
    BY <1>4, <2>1 DEF ScanHeader, Rescan, Packet
<1>5. ASSUME IInv, ScanNothing PROVE IInv'
  BY <1>5 DEF ScanNothing, Rescan, Packet
<1>6. ASSUME IInv, ScanPayload PROVE IInv'
  <2>1. TruthOK'
    BY <1>6, Zenon DEF ScanPayload, Rescan
  <2>2. /\ flags' \in {flags, flags \ {"BOUNDARY"}}
        /\ pcR = "scan" /\ pcR' \in {"gate", "idle"} /\ pkt' = "cont"
        /\ UNCHANGED <<setup, stream, ready, buffer, card, pcV, pcC, pcOff, skip, forwarder>>
    BY <1>6 DEF ScanPayload, Rescan
  <2> QED
    BY <1>6, <2>1, <2>2 DEF Packet
<1>7. ASSUME IInv, GateReset PROVE IInv'
  <2>1. TruthOK'
    BY <1>7, Zenon DEF GateReset, Rescan, Packet
  <2> QED
    BY <1>7, <2>1 DEF GateReset, Rescan, Packet
<1>8. ASSUME IInv, GatePass PROVE IInv'
  <2>1. TruthOK'
    BY <1>8, Zenon DEF GatePass, Rescan, Packet
  <2> QED
    BY <1>8, <2>1 DEF GatePass, Rescan, Packet
<1>9. ASSUME IInv, ReceiveSync PROVE IInv'
  <2>1. TruthOK'
    BY <1>9, Zenon DEF ReceiveSync, Packet
  <2>2. BitsOK'
    BY <1>9 DEF ReceiveSync, Packet
  <2>3. PlacesOK'
    BY <1>9 DEF ReceiveSync, Packet
  <2> QED
    BY <1>9, <2>1, <2>2, <2>3 DEF ReceiveSync
<1>10. ASSUME IInv, ReceiveStore PROVE IInv'
  <2>1. TruthOK'
    BY <1>10, Zenon DEF ReceiveStore
  <2> QED
    BY <1>10, <2>1 DEF ReceiveStore
<1> QED
  BY <1>1, <1>2, <1>3, <1>4, <1>5, <1>6, <1>7, <1>8, <1>9, <1>10

(* ... and takes a packet only while no Activate(false) of its own runs.   *)
LEMMA PacketKeeps ==
  ASSUME IInv, NEW p \in Packet, ReceivePacket(p)
  PROVE  IInv'
  BY RoomAssumption, SkipAssumption, HangsAssumption
  DEF IInv, BitsOK, TruthOK, PlacesOK, ThreadInv, CardInv, CallInv, OffInv, GoneInv, Gone,
      Bit, Flag, Call, Streaming, Stopper, Linked,
      bits, buffer, card, scanner, receiver, forwarder, vdr, ReceivePacket, Receiving

(* Action(): the only one to open the card, with the stream in place.      *)
LEMMA ForwardKeeps ==
  /\ IInv
  /\ \/ Run \/ AwaitEnter \/ AwaitSignal \/ AwaitTimeout \/ OpenTest \/ Open
     \/ Loop \/ MuteTest \/ MuteClear \/ MuteFlush \/ MuteResync \/ MuteDone
     \/ Synchronized \/ SynchronizeTimeout \/ SynchronizeStopped \/ AfterSync
     \/ Fetch \/ Burst \/ Close \/ CloseReset \/ Forget \/ Drain \/ Quit
     \/ End
  => IInv'
<1> USE RoomAssumption, SkipAssumption, HangsAssumption
    DEF IInv, BitsOK, TruthOK, PlacesOK, ThreadInv, CardInv, CallInv, OffInv, GoneInv, Gone,
        Bit, Flag, Call, Streaming, Stopper, Linked,
        bits, buffer, card, scanner, receiver, forwarder, vdr
<1>1. ASSUME IInv, Run PROVE IInv'
  <2>1. TruthOK'
    BY <1>1, Zenon DEF Run, At, Goto, Call
  <2> QED
    BY <1>1, <2>1 DEF Run, At, Goto, Call
<1>2. ASSUME IInv, AwaitEnter PROVE IInv'
  BY <1>2 DEF AwaitEnter, At, Goto, Call
<1>3. ASSUME IInv, AwaitSignal PROVE IInv'
  <2>1. TruthOK'
    BY <1>3, Zenon DEF AwaitSignal, At, Goto, Call
  <2> QED
    BY <1>3, <2>1 DEF AwaitSignal, At, Goto, Call
<1>4. ASSUME IInv, AwaitTimeout PROVE IInv'
  <2>1. TruthOK'
    BY <1>4, Zenon DEF AwaitTimeout, At, Goto, Call
  <2> QED
    BY <1>4, <2>1 DEF AwaitTimeout, At, Goto, Call
<1>5. ASSUME IInv, OpenTest PROVE IInv'
  BY <1>5 DEF OpenTest, At, Goto, Call
<1>6. ASSUME IInv, Open PROVE IInv'
  <2>1. TruthOK'
    BY <1>6, Zenon DEF Open, At, Goto, Call
  <2>2. CASE dev' = "open" /\ Goto("loop") /\ UNCHANGED flags
    BY <1>6, <2>1, <2>2 DEF Open, At, Goto, Call
  <2>3. CASE dev' = "closed" /\ Goto("forget") /\ flags' = flags \cup {"FAILED"}
    BY <1>6, <2>1, <2>3 DEF Open, At, Goto, Call
  <2> QED
    BY <1>6, <2>1, <2>2, <2>3 DEF Open
<1>7. ASSUME IInv, Loop PROVE IInv'
  BY <1>7 DEF Loop, At, Goto, Call
<1>8. ASSUME IInv, MuteTest PROVE IInv'
  BY <1>8 DEF MuteTest, At, Goto, Call
<1>9. ASSUME IInv, MuteClear PROVE IInv'
  BY <1>9 DEF MuteClear, At, Goto, Call
<1>10. ASSUME IInv, MuteFlush PROVE IInv'
  BY <1>10 DEF MuteFlush, At, Goto, Call
<1>11. ASSUME IInv, MuteResync PROVE IInv'
  <2>1. TruthOK'
    BY <1>11, Zenon DEF MuteResync, At, Goto, Call
  <2> QED
    BY <1>11, <2>1 DEF MuteResync, At, Goto, Call
<1>12. ASSUME IInv, MuteDone PROVE IInv'
  <2>1. TruthOK'
    BY <1>12, Zenon DEF MuteDone, At, Goto, Call
  <2> QED
    BY <1>12, <2>1 DEF MuteDone, At, Goto, Call
<1>13. ASSUME IInv, Synchronized PROVE IInv'
  <2>1. TruthOK'
    BY <1>13, Zenon DEF Synchronized, At, Goto, Call
  <2> QED
    BY <1>13, <2>1 DEF Synchronized, At, Goto, Call
<1>14. ASSUME IInv, SynchronizeTimeout PROVE IInv'
  <2>1. TruthOK'
    BY <1>14, Zenon DEF SynchronizeTimeout, At, Goto, Call
  <2> QED
    BY <1>14, <2>1 DEF SynchronizeTimeout, At, Goto, Call
<1>15. ASSUME IInv, SynchronizeStopped PROVE IInv'
  BY <1>15 DEF SynchronizeStopped, At, Goto, Call
<1>16. ASSUME IInv, AfterSync PROVE IInv'
  BY <1>16 DEF AfterSync, At, Goto, Call
<1>17. ASSUME IInv, Fetch PROVE IInv'
  BY <1>17 DEF Fetch, At, Goto, Call
<1>18. ASSUME IInv, Burst PROVE IInv'
  <2>1. TruthOK'
    BY <1>18, Zenon DEF Burst, At, Goto, Call
  <2> QED
    BY <1>18, <2>1 DEF Burst, At, Goto, Call
<1>19. ASSUME IInv, Close PROVE IInv'
  BY <1>19 DEF Close, At, Goto, Call
<1>20. ASSUME IInv, CloseReset PROVE IInv'
  <2>1. TruthOK'
    BY <1>20, Zenon DEF CloseReset, At, Goto, Call
  <2> QED
    BY <1>20, <2>1 DEF CloseReset, At, Goto, Call
<1>21. ASSUME IInv, Forget PROVE IInv'
  <2>1. TruthOK'
    BY <1>21, Zenon DEF Forget, At, Goto, Call
  <2> QED
    BY <1>21, <2>1 DEF Forget, At, Goto, Call
<1>22. ASSUME IInv, Drain PROVE IInv'
  BY <1>22 DEF Drain, At, Goto, Call
<1>23. ASSUME IInv, Quit PROVE IInv'
  BY <1>23 DEF Quit, At, Goto, Call
<1>24. ASSUME IInv, End PROVE IInv'
  BY <1>24 DEF End, At, Goto, Call
<1> QED
  BY <1>1, <1>2, <1>3, <1>4, <1>5, <1>6, <1>7, <1>8, <1>9, <1>10, <1>11, <1>12,
     <1>13, <1>14, <1>15, <1>16, <1>17, <1>18, <1>19, <1>20, <1>21, <1>22, <1>23,
     <1>24

(* At the start there is neither an object nor a thread.                   *)
LEMMA InitIInv == Init => IInv
<1> SUFFICES ASSUME Init PROVE IInv
  OBVIOUS
<1>1. TruthOK
  BY Zenon DEF Init, TruthOK
<1>2. BitsOK
  BY DEF Init, BitsOK, Bit
<1>3. PlacesOK
  BY RoomAssumption, SkipAssumption DEF Init, PlacesOK, Packet, Stopper
<1> QED
  BY <1>1, <1>2, <1>3
  DEF Init, IInv, ThreadInv, CardInv, CallInv, OffInv, GoneInv, Gone, Stopper, Streaming, Bit

LEMMA StepIInv == IInv /\ [Next]_vars => IInv'
<1> SUFFICES ASSUME IInv, [Next]_vars PROVE IInv'
  OBVIOUS
<1>1. CASE UNCHANGED vars
  BY <1>1 DEF IInv, BitsOK, TruthOK, PlacesOK, ThreadInv, CardInv, CallInv, OffInv,
     GoneInv, Gone, Linked, vars, bits, buffer, card, scanner, receiver, forwarder, vdr
<1>2. CASE \E w \in Stopper : Off(w)
  BY <1>2, OffKeeps
<1>3. CASE \E p \in Packet : ReceivePacket(p)
  BY <1>3, PacketKeeps
<1>4. CASE Control \/ SetupActive \/ ViewerMutes \/ ViewerFlushes \/ ViewerUnmutes
           \/ Stop \/ Hang
  BY <1>4, ControlKeeps, ViewerKeeps DEF Control
<1>5. CASE Receive
  BY <1>3, <1>5, ReceiveKeeps DEF Receive
<1>6. CASE Action \/ AwaitTimeout \/ SynchronizeTimeout
  BY <1>6, ForwardKeeps DEF Action, Mute
<1> QED
  BY <1>1, <1>2, <1>4, <1>5, <1>6 DEF Next, Stopped

LEMMA Invariance == Spec => []IInv
  BY InitIInv, StepIInv, PTL DEF Spec

-----------------------------------------------------------------------------
(* The members keep their types: no more packets are in the bounce buffer  *)
(* than fit, and a thread hangs only in a call into the driver.            *)
THEOREM TypeCorrect == Spec => []TypeOK
<1>1. IInv => TypeOK
  BY DEF IInv, BitsOK, TruthOK, PlacesOK, TypeOK
<1> QED
  BY Invariance, <1>1, PTL

(* AttachReceiver(false) leaves nothing of a stream behind, whichever call *)
(* into the driver hangs and wherever the thread was killed.               *)
THEOREM NothingLeft == Spec => []DeletedLeavesNothing
<1>1. IInv => DeletedLeavesNothing
  <2> SUFFICES ASSUME IInv, pcC = "out" PROVE DeletedLeavesNothing
    BY DEF DeletedLeavesNothing
  <2>1. Gone /\ avail = 0
    BY DEF IInv, GoneInv
  <2>2. pcR = "idle" /\ \A w \in Stopper : pcOff[w] = "no"
    BY DEF IInv, CallInv, Linked, Stopper
  <2>3. pcOff = [w \in Stopper |-> "no"]
    BY <2>2 DEF IInv, PlacesOK
  <2> QED
    BY <2>1, <2>2, <2>3 DEF Gone, DeletedLeavesNothing
<1> QED
  BY Invariance, <1>1, PTL

(* The stream of a forwarding thread that uses the card stays in place.    *)
THEOREM StreamKept == Spec => []ForwarderKeepsStream
<1>1. IInv => ForwarderKeepsStream
  BY DEF IInv, ThreadInv, ForwarderKeepsStream
<1> QED
  BY Invariance, <1>1, PTL

(* Only the forwarding thread itself closes the card, or the one that      *)
(* finds it gone: Open() never meets an open card here.                    *)
THEOREM OwnerCloses == Spec => ClosedByOwner
<1>1. IInv /\ [Next]_vars
        => [dev = "open" /\ dev' = "closed" => pcF \in {"close", "off"}]_vars
  <2> SUFFICES ASSUME IInv, Next, dev = "open", dev' = "closed"
               PROVE  pcF \in {"close", "off"}
    OBVIOUS
  <2>1. CASE \E w \in Stopper : Off(w)
    <3>1. PICK w \in Stopper : OffClose(w)
      BY <2>1 DEF Off, OffClear, OffKick, OffTest, OffJoin, OffKill, OffCheck, OffReset,
         OffNull, card
    <3>2. pcOff[w] = "close"
      BY <3>1 DEF OffClose, OffStep
    <3> QED
      BY <3>2 DEF IInv, OffInv
  <2>2. CASE Action
    <3>1. Open \/ Close
      BY <2>2 DEF Action, Mute, Run, AwaitEnter, AwaitSignal, OpenTest, Loop, MuteTest,
         MuteClear, MuteFlush, MuteResync, MuteDone, Synchronized, SynchronizeStopped,
         AfterSync, Fetch, Burst, CloseReset, Forget, Drain, Quit, End, card
    <3>2. pcF \in Streaming \cup {"off"}
      BY DEF IInv, CardInv
    <3> QED
      BY <3>1, <3>2 DEF Open, Close, At, Streaming
  <2>3. CASE ~(Action \/ \E w \in Stopper : Off(w))
    BY <2>3 DEF Next, SetupActive, ViewerMutes, ViewerFlushes, ViewerUnmutes, Stop,
       Control, Attach, ClearStream, ClearRest, Detach, Delete, Receive, ReceiveOff,
       ReceiveSkip, ReceiveMuted, ReceivePacket, ScanHeader, ScanNothing, ScanPayload,
       GateReset, GatePass, ReceiveSync, ReceiveStore, AwaitTimeout, SynchronizeTimeout,
       Hang, Stopped, card, vars
  <2> QED
    BY <2>1, <2>2, <2>3
<1> QED
  BY Invariance, <1>1, PTL DEF Spec, ClosedByOwner
=============================================================================
