---------------------------- MODULE ReplayProofs ----------------------------
(***************************************************************************)
(* Proofs about module Replay, for any of the sources the player may send  *)
(* and any kinds of packets.                                               *)
(***************************************************************************)
EXTENDS Replay, TLAPS

(* The types: truth values, and all others.                                *)
TruthOK == muting \in BOOLEAN /\ synched \in BOOLEAN
PlacesOK ==
  /\ src \in Sources
  /\ setup \subseteq {"ACTIVE", "MP2ENABLE", "RESET", "MUTE"}
  /\ flags \subseteq {"ACTIVE", "RUNNING", "FAILED", "BOUNDARY", "WASMUTED"}
  /\ stream \in Framers \cup {None} /\ track \in Mpeg
  /\ data \subseteq Sources /\ skip \in 0..2
  /\ at \in {"idle", "decide", "start", "started", "store", "clear", "call",
             "join", "cleared"}
  /\ pkt \in [src : Sources, kind : Kinds] \cup {NoPacket} /\ curr \in Framers \cup {None}
  /\ pc \in {None, "begin", "open", "loop", "sync", "ready", "forward", "close", "end", "flags"}
  /\ fcurr \in Framers \cup {None} /\ chunk \subseteq Sources

(* A thread that has taken its framer and not given it back; a source that *)
(* the framer of the part takes.                                           *)
Holding == {"open", "loop", "sync", "ready", "forward", "close"}
Fits(s) == IF s \in Mpeg THEN stream = "mp2" /\ track = s ELSE stream # "mp2"

(* The flags follow the thread; a new one finds its player waiting and the *)
(* bounce buffer empty; what it forwards it has from the buffer.           *)
ThreadInv ==
  /\ pc = None => flags \cap {"ACTIVE", "RUNNING"} = {}
  /\ pc = "begin" => "RUNNING" \notin flags /\ at = "started" /\ data = {}
  /\ pc \notin {None, "begin"} => "RUNNING" \in flags
  /\ chunk # {} => pc = "forward"

(* While a thread holds its framer, this is the stream of the part, and    *)
(* the bounce buffer has only what it takes.                               *)
FramerInv ==
  pc \in Holding => /\ stream = fcurr /\ stream # None
                    /\ \A s \in data \cup chunk : Fits(s)

(* The player between two steps.  Only a thread that ends changes the      *)
(* stream behind its back, and only the player starts one; so the packet   *)
(* in hand fits as long as there is a thread that would play it.           *)
PlayerInv ==
  /\ at = "decide" => stream \in {curr, None}
  /\ at = "start" => pc = None /\ stream # None /\ Fits(pkt.src)
  /\ at = "started" /\ pc \in {"begin"} \cup Holding => stream # None /\ Fits(pkt.src)
  /\ at = "store" /\ pc \in Holding => Fits(pkt.src)
  /\ at \in {"decide", "start", "started", "store"} => pkt \in [src : Sources, kind : Kinds]
  /\ at = "join" => "ACTIVE" \notin flags
  /\ at = "cleared" => pc = None

IInv == TruthOK /\ PlacesOK /\ ThreadInv /\ FramerInv /\ PlayerInv

(* What Play() does with a packet before it starts a thread or stores it. *)
LEMMA PacketKeeps ==
  /\ IInv
  /\ PlayOff \/ PlaySkip \/ PlayMuted \/ DecideReset \/ DecideIgnore \/ DecideStore \/ DecideNotFound \/ DecideFound
  /\ UNCHANGED <<viewer, forwarder>>
  => IInv'
<1> USE SourcesAssumption, KindsAssumption
    DEF IInv, TruthOK, PlacesOK, ThreadInv, FramerInv, PlayerInv, Holding, Fits, Framers,
        Framer, None, NoPacket, Dvb, Dvd, Mpeg, player, viewer, forwarder, framer
<1>1. ASSUME IInv, PlayOff, UNCHANGED <<viewer, forwarder>> PROVE IInv'
  BY <1>1 DEF PlayOff, Goes, Drops
<1>2. ASSUME IInv, PlaySkip, UNCHANGED <<viewer, forwarder>> PROVE IInv'
  BY <1>2 DEF PlaySkip
<1>3. ASSUME IInv, PlayMuted, UNCHANGED <<viewer, forwarder>> PROVE IInv'
  <2>1. at = "idle" /\ data' = {} /\ UNCHANGED <<setup, flags, framer, player>>
    BY <1>3 DEF PlayMuted
  <2>2. TruthOK' /\ PlacesOK'
    BY <1>3, <2>1
  <2>3. ThreadInv' /\ FramerInv'
    BY <1>3, <2>1
  <2>4. PlayerInv'
    BY <1>3, <2>1
  <2> QED
    BY <2>2, <2>3, <2>4
<1>4. ASSUME IInv, DecideReset, UNCHANGED <<viewer, forwarder>> PROVE IInv'
  BY <1>4 DEF DecideReset, Goes, Drops, Misfit, Ignored, IsMpeg, Bounded
<1>5. ASSUME IInv, DecideIgnore, UNCHANGED <<viewer, forwarder>> PROVE IInv'
  BY <1>5 DEF DecideIgnore, Goes, Drops, Misfit, Ignored, IsMpeg, Bounded
<1>6. ASSUME IInv, DecideStore, UNCHANGED <<viewer, forwarder>> PROVE IInv'
  BY <1>6 DEF DecideStore, Goes, Drops, Misfit, Ignored, IsMpeg, Bounded
<1>7. ASSUME IInv, DecideNotFound, UNCHANGED <<viewer, forwarder>> PROVE IInv'
  BY <1>7 DEF DecideNotFound, Goes, Drops, Seeks
<1>8. ASSUME IInv, DecideFound, UNCHANGED <<viewer, forwarder>> PROVE IInv'
  <2>1. TruthOK'
    BY <1>8, Zenon DEF DecideFound, Goes, Drops, Seeks, Misfit, Ignored, IsMpeg,
       Bounded, Digests, Gate
  <2> QED
    BY <1>8, <2>1 DEF DecideFound, Goes, Drops, Seeks, Misfit, Ignored, IsMpeg,
       Bounded, Digests, Gate
<1> QED
  BY <1>1, <1>2, <1>3, <1>4, <1>5, <1>6, <1>7, <1>8

(* How it goes on with one, and Clear().  A stream that is reset has no    *)
(* thread any more.                                                        *)
LEMMA StoreKeeps ==
  /\ IInv
  /\ Started \/ StoreNot \/ StorePut \/ StoreFull \/ Clear \/ Join \/ Cleared \/ ClearCall
  /\ UNCHANGED <<viewer, forwarder>>
  => IInv'
<1> USE SourcesAssumption, KindsAssumption
    DEF IInv, TruthOK, PlacesOK, ThreadInv, FramerInv, PlayerInv, Holding, Fits, Framers,
        Framer, None, NoPacket, Dvb, Dvd, Mpeg, player, viewer, forwarder, framer
<1>1. ASSUME IInv, Started, UNCHANGED <<viewer, forwarder>> PROVE IInv'
  BY <1>1 DEF Started, Goes, Drops
<1>2. ASSUME IInv, StoreNot, UNCHANGED <<viewer, forwarder>> PROVE IInv'
  BY <1>2 DEF StoreNot, Goes, Drops
<1>3. ASSUME IInv, StorePut, UNCHANGED <<viewer, forwarder>> PROVE IInv'
  <2>1. TruthOK'
    BY <1>3, Zenon DEF StorePut, Goes, Drops
  <2> QED
    BY <1>3, <2>1 DEF StorePut, Goes, Drops
<1>4. ASSUME IInv, StoreFull, UNCHANGED <<viewer, forwarder>> PROVE IInv'
  BY <1>4 DEF StoreFull, Goes, Drops
<1>5. ASSUME IInv, Clear, UNCHANGED <<viewer, forwarder>> PROVE IInv'
  BY <1>5 DEF Clear
<1>6. ASSUME IInv, Join, UNCHANGED <<viewer, forwarder>> PROVE IInv'
  BY <1>6 DEF Join, Goes, Drops
<1>7. ASSUME IInv, Cleared, UNCHANGED <<viewer, forwarder>> PROVE IInv'
  <2>1. TruthOK'
    BY <1>7, Zenon DEF Cleared, Goes, Drops
  <2> QED
    BY <1>7, <2>1 DEF Cleared, Goes, Drops
<1>8. ASSUME IInv, ClearCall, UNCHANGED <<viewer, forwarder>> PROVE IInv'
  BY <1>8 DEF ClearCall, Goes, Drops
<1> QED
  BY <1>1, <1>2, <1>3, <1>4, <1>5, <1>6, <1>7, <1>8

(* The start and the kill of a thread, both by the player.                 *)
LEMMA StartKeeps ==
  /\ IInv
  /\ Start \/ Kill
  /\ UNCHANGED viewer
  => IInv'
<1> USE SourcesAssumption, KindsAssumption
    DEF IInv, TruthOK, PlacesOK, ThreadInv, FramerInv, PlayerInv, Holding, Fits, Framers,
        Framer, None, NoPacket, Dvb, Dvd, Mpeg, player, viewer, forwarder, framer
<1>1. ASSUME IInv, Start, UNCHANGED viewer PROVE IInv'
  <2>1. at = "start" /\ at' = "started" /\ pc = None /\ UNCHANGED <<framer, pkt, curr, skip, fcurr, chunk>>
    BY <1>1 DEF Start, Goes
  <2>2. CASE flags' \subseteq flags /\ setup' \subseteq setup /\ UNCHANGED <<data, pc>>
    BY <1>1, <2>1, <2>2
  <2>3. CASE /\ flags' \subseteq flags \cup {"ACTIVE"} /\ setup' \subseteq setup
             /\ data' = {} /\ pc' = "begin"
    BY <1>1, <2>1, <2>3
  <2> QED
    BY <1>1, <2>2, <2>3 DEF Start, Runs
<1>2. ASSUME IInv, Kill, UNCHANGED viewer PROVE IInv'
  <2>1. TruthOK'
    BY <1>2, Zenon DEF Kill, Goes, Runs
  <2> QED
    BY <1>2, <2>1 DEF Kill, Goes, Runs
<1> QED
  BY <1>1, <1>2

(* Mutes, changes of the setup, another source.                            *)
LEMMA ViewerKeeps ==
  /\ IInv
  /\ MuteOn \/ MuteFlush \/ MuteOff \/ Setup \/ Source
  /\ UNCHANGED forwarder
  => IInv'
<1> USE SourcesAssumption, KindsAssumption
    DEF IInv, TruthOK, PlacesOK, ThreadInv, FramerInv, PlayerInv, Holding, Fits, Framers,
        Framer, None, NoPacket, Dvb, Dvd, Mpeg, player, viewer, forwarder, framer
<1>1. ASSUME IInv, MuteOn, UNCHANGED forwarder PROVE IInv'
  <2>1. TruthOK'
    BY <1>1, Zenon DEF MuteOn
  <2> QED
    BY <1>1, <2>1 DEF MuteOn
<1>2. ASSUME IInv, MuteFlush, UNCHANGED forwarder PROVE IInv'
  <2>1. TruthOK' /\ PlacesOK'
    <3>1. TruthOK'
      BY <1>2, Zenon DEF MuteFlush
    <3>2. PlacesOK'
      BY <1>2 DEF MuteFlush
    <3> QED
      BY <3>1, <3>2
  <2>2. ThreadInv'
    BY <1>2 DEF MuteFlush
  <2>3. FramerInv' /\ PlayerInv'
    BY <1>2 DEF MuteFlush
  <2> QED
    BY <2>1, <2>2, <2>3
<1>3. ASSUME IInv, MuteOff, UNCHANGED forwarder PROVE IInv'
  <2>1. TruthOK'
    BY <1>3, Zenon DEF MuteOff
  <2> QED
    BY <1>3, <2>1 DEF MuteOff
<1>4. ASSUME IInv, Setup, UNCHANGED forwarder PROVE IInv'
  BY <1>4 DEF Setup
<1>5. ASSUME IInv, Source, UNCHANGED forwarder PROVE IInv'
  BY <1>5 DEF Source
<1> QED
  BY <1>1, <1>2, <1>3, <1>4, <1>5

(* Muting the output once drops the data and remembers that it was done.   *)
LEMMA MutingKeeps ==
  ASSUME IInv, TruthOK', pc \in {"loop", "ready"}, pc' \in {"loop", "sync", "close"},
         data' \in {data, {}},
         flags' \in {flags, (flags \ {"BOUNDARY"}) \cup {"WASMUTED"}},
         UNCHANGED <<stream, track, fcurr, chunk, viewer, setup, player>>
  PROVE  IInv'
<1> USE DEF IInv, None, viewer, player
<1>1. PlacesOK'
  BY DEF PlacesOK
<1>2. ThreadInv'
  <2>1. "RUNNING" \in flags'
    BY DEF ThreadInv
  <2> QED
    BY <2>1, SourcesAssumption DEF ThreadInv, PlacesOK
<1>3. FramerInv'
  <2>1. pc \in Holding
    BY DEF Holding
  <2>2. data' \subseteq data
    OBVIOUS
  <2> QED
    BY <2>1, <2>2 DEF FramerInv, Fits
<1>4. PlayerInv'
  BY DEF PlayerInv, Holding, Fits
<1> QED
  BY <1>1, <1>2, <1>3, <1>4

(* Action(): the packets a thread finds in the buffer fit its framer.      *)
LEMMA ActionKeeps ==
  /\ IInv
  /\ Begin \/ Open \/ OpenFails \/ Loop \/ Sync \/ ReadyNot \/ Fetch \/ Forward \/ Close \/ End \/ EndFlags
  /\ UNCHANGED <<viewer, setup, player>>
  => IInv'
<1> USE SourcesAssumption, KindsAssumption
    DEF IInv, TruthOK, PlacesOK, ThreadInv, FramerInv, PlayerInv, Holding, Fits, Framers,
        Framer, None, NoPacket, Dvb, Dvd, Mpeg, player, viewer, forwarder, framer
<1>1. ASSUME IInv, Begin, UNCHANGED <<viewer, setup, player>> PROVE IInv'
  BY <1>1 DEF Begin, Runs
<1>2. ASSUME IInv, Open, UNCHANGED <<viewer, setup, player>> PROVE IInv'
  BY <1>2 DEF Open, Runs
<1>3. ASSUME IInv, OpenFails, UNCHANGED <<viewer, setup, player>> PROVE IInv'
  BY <1>3 DEF OpenFails, Runs
<1>4. ASSUME IInv, Loop, UNCHANGED <<viewer, setup, player>> PROVE IInv'
  <2>1. TruthOK'
    BY <1>4, Zenon DEF Loop, Runs, MuteOnce, Muted
  <2>2. /\ pc \in {"loop", "ready"} /\ pc' \in {"loop", "sync", "close"}
        /\ data' \in {data, {}}
        /\ flags' \in {flags, (flags \ {"BOUNDARY"}) \cup {"WASMUTED"}}
        /\ UNCHANGED <<stream, track, fcurr, chunk>>
    BY <1>4 DEF Loop, Runs, MuteOnce
  <2> QED
    BY <1>4, <2>1, <2>2, MutingKeeps
<1>5. ASSUME IInv, Sync, UNCHANGED <<viewer, setup, player>> PROVE IInv'
  <2>1. TruthOK'
    BY <1>5, Zenon DEF Sync, Runs
  <2> QED
    BY <1>5, <2>1 DEF Sync, Runs
<1>6. ASSUME IInv, ReadyNot, UNCHANGED <<viewer, setup, player>> PROVE IInv'
  <2>1. TruthOK'
    BY <1>6, Zenon DEF ReadyNot, Runs, MuteOnce, Muted
  <2>2. /\ pc \in {"loop", "ready"} /\ pc' \in {"loop", "sync", "close"}
        /\ data' \in {data, {}}
        /\ flags' \in {flags, (flags \ {"BOUNDARY"}) \cup {"WASMUTED"}}
        /\ UNCHANGED <<stream, track, fcurr, chunk>>
    BY <1>6 DEF ReadyNot, Runs, MuteOnce
  <2> QED
    BY <1>6, <2>1, <2>2, MutingKeeps
<1>7. ASSUME IInv, Fetch, UNCHANGED <<viewer, setup, player>> PROVE IInv'
  <2>1. TruthOK'
    BY <1>7, Zenon DEF Fetch, Runs
  <2>2. PlacesOK' /\ ThreadInv'
    BY <1>7 DEF Fetch, Runs
  <2>3. FramerInv' /\ PlayerInv'
    BY <1>7 DEF Fetch, Runs
  <2> QED
    BY <2>1, <2>2, <2>3
<1>8. ASSUME IInv, Forward, UNCHANGED <<viewer, setup, player>> PROVE IInv'
  BY <1>8 DEF Forward, Runs
<1>9. ASSUME IInv, Close, UNCHANGED <<viewer, setup, player>> PROVE IInv'
  <2>1. TruthOK'
    BY <1>9, Zenon DEF Close, Runs
  <2> QED
    BY <1>9, <2>1 DEF Close, Runs
<1>10. ASSUME IInv, End, UNCHANGED <<viewer, setup, player>> PROVE IInv'
  BY <1>10 DEF End, Runs
<1>11. ASSUME IInv, EndFlags, UNCHANGED <<viewer, setup, player>> PROVE IInv'
  BY <1>11 DEF EndFlags, Runs
<1> QED
  BY <1>1, <1>2, <1>3, <1>4, <1>5, <1>6, <1>7, <1>8, <1>9, <1>10, <1>11

LEMMA EnterKeeps ==
  ASSUME NEW k \in Kinds
  PROVE  IInv /\ PlayEnter(k) /\ UNCHANGED <<viewer, forwarder>> => IInv'
  BY SourcesAssumption, KindsAssumption
  DEF IInv, TruthOK, PlacesOK, ThreadInv, FramerInv, PlayerInv, Holding, Fits, Framers,
      Framer, None, NoPacket, Dvb, Dvd, Mpeg, player, viewer, forwarder, framer,
      PlayEnter, Goes

(* At the start there is neither a packet nor a thread.                    *)
LEMMA InitIInv == Init => IInv
<1> SUFFICES ASSUME Init PROVE IInv
  OBVIOUS
<1>1. TruthOK
  BY Zenon DEF Init, TruthOK
<1>2. PlacesOK
  BY DEF Init, PlacesOK, Framers, Mpeg, None, NoPacket
<1> QED
  BY <1>1, <1>2 DEF Init, IInv, ThreadInv, FramerInv, PlayerInv, Holding, None

LEMMA StepIInv == IInv /\ [Next]_vars => IInv'
<1> SUFFICES ASSUME IInv, [Next]_vars PROVE IInv'
  OBVIOUS
<1>1. CASE UNCHANGED vars
  BY <1>1 DEF IInv, TruthOK, PlacesOK, ThreadInv, FramerInv, PlayerInv, Fits,
     vars, viewer, framer, player, forwarder
<1>2. CASE Play
  BY <1>2, PacketKeeps, StoreKeeps, StartKeeps, EnterKeeps DEF Play, Decide, Store
<1>3. CASE Action
  BY <1>3, ActionKeeps DEF Action
<1>4. CASE Mute \/ ((Setup \/ Source) /\ UNCHANGED forwarder)
  BY <1>4, ViewerKeeps DEF Mute
<1>5. CASE ClearCall /\ UNCHANGED <<viewer, forwarder>>
  BY <1>5, StoreKeeps
<1> QED
  BY <1>1, <1>2, <1>3, <1>4, <1>5 DEF Next

LEMMA Invariance == Spec => []IInv
  BY InitIInv, StepIInv, PTL DEF Spec

-----------------------------------------------------------------------------
(* The members of cReplayOutSPDif keep their types, and what is in the     *)
(* bounce buffer comes from the player.                                    *)
THEOREM TypeCorrect == Spec => []TypeOK
<1>1. IInv => TypeOK
  BY DEF IInv, TruthOK, PlacesOK, TypeOK
<1> QED
  BY Invariance, <1>1, PTL

(* The framer a thread holds is never fed with packets of another kind or  *)
(* Mpeg track, whatever the player switches to and whenever it clears.     *)
THEOREM KindsFit == Spec => []KindsApart
<1>1. IInv => KindsApart
  BY DEF IInv, ThreadInv, FramerInv, Holding, Fits, KindsApart
<1> QED
  BY Invariance, <1>1, PTL

(* The flags tell whether there is a thread, and the stream of the part is *)
(* the framer it holds.                                                    *)
THEOREM ThreadKnown == Spec => []ThreadIsKnown
<1>1. IInv => ThreadIsKnown
  BY DEF IInv, ThreadInv, FramerInv, Holding, None, ThreadIsKnown
<1> QED
  BY Invariance, <1>1, PTL
=============================================================================
