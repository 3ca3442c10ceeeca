--------------------------- MODULE SpdifPlayProofs ---------------------------
(***************************************************************************)
(* Proofs about module SpdifPlay, for any options of the card, any size of *)
(* the bounce buffer, any start threshold up to Upper and any bounds.      *)
(***************************************************************************)
EXTENDS SpdifPlay, TLAPS

(* The types: truth values, and all others.                                *)
TruthOK ==
  /\ payed \in BOOLEAN /\ pause \in BOOLEAN /\ last \in BOOLEAN /\ granted \in BOOLEAN
  /\ muted \in BOOLEAN /\ wasmuted \in BOOLEAN /\ still \in BOOLEAN
PlacesOK ==
  /\ opt \in Options /\ ctrl \subseteq Ctrl
  /\ pcm \in {"prepared", "running", "xrun", "suspended"}
  /\ pc \in {"loop", "clear", "sync", "high", "poll", "stop", "wait", "ready", "fetch",
             "frame", "start", "init", "gaps", "fill", "over", "play"}
NumbersOK ==
  /\ level \in 0..Size /\ count \in 0..16 + Silence /\ fills \in 0..3
  /\ repeated \in 0..Repeats /\ frames \in 0..Room /\ avail \in 0..Room
  /\ owed \in 0..StartFrames

(* The bits check() sets for the fill exclude each other.                  *)
MarksInv == ~({"UNDERRUN", "OVERRUN"} \subseteq ctrl)

(* A pause that has to be made up: within a frame that is played none is.  *)
PauseInv == pause => {"PAUSE", "FIRST"} \subseteq ctrl /\ ~Beneath

(* What a started card has to get is among the start frames that are       *)
(* counted.  While FIRST is set nothing is known: the count is a new one.  *)
OwedInv == "FIRST" \notin ctrl \/ Beneath => owed <= count

(* The bursts that n frames make up when every fourth is played twice.  A  *)
(* chunk that Available() has granted leaves one burst of the room, or is  *)
(* one frame, which is not played twice as the card is not low.            *)
Needs(n) == n + IF fills + n < 4 THEN 0 ELSE IF fills + n < 8 THEN 1 ELSE 2
OneMore == level < Size /\ "UNDERRUN" \notin ctrl
RoomInv ==
  granted =>
    /\ pc # "init"
    /\ pc \in {"frame", "start"} =>
         frames = 0 \/ level + Needs(frames) < Size \/ (frames = 1 /\ OneMore)
    /\ pc \in {"gaps", "over"} =>
         level + Needs(frames + 1) < Size \/ (frames = 0 /\ OneMore)
    /\ pc = "fill" => level + 2 + Needs(frames) < Size
    /\ pc = "play" => level + 1 + Needs(frames) < Size \/ (frames = 0 /\ level < Size)

IInv == TruthOK /\ PlacesOK /\ NumbersOK /\ MarksInv /\ PauseInv /\ OwedInv /\ RoomInv

-----------------------------------------------------------------------------
(* What each part of the program leaves alone.                             *)
CardOnly == UNCHANGED <<ctrl, count, fills, repeated, payed, pause, frames, avail, viewer,
                        wasmuted, pc, last, owed, granted, opt>>
VdrOnly == UNCHANGED <<card, count, fills, repeated, payed, pause, frames, pc, last, owed,
                       granted, opt>>
MuteOnly == UNCHANGED <<count, fills, payed, frames, muted, granted, repeated, opt>>
PollOnly == UNCHANGED <<count, fills, payed, frames, muted, granted, pause, avail, still,
                        wasmuted, opt>>
WaitOnly == PollOnly /\ UNCHANGED repeated
FetchOnly == UNCHANGED <<viewer, wasmuted, repeated, opt>>
StartOnly == FetchOnly /\ UNCHANGED avail
PlayOnly == StartOnly /\ UNCHANGED granted

(* What a restart, check() and burst() do, whatever the state of the card. *)
Restarted(bits) ==
  /\ ctrl' = bits \cup {"FIRST"} /\ ctrl' \subseteq Ctrl
  /\ pcm' = "prepared" /\ level' \in 0..level /\ last' = FALSE
  /\ owed' \in 0..StartFrames /\ (Beneath => owed' = 0)

Checked ==
  /\ ctrl' \subseteq Ctrl /\ MarksInv' /\ ctrl \ {"UNDERRUN", "OVERRUN"} \subseteq ctrl'
  /\ pcm' \in {"prepared", "running", "xrun", "suspended"} /\ level' \in 0..level
  /\ last' \in {last, FALSE} /\ owed' \in 0..StartFrames
  /\ "FIRST" \in ctrl' \/ owed' = owed
  /\ Beneath => owed' \in {owed, 0}
NotLow == "UNDERRUN" \in ctrl' => "UNDERRUN" \in ctrl \/ level <= 4

Sent(bits, left) ==
  /\ ctrl' \in {bits, bits \cup {"FIRST"}} /\ ctrl' \subseteq Ctrl
  /\ pcm' \in {"prepared", "running", "xrun", "suspended"}
  /\ level' \in 0..Size /\ level' <= level + 1
  /\ last' \in {last, FALSE} /\ owed' \in 0..StartFrames
  /\ \/ ctrl' = bits \cup {"FIRST"} /\ (Beneath => owed' = 0)
     \/ ctrl' = bits /\ owed' = left

LEMMA RestartDoes ==
  ASSUME IInv, NEW bits \in SUBSET Ctrl, Restart(bits)
  PROVE  Restarted(bits)
  BY DEF IInv, NumbersOK, Restarted, Restart, Ctrl, StartFrames, Size, Beneath

LEMMA CheckDoes ==
  ASSUME IInv, Check
  PROVE  Checked /\ NotLow
<1>1. /\ ctrl \in SUBSET Ctrl /\ pcm \in {"prepared", "running", "xrun", "suspended"} /\ level \in 0..Size
      /\ owed \in 0..StartFrames /\ MarksInv
  BY DEF IInv, PlacesOK, NumbersOK
<1>2. CASE UNCHANGED ctrl /\ Unchecked
  BY <1>1, <1>2 DEF Checked, NotLow, Unchecked, card, MarksInv, Size
<1>3. CASE Restart(ctrl)
  <2>1. Restarted(ctrl)
    BY <1>1, <1>3, RestartDoes
  <2> QED
    BY <1>1, <2>1 DEF Restarted, Checked, NotLow, MarksInv
<1>4. CASE ctrl' = Measured /\ Unchecked
  <2>1. ("OVERRUN" \in ctrl' <=> level > High)
        /\ ("UNDERRUN" \in ctrl' => level <= Lower(opt) \/ ("UNDERRUN" \in ctrl /\ ~(level > Upper)))
    BY <1>4 DEF Measured
  <2>2. ctrl' \subseteq ctrl \cup {"UNDERRUN", "OVERRUN"}
    BY <1>4, Zenon DEF Measured
  <2>3. ctrl \ {"UNDERRUN", "OVERRUN"} \subseteq ctrl'
    BY <1>4, Zenon DEF Measured
  <2>4. Lower(opt) \in {2, 4}
    BY DEF Lower
  <2>5. MarksInv' /\ ("UNDERRUN" \in ctrl' => "UNDERRUN" \in ctrl \/ level <= 4)
    BY <1>1, <2>1, <2>4 DEF MarksInv, High, Upper, Size
  <2>6. ctrl' \subseteq Ctrl
    BY <1>1, <2>2 DEF Ctrl
  <2> QED
    BY <1>1, <1>4, <2>3, <2>5, <2>6 DEF Checked, NotLow, Unchecked, card, Size
<1> QED
  BY <1>2, <1>3, <1>4 DEF Check

LEMMA BurstDoes ==
  ASSUME IInv, NEW what, NEW bits \in SUBSET Ctrl, Burst(what, bits)
  PROVE  Sent(bits, IF what = "start" /\ owed > 0 THEN owed - 1 ELSE owed)
<1> USE DEF IInv, PlacesOK, NumbersOK
<1>1. CASE Lost /\ Restart(bits)
  <2>1. Restarted(bits)
    BY <1>1, RestartDoes
  <2>2. level' \in 0..Size /\ level' <= level + 1
    BY <2>1 DEF Restarted, Size
  <2> QED
    BY <2>1, <2>2 DEF Restarted, Sent
<1>2. CASE Written(what) /\ ctrl' = bits /\ UNCHANGED last
  BY <1>2 DEF Sent, Written, Size, StartFrames
<1> QED
  BY <1>1, <1>2 DEF Burst

(* The card only loses bursts.                                             *)
LEMMA CardKeeps ==
  /\ IInv /\ (CardPlays \/ CardEmpty \/ CardSuspends)
  /\ CardOnly
  => IInv'
<1> USE BoundAssumption
    DEF IInv, PlacesOK, NumbersOK, MarksInv, PauseInv, OwedInv, RoomInv, Needs, OneMore,
        Beneath, Goes, Size, StartFrames, card, viewer, CardOnly
<1>1. ASSUME IInv, CardPlays, CardOnly PROVE IInv'
  <2>1. TruthOK'
    BY <1>1, Zenon DEF TruthOK, CardPlays
  <2> QED
    BY <1>1, <2>1 DEF CardPlays
<1>2. ASSUME IInv, CardEmpty, CardOnly PROVE IInv'
  <2>1. TruthOK'
    BY <1>2, Zenon DEF TruthOK, CardEmpty
  <2> QED
    BY <1>2, <2>1 DEF CardEmpty
<1>3. ASSUME IInv, CardSuspends, CardOnly PROVE IInv'
  <2>1. TruthOK'
    BY <1>3, Zenon DEF TruthOK, CardSuspends
  <2> QED
    BY <1>3, <2>1 DEF CardSuspends
<1> QED
  BY <1>1, <1>2, <1>3

(* The producer and the viewer.                                            *)
LEMMA VdrKeeps ==
  /\ IInv /\ (Store \/ Mute \/ Unmute)
  /\ VdrOnly
  => IInv'
<1> USE BoundAssumption
    DEF IInv, PlacesOK, NumbersOK, MarksInv, PauseInv, OwedInv, RoomInv, Needs, OneMore,
        Beneath, Goes, Size, StartFrames, card, viewer, VdrOnly
<1>1. ASSUME IInv, Store, VdrOnly PROVE IInv'
  <2>1. TruthOK'
    BY <1>1, Zenon DEF TruthOK, Store
  <2> QED
    BY <1>1, <2>1 DEF Store
<1>2. ASSUME IInv, Mute, VdrOnly PROVE IInv'
  <2>1. TruthOK'
    BY <1>2, Zenon DEF TruthOK, Mute, Ctrl
  <2> QED
    BY <1>2, <2>1 DEF Mute, Ctrl
<1>3. ASSUME IInv, Unmute, VdrOnly PROVE IInv'
  <2>1. TruthOK'
    BY <1>3, Zenon DEF TruthOK, Unmute
  <2> QED
    BY <1>3, <2>1 DEF Unmute
<1> QED
  BY <1>1, <1>2, <1>3

(* Mutes are seen and clear the card.                                      *)
LEMMA LoopKeeps ==
  /\ IInv /\ (Loop \/ Ready \/ Clear)
  /\ MuteOnly
  => IInv'
<1> USE BoundAssumption
    DEF IInv, PlacesOK, NumbersOK, MarksInv, PauseInv, OwedInv, RoomInv, Needs, OneMore,
        Beneath, Goes, Size, StartFrames, card, viewer, MuteOnly
<1>1. ASSUME IInv, Loop, MuteOnly PROVE IInv'
  <2>1. TruthOK'
    BY <1>1, Zenon DEF TruthOK, Loop
  <2> QED
    BY <1>1, <2>1 DEF Loop
<1>2. ASSUME IInv, Ready, MuteOnly PROVE IInv'
  <2>1. TruthOK'
    BY <1>2, Zenon DEF TruthOK, Ready
  <2> QED
    BY <1>2, <2>1 DEF Ready
<1>3. ASSUME IInv, Clear, MuteOnly PROVE IInv'
  <2>1. ctrl \in SUBSET Ctrl /\ ctrl \cup {"PAUSE"} \in SUBSET Ctrl
    BY <1>3 DEF Ctrl
  <2>2. /\ pause' \in BOOLEAN /\ still' \in BOOLEAN /\ last' = FALSE
        /\ ctrl' = ctrl \cup {"PAUSE", "FIRST"} /\ ctrl' \subseteq Ctrl
        /\ pcm' \in {"prepared", pcm} /\ level' \in 0..level /\ owed' \in 0..StartFrames
    <3>1. CASE ClearStopped
      BY <1>3, <3>1, <2>1 DEF ClearStopped, TruthOK
    <3>2. CASE ClearPlaying
      <4>1. Restarted(ctrl \cup {"PAUSE"})
        BY <1>3, <3>2, <2>1, RestartDoes DEF ClearPlaying
      <4>2. pause' \in BOOLEAN /\ still' \in BOOLEAN
        BY <1>3, <3>2 DEF ClearPlaying, TruthOK
      <4> QED
        BY <4>1, <4>2 DEF Restarted
    <3> QED
      BY <1>3, <3>1, <3>2 DEF Clear
  <2>3. /\ avail' = 0 /\ pc = "clear" /\ pc' = "loop"
        /\ UNCHANGED <<wasmuted, count, fills, payed, frames, muted, granted, repeated, opt>>
    BY <1>3 DEF Clear
  <2>4. TruthOK'
    BY <1>3, <2>2, <2>3, Zenon DEF TruthOK
  <2>5. PlacesOK' /\ NumbersOK'
    BY <1>3, <2>2, <2>3
  <2>6. MarksInv' /\ PauseInv' /\ OwedInv' /\ RoomInv'
    BY <1>3, <2>2, <2>3
  <2> QED
    BY <2>4, <2>5, <2>6
<1> QED
  BY <1>1, <1>2, <1>3

(* Synchronize(): as long as the thread waits nothing is granted a place.  *)
LEMMA PollingKeeps ==
  /\ IInv /\ Polling
  /\ PollOnly
  => IInv'
<1> USE BoundAssumption
    DEF IInv, PlacesOK, NumbersOK, MarksInv, PauseInv, OwedInv, RoomInv, Needs, OneMore,
        Beneath, Goes, Size, StartFrames, card, viewer, PollOnly, WaitOnly
<1>1. ASSUME IInv, SyncPlaying, WaitOnly PROVE IInv'
  <2>0. Checked /\ NotLow
    BY <1>1, CheckDoes DEF SyncPlaying
  <2>1. TruthOK'
    BY <1>1, <2>0, Zenon DEF TruthOK, SyncPlaying, Checked, NotLow
  <2> QED
    BY <1>1, <2>0, <2>1 DEF SyncPlaying, Checked, NotLow
<1>2. ASSUME IInv, SyncStopped, WaitOnly PROVE IInv'
  <2>0. Restarted(ctrl)
    BY <1>2, RestartDoes DEF SyncStopped, Ctrl
  <2>1. TruthOK'
    BY <1>2, <2>0, Zenon DEF TruthOK, SyncStopped, Restarted
  <2> QED
    BY <1>2, <2>0, <2>1 DEF SyncStopped, Restarted
<1>3. ASSUME IInv, SyncHigh, WaitOnly PROVE IInv'
  <2>0. Checked /\ NotLow
    BY <1>3, CheckDoes DEF SyncHigh
  <2>1. TruthOK'
    BY <1>3, <2>0, Zenon DEF TruthOK, SyncHigh, Checked, NotLow
  <2> QED
    BY <1>3, <2>0, <2>1 DEF SyncHigh, Checked, NotLow
<1>4. ASSUME IInv, PollReady, WaitOnly PROVE IInv'
  <2>1. TruthOK'
    BY <1>4, Zenon DEF TruthOK, PollReady, Unchecked
  <2> QED
    BY <1>4, <2>1 DEF PollReady, Unchecked
<1>5. ASSUME IInv, PollStops, WaitOnly PROVE IInv'
  <2>1. TruthOK'
    BY <1>5, Zenon DEF TruthOK, PollStops, Unchecked
  <2> QED
    BY <1>5, <2>1 DEF PollStops, Unchecked
<1>6. ASSUME IInv, SyncStop, WaitOnly PROVE IInv'
  <2>0. Restarted(ctrl)
    BY <1>6, RestartDoes DEF SyncStop, Ctrl
  <2>1. TruthOK'
    BY <1>6, <2>0, Zenon DEF TruthOK, SyncStop, Restarted
  <2> QED
    BY <1>6, <2>0, <2>1 DEF SyncStop, Restarted
<1>7. ASSUME IInv, WaitReady, WaitOnly PROVE IInv'
  <2>1. TruthOK'
    BY <1>7, Zenon DEF TruthOK, WaitReady, Unchecked
  <2> QED
    BY <1>7, <2>1 DEF WaitReady, Unchecked
<1>8. ASSUME IInv, WaitTimeout, WaitOnly PROVE IInv'
  <2>1. TruthOK'
    BY <1>8, Zenon DEF TruthOK, WaitTimeout, Unchecked
  <2> QED
    BY <1>8, <2>1 DEF WaitTimeout, Unchecked
<1>9. ASSUME IInv, PollRepeats, PollOnly PROVE IInv'
  <2>0. /\ ctrl' \in {ctrl \cup {"REPEAT"}, ctrl \cup {"REPEAT", "FIRST"}} /\ ctrl' \subseteq Ctrl
        /\ pcm' \in {"prepared", "running", "xrun", "suspended"}
        /\ level' \in 0..Size /\ last' \in {last, FALSE} /\ owed' \in 0..StartFrames
        /\ "FIRST" \in ctrl' \/ owed' = owed
    <3>1. CASE Burst("repeat", ctrl \cup {"REPEAT"})
      <4>1. ctrl \cup {"REPEAT"} \in SUBSET Ctrl
        BY <1>9 DEF Ctrl
      <4>2. Sent(ctrl \cup {"REPEAT"}, IF "repeat" = "start" /\ owed > 0 THEN owed - 1 ELSE owed)
        BY <1>9, <3>1, <4>1, BurstDoes
      <4>3. Sent(ctrl \cup {"REPEAT"}, owed)
        BY <4>2
      <4> QED
        BY <4>3 DEF Sent
    <3>2. CASE ctrl' = ctrl \cup {"REPEAT"} /\ Unchecked
      BY <1>9, <3>2 DEF Unchecked, Ctrl
    <3> QED
      BY <1>9, <3>1, <3>2 DEF PollRepeats
  <2>1. TruthOK'
    BY <1>9, <2>0, Zenon DEF TruthOK
  <2>2. PlacesOK' /\ NumbersOK'
    BY <1>9, <2>0 DEF PollRepeats
  <2>3. MarksInv' /\ PauseInv'
    BY <1>9, <2>0 DEF PollRepeats
  <2>4. OwedInv' /\ RoomInv'
    BY <1>9, <2>0 DEF PollRepeats
  <2> QED
    BY <2>1, <2>2, <2>3, <2>4
<1> QED
  BY <1>1, <1>2, <1>3, <1>4, <1>5, <1>6, <1>7, <1>8, <1>9 DEF Polling

LEMMA WhatIsLeft ==
  ASSUME NEW r \in Nat, NEW a \in 0..r, NEW f \in 0..a
  PROVE  a - f \in 0..r
  OBVIOUS

(* Available(): a card that was measured is given what fits.               *)
LEMMA FetchKeeps == IInv /\ Fetch /\ FetchOnly => IInv'
<1> USE BoundAssumption
    DEF IInv, PlacesOK, NumbersOK, MarksInv, PauseInv, OwedInv, RoomInv, Needs, OneMore,
        Beneath, Goes, Size, StartFrames, card, viewer, FetchOnly
<1>0. SUFFICES ASSUME IInv, Fetch, FetchOnly PROVE IInv'
  OBVIOUS
<1>1. Checked
  <2>1. CASE payed
    BY <1>0, <2>1, CheckDoes DEF Fetch
  <2>2. CASE ~payed
    <3>1. UNCHANGED <<ctrl, pcm, level, last, owed>>
      BY <1>0, <2>2 DEF Fetch
    <3> QED
      BY <1>0, <3>1 DEF Checked
  <2> QED
    BY <1>0, <2>1, <2>2 DEF TruthOK
<1>2. frames' \in 0..avail /\ (Grant > 0 => frames' <= Grant) /\ (~(Grant > 0) => frames' <= 1)
  BY <1>0 DEF Fetch, AtMost, Grant
<1>3. granted' => /\ payed /\ "FIRST" \notin ctrl' /\ "FIRST" \notin ctrl /\ level' = level /\ level <= High
                  /\ ctrl' = Measured
  <2>0. SUFFICES ASSUME granted' PROVE /\ payed /\ "FIRST" \notin ctrl' /\ "FIRST" \notin ctrl
                                     /\ level' = level /\ level <= High /\ ctrl' = Measured
    OBVIOUS
  <2>1. payed /\ "FIRST" \notin ctrl' /\ Grade # "high" /\ Check
    BY <1>0, <2>0 DEF Fetch
  <2>2. "FIRST" \notin ctrl /\ ~Restart(ctrl)
    BY <2>1 DEF Check, Restart
  <2>3. pcm # "xrun" /\ ctrl' = Measured /\ level' = level
    BY <2>1, <2>2 DEF Check, Unchecked
  <2> QED
    BY <1>0, <2>1, <2>2, <2>3 DEF Grade, High, Alarm
<1>4. granted' => level' + Needs(frames)' < Size \/ frames' = 0 \/ (frames' = 1 /\ OneMore')
  BY <1>0, <1>1, <1>2, <1>3 DEF Checked, Grant, Grade, Measured, High, Upper, Lower, Fetch
<1>5. TruthOK'
  BY <1>0, <1>1, Zenon DEF Checked, TruthOK, Fetch
<1>6. PlacesOK' /\ NumbersOK'
  <2>1. avail' = avail - frames' /\ pc' = "frame" /\ UNCHANGED <<opt, count, fills, repeated>>
    BY <1>0 DEF Fetch
  <2>2. avail' \in 0..Room /\ frames' \in 0..Room
    <3>1. Room \in Nat /\ avail \in 0..Room /\ frames' \in 0..avail
      BY <1>0, <1>2
    <3>2. avail - frames' \in 0..Room
      BY <3>1, WhatIsLeft, Zenon
    <3>3. frames' \in 0..Room
      BY <3>1
    <3> QED
      BY <2>1, <3>2, <3>3, Zenon
  <2>3. level' \in 0..Size
    BY <1>0, <1>1 DEF Checked
  <2>4. PlacesOK'
    BY <1>0, <1>1, <2>1 DEF Checked
  <2> QED
    BY <1>0, <1>1, <2>1, <2>2, <2>3, <2>4 DEF Checked
<1>7. PauseInv' /\ OwedInv'
  BY <1>0, <1>1 DEF Checked, Fetch
<1>8. RoomInv'
  BY <1>0, <1>4 DEF Fetch
<1> QED
  BY <1>1, <1>5, <1>6, <1>7, <1>8 DEF Checked

(* Forward(): a frame is read, and a start is played.                      *)
LEMMA StartKeeps ==
  /\ IInv
  /\ \/ StartSilence
     \/ (FrameNone \/ Frame \/ StartWaits \/ InitBurst \/ Started) /\ UNCHANGED granted
  /\ StartOnly
  => IInv'
<1> USE BoundAssumption
    DEF IInv, PlacesOK, NumbersOK, MarksInv, PauseInv, OwedInv, RoomInv, Needs, OneMore,
        Beneath, Goes, Size, StartFrames, card, viewer, FetchOnly, StartOnly, PlayOnly
<1>1. ASSUME IInv, StartSilence, StartOnly PROVE IInv'
  <2>1. TruthOK'
    BY <1>1, Zenon DEF TruthOK, StartSilence, Count, Mcnt
  <2>2. PlacesOK' /\ NumbersOK'
    BY <1>1 DEF StartSilence, Count, Mcnt
  <2>3. MarksInv' /\ PauseInv'
    BY <1>1 DEF StartSilence, Count, Mcnt
  <2>4. OwedInv'
    BY <1>1 DEF StartSilence, Count, Mcnt
  <2>5. RoomInv'
    BY <1>1 DEF StartSilence, Count, Mcnt
  <2> QED
    BY <2>1, <2>2, <2>3, <2>4, <2>5
<1>2. ASSUME IInv, FrameNone, PlayOnly PROVE IInv'
  <2>1. TruthOK'
    BY <1>2, Zenon DEF TruthOK, FrameNone
  <2> QED
    BY <1>2, <2>1 DEF FrameNone
<1>3. ASSUME IInv, Frame, PlayOnly PROVE IInv'
  <2>1. TruthOK'
    BY <1>3, Zenon DEF TruthOK, Frame, Restart, Measured, Lower, High, Upper, Ctrl
  <2>2. PlacesOK' /\ NumbersOK'
    <3>1. ctrl \cup {"IO"} \in SUBSET Ctrl /\ Measured \cup {"IO"} \in SUBSET Ctrl
      BY <1>3 DEF Measured, Ctrl
    <3>2. /\ ctrl' \in SUBSET Ctrl /\ level' \in 0..level /\ pcm' \in {"prepared", pcm}
          /\ owed' \in 0..StartFrames
      <4>1. CASE Restart(ctrl \cup {"IO"})
        BY <1>3, <3>1, <4>1, RestartDoes DEF Restarted
      <4>2. CASE ctrl' \in {Measured \cup {"IO"}, ctrl \cup {"IO"}} /\ UNCHANGED <<card, owed>>
        BY <1>3, <3>1, <4>2
      <4> QED
        BY <1>3, <4>1, <4>2 DEF Frame
    <3>3. frames' \in 0..Room /\ pc' \in {"start", "gaps"} /\ UNCHANGED <<opt, count, fills, repeated, avail>>
      BY <1>3 DEF Frame
    <3> QED
      BY <1>3, <3>2, <3>3
  <2>3. MarksInv' /\ PauseInv'
    BY <1>3 DEF Frame, Restart, Measured, Lower, High, Upper, Ctrl
  <2>4. OwedInv'
    BY <1>3 DEF Frame, Restart, Measured, Lower, High, Upper, Ctrl
  <2>5. RoomInv'
    BY <1>3 DEF Frame, Restart, Measured, Lower, High, Upper, Ctrl
  <2> QED
    BY <2>1, <2>2, <2>3, <2>4, <2>5
<1>4. ASSUME IInv, StartWaits, PlayOnly PROVE IInv'
  <2>1. TruthOK'
    BY <1>4, Zenon DEF TruthOK, StartWaits
  <2> QED
    BY <1>4, <2>1 DEF StartWaits
<1>5. ASSUME IInv, InitBurst, PlayOnly PROVE IInv'
  <2>0. Sent(ctrl, IF count <= Count(opt) /\ owed > 0 THEN owed - 1 ELSE owed)
    <3>1. CASE count <= Count(opt)
      <4>1. Burst("start", ctrl)
        BY <1>5, <3>1 DEF InitBurst, Count, Mcnt
      <4> QED
        BY <1>5, <3>1, <4>1, BurstDoes
    <3>2. CASE ~(count <= Count(opt))
      <4>1. Burst("silent", ctrl)
        BY <1>5, <3>2 DEF InitBurst, Count, Mcnt
      <4> QED
        BY <1>5, <3>2, <4>1, BurstDoes
    <3> QED
      BY <3>1, <3>2
  <2>1. TruthOK'
    BY <1>5, <2>0, Zenon DEF TruthOK, InitBurst, Count, Mcnt, Sent
  <2> QED
    BY <1>5, <2>0, <2>1 DEF InitBurst, Count, Mcnt, Sent
<1>6. ASSUME IInv, Started, PlayOnly PROVE IInv'
  <2>1. TruthOK'
    BY <1>6, Zenon DEF TruthOK, Started, Mcnt
  <2> QED
    BY <1>6, <2>1 DEF Started, Mcnt
<1> QED
  BY <1>1, <1>2, <1>3, <1>4, <1>5, <1>6

(* The gaps are filled, and the frame goes out.                            *)
LEMMA GapsKeep ==
  /\ IInv
  /\ \/ GapsNone \/ GapsRepeat \/ Fill \/ GapsStop \/ GapsFull \/ OverSkips \/ OverWaits
     \/ PlayStart \/ PlayFrame
  /\ PlayOnly
  => IInv'
<1> USE BoundAssumption
    DEF IInv, PlacesOK, NumbersOK, MarksInv, PauseInv, OwedInv, RoomInv, Needs, OneMore,
        Beneath, Goes, Size, StartFrames, card, viewer, FetchOnly, StartOnly, PlayOnly
<1>1. ASSUME IInv, GapsNone, PlayOnly PROVE IInv'
  <2>1. TruthOK'
    BY <1>1, Zenon DEF TruthOK, GapsNone, Plays
  <2> QED
    BY <1>1, <2>1 DEF GapsNone, Plays
<1>2. ASSUME IInv, GapsRepeat, PlayOnly PROVE IInv'
  <2>1. TruthOK'
    BY <1>2, Zenon DEF TruthOK, GapsRepeat, Plays
  <2> QED
    BY <1>2, <2>1 DEF GapsRepeat, Plays
<1>3. ASSUME IInv, Fill, PlayOnly PROVE IInv'
  <2>0. Sent(ctrl, owed)
    BY <1>3, BurstDoes DEF Fill, Ctrl
  <2>1. TruthOK'
    BY <1>3, <2>0, Zenon DEF TruthOK, Fill, Sent
  <2>2. PlacesOK' /\ NumbersOK'
    BY <1>3, <2>0 DEF Fill, Sent
  <2>3. MarksInv' /\ PauseInv'
    BY <1>3, <2>0 DEF Fill, Sent
  <2>4. OwedInv'
    BY <1>3, <2>0 DEF Fill, Sent
  <2>5. RoomInv'
    <3> HIDE DEF Needs
    <3>1. pc = "fill" /\ pc' = "play" /\ UNCHANGED <<frames, fills, granted>>
      BY <1>3 DEF Fill
    <3>2. level' \in 0..Size /\ level' <= level + 1 /\ level \in 0..Size
      BY <1>3, <2>0 DEF Sent
    <3>3. Needs(frames)' = Needs(frames) /\ Needs(frames) \in Nat
      BY <1>3, <3>1 DEF Needs
    <3>4. granted => level + 2 + Needs(frames) < Size
      BY <1>3, <3>1
    <3>5. granted' => level' + 1 + Needs(frames)' < Size
      BY <3>1, <3>2, <3>3, <3>4
    <3> QED
      BY <3>1, <3>5
  <2> QED
    BY <2>1, <2>2, <2>3, <2>4, <2>5
<1>4. ASSUME IInv, GapsStop, PlayOnly PROVE IInv'
  <2>1. TruthOK'
    BY <1>4, Zenon DEF TruthOK, GapsStop, Plays
  <2> QED
    BY <1>4, <2>1 DEF GapsStop, Plays
<1>5. ASSUME IInv, GapsFull, PlayOnly PROVE IInv'
  <2>0. Checked /\ NotLow
    BY <1>5, CheckDoes DEF GapsFull
  <2>1. TruthOK'
    BY <1>5, <2>0, Zenon DEF TruthOK, GapsFull, Checked, NotLow
  <2>2. PlacesOK' /\ NumbersOK'
    BY <1>5, <2>0 DEF GapsFull, Checked, NotLow
  <2>3. MarksInv' /\ PauseInv'
    BY <1>5, <2>0 DEF GapsFull, Checked, NotLow
  <2>4. OwedInv'
    BY <1>5, <2>0 DEF GapsFull, Checked, NotLow
  <2>5. RoomInv'
    <3> HIDE DEF Needs
    <3>1. /\ pc = "gaps" /\ pc' = "over" /\ "UNDERRUN" \notin ctrl
          /\ UNCHANGED <<frames, fills, granted>>
      BY <1>5 DEF GapsFull
    <3>2. level' \in 0..level /\ ("UNDERRUN" \in ctrl' => level <= 4) /\ level \in 0..Size
      BY <1>5, <2>0, <3>1 DEF Checked, NotLow
    <3>3. /\ Needs(frames + 1)' = Needs(frames + 1) /\ Needs(frames + 1) \in Nat
          /\ frames = 0 => Needs(frames + 1) <= 2
      BY <1>5, <3>1 DEF Needs
    <3>4. granted => level + Needs(frames + 1) < Size \/ (frames = 0 /\ level < Size)
      BY <1>5, <3>1
    <3>5. granted' => level' + Needs(frames + 1)' < Size \/ (frames' = 0 /\ OneMore')
      BY <3>1, <3>2, <3>3, <3>4
    <3> QED
      BY <3>1, <3>5
  <2> QED
    BY <2>1, <2>2, <2>3, <2>4, <2>5
<1>6. ASSUME IInv, OverSkips, PlayOnly PROVE IInv'
  <2>1. TruthOK'
    BY <1>6, Zenon DEF TruthOK, OverSkips
  <2> QED
    BY <1>6, <2>1 DEF OverSkips
<1>7. ASSUME IInv, OverWaits, PlayOnly PROVE IInv'
  <2>1. TruthOK'
    BY <1>7, Zenon DEF TruthOK, OverWaits, Plays
  <2> QED
    BY <1>7, <2>1 DEF OverWaits, Plays
<1>8. ASSUME IInv, PlayStart, PlayOnly PROVE IInv'
  <2>0. Sent(ctrl, IF owed > 0 THEN owed - 1 ELSE owed)
    BY <1>8, BurstDoes DEF PlayStart, Ctrl
  <2>1. TruthOK'
    BY <1>8, <2>0, Zenon DEF TruthOK, PlayStart, Sent
  <2>2. PlacesOK' /\ NumbersOK'
    BY <1>8, <2>0 DEF PlayStart, Sent
  <2>3. MarksInv' /\ PauseInv'
    BY <1>8, <2>0 DEF PlayStart, Sent
  <2>4. OwedInv'
    BY <1>8, <2>0 DEF PlayStart, Sent
  <2>5. RoomInv'
    <3> HIDE DEF Needs
    <3>1. pc = "play" /\ pc' = "frame" /\ UNCHANGED <<frames, fills, granted>>
      BY <1>8 DEF PlayStart
    <3>2. level' \in 0..Size /\ level' <= level + 1 /\ level \in 0..Size
      BY <1>8, <2>0 DEF Sent
    <3>3. Needs(frames)' = Needs(frames) /\ Needs(frames) \in Nat
      BY <1>8, <3>1 DEF Needs
    <3>4. granted => frames = 0 \/ level + 1 + Needs(frames) < Size
      BY <1>8, <3>1
    <3>5. granted' => frames' = 0 \/ level' + Needs(frames)' < Size
      BY <3>1, <3>2, <3>3, <3>4
    <3> QED
      BY <3>1, <3>5
  <2> QED
    BY <2>1, <2>2, <2>3, <2>4, <2>5
<1>9. ASSUME IInv, PlayFrame, PlayOnly PROVE IInv'
  <2>0. Sent(ctrl, owed)
    BY <1>9, BurstDoes DEF PlayFrame, Ctrl
  <2>1. TruthOK'
    BY <1>9, <2>0, Zenon DEF TruthOK, PlayFrame, Sent
  <2>2. PlacesOK' /\ NumbersOK'
    BY <1>9, <2>0 DEF PlayFrame, Sent
  <2>3. MarksInv' /\ PauseInv'
    BY <1>9, <2>0 DEF PlayFrame, Sent
  <2>4. OwedInv'
    BY <1>9, <2>0 DEF PlayFrame, Sent
  <2>5. RoomInv'
    <3> HIDE DEF Needs
    <3>1. pc = "play" /\ pc' = "frame" /\ UNCHANGED <<frames, fills, granted>>
      BY <1>9 DEF PlayFrame
    <3>2. level' \in 0..Size /\ level' <= level + 1 /\ level \in 0..Size
      BY <1>9, <2>0 DEF Sent
    <3>3. Needs(frames)' = Needs(frames) /\ Needs(frames) \in Nat
      BY <1>9, <3>1 DEF Needs
    <3>4. granted => frames = 0 \/ level + 1 + Needs(frames) < Size
      BY <1>9, <3>1
    <3>5. granted' => frames' = 0 \/ level' + Needs(frames)' < Size
      BY <3>1, <3>2, <3>3, <3>4
    <3> QED
      BY <3>1, <3>5
  <2> QED
    BY <2>1, <2>2, <2>3, <2>4, <2>5
<1> QED
  BY <1>1, <1>2, <1>3, <1>4, <1>5, <1>6, <1>7, <1>8, <1>9

LEMMA InitIInv == Init => IInv
<1> SUFFICES ASSUME Init PROVE IInv
  OBVIOUS
<1>1. TruthOK
  BY Zenon DEF Init, TruthOK
<1>2. PlacesOK /\ NumbersOK
  BY OptionsAssumption, BoundAssumption
  DEF Init, PlacesOK, NumbersOK, Ctrl, Size, StartFrames
<1> QED
  BY <1>1, <1>2 DEF Init, IInv, MarksInv, PauseInv, OwedInv, RoomInv, Beneath

LEMMA StepIInv == IInv /\ [Next]_vars => IInv'
<1> SUFFICES ASSUME IInv, [Next]_vars PROVE IInv'
  OBVIOUS
<1>1. CASE UNCHANGED vars
  BY <1>1 DEF IInv, TruthOK, PlacesOK, NumbersOK, MarksInv, PauseInv, OwedInv, RoomInv,
     Needs, OneMore, Beneath, vars, card, viewer
<1>2. CASE Card /\ UNCHANGED opt
  BY <1>2, CardKeeps DEF Card, CardOnly
<1>3. CASE Vdr /\ UNCHANGED opt
  BY <1>3, VdrKeeps DEF Vdr, VdrOnly
<1>4. CASE Synchronize /\ UNCHANGED opt
  BY <1>4, LoopKeeps, PollingKeeps DEF Synchronize, MuteOnly, PollOnly
<1>5. CASE Forwarding /\ UNCHANGED opt
  BY <1>5, FetchKeeps, StartKeeps, GapsKeep DEF Forwarding, Forward, FetchOnly,
     StartOnly, PlayOnly
<1> QED
  BY <1>1, <1>2, <1>3, <1>4, <1>5 DEF Next, Thread

LEMMA Invariance == Spec => []IInv
  BY InitIInv, StepIInv, PTL DEF Spec
-----------------------------------------------------------------------------
(* The card is never taken for low and full at once, and the variables     *)
(* keep their types: none of them runs out of its range.                   *)
THEOREM LowNotFull == Spec => []LowOrFull
<1>1. IInv => LowOrFull
  BY DEF IInv, TruthOK, PlacesOK, NumbersOK, MarksInv, TypeOK, LowOrFull
<1> QED
  BY Invariance, <1>1, PTL

(* What Available() grants on a card it has measured fits, with the bursts *)
(* that are played twice.                                                  *)
THEOREM GrantFits == Spec => []BurstFits
<1>1. IInv => BurstFits
  BY DEF IInv, NumbersOK, RoomInv, Needs, Size, BurstFits
<1> QED
  BY Invariance, <1>1, PTL

(* A pause that has to be made up is kept until the next start uses it.    *)
THEOREM PauseIsKept == Spec => []PauseKept
<1>1. IInv => PauseKept
  BY DEF IInv, PauseInv, PauseKept
<1> QED
  BY Invariance, <1>1, PTL

(* A stopped card gets ten start frames before it plays a frame, unless it *)
(* ran empty within the start.                                             *)
THEOREM TenFirst == Spec => []TenStartFrames
<1>1. IInv => TenStartFrames
  BY DEF IInv, NumbersOK, OwedInv, Beneath, StartFrames, TenStartFrames
<1> QED
  BY Invariance, <1>1, PTL
=============================================================================
