------------------------------ MODULE SpdifPlay ------------------------------
(***************************************************************************)
(* How one forwarding thread plays through an open card: Synchronize(),    *)
(* Available(), Forward(), burst(), Clear(), check() and the recovery from *)
(* underrun and suspend of class spdif (spdif.c), in the order in which    *)
(* Action() (channel.c, replay.c) calls them, against a card that plays    *)
(* what it has and runs empty, a producer that stores frames, and a viewer *)
(* who pauses.                                                             *)
(*                                                                         *)
(* The fill of the card is counted in bursts, with the buffer of ten       *)
(* bursts that AC3 has; then one tenth of the buffer, the measure of the   *)
(* thresholds, is one burst.  Time passes as the card plays.  Of the       *)
(* framer only is kept whether it has a last frame to play again.          *)
(***************************************************************************)
EXTENDS Integers

CONSTANTS
  Options,    \* [audio, vrperiod, live : BOOLEAN] the card may be opened with
  Room,       \* frames that fit into the bounce buffer
  Start,      \* start threshold of the card in bursts
  Silence,    \* bound: bursts of silence before a start
  Repeats     \* bound: repeated frames in SPDIF_REPEAT ms

Size == 10
Alarm == 1
High == 9
Upper == 7
Lower(o) == IF o.audio THEN 2 ELSE 4

StartFrames == 10
Mcnt(o) == IF o.live THEN 7 ELSE 2           \* start frames that replace payload
(* Mutant: a live start has two start frames too few.                      *)
CountShort(o) == IF Mcnt(o) < 7 THEN StartFrames ELSE Mcnt(o) + 2

Count(o) == IF Mcnt(o) < 7 THEN StartFrames ELSE Mcnt(o) + 4

ASSUME OptionsAssumption == Options \subseteq [audio : BOOLEAN, vrperiod : BOOLEAN, live : BOOLEAN]
ASSUME BoundAssumption == Room \in Nat \ {0} /\ Start \in 1..Upper /\ Silence \in Nat
                          /\ Repeats \in Nat \ {0}

VARIABLES
  opt,          \* options the card was opened with
  ctrl,         \* control bits that are set
  pcm, level,   \* state of the card, and bursts it holds
  count,        \* start frames, and silence before them, still to be sent
  fills,        \* counter of Forward() during an underrun, modulo 4
  repeated,     \* frames xrepeat() has played
  payed,        \* paysize is known
  pause,        \* there is a pause to be made up at the next start
  frames,       \* frames of the chunk that are still to be forwarded
  avail,        \* frames in the bounce buffer
  muted, wasmuted, still,   \* bits MUTE, WASMUTED, STILLPIC
  pc,
  last,         \* the framer has a last frame
  owed,         \* history: start frames the stopped card has still to get
  granted       \* history: Available() measured the card for this chunk

card == <<pcm, level>>
viewer == <<muted, still>>
vars == <<opt, ctrl, card, count, fills, repeated, payed, pause, frames, avail, viewer,
          wasmuted, pc, last, owed, granted>>

Ctrl == {"FIRST", "IO", "UNDERRUN", "NOEXSYNC", "PAUSE", "OVERRUN", "REPEAT"}

TypeOK ==
  /\ opt \in Options /\ ctrl \subseteq Ctrl
  /\ pcm \in {"prepared", "running", "xrun", "suspended"} /\ level \in 0..Size
  /\ count \in 0..16 + Silence /\ fills \in 0..3 /\ repeated \in 0..Repeats
  /\ payed \in BOOLEAN /\ pause \in BOOLEAN
  /\ frames \in 0..Room /\ avail \in 0..Room
  /\ muted \in BOOLEAN /\ wasmuted \in BOOLEAN /\ still \in BOOLEAN
  /\ pc \in {"loop", "clear", "sync", "high", "poll", "stop", "wait", "ready", "fetch",
             "frame", "start", "init", "gaps", "fill", "over", "play"}
  /\ last \in BOOLEAN /\ owed \in 0..StartFrames /\ granted \in BOOLEAN

Init ==
  /\ opt \in Options /\ ctrl = {"FIRST", "NOEXSYNC"}
  /\ pcm = "prepared" /\ level = 0
  /\ count = StartFrames /\ fills = 0 /\ repeated = 0 /\ payed = FALSE /\ pause = FALSE
  /\ frames = 0 /\ avail = 0
  /\ muted = FALSE /\ wasmuted = FALSE /\ still = FALSE
  /\ pc = "loop" /\ last = FALSE /\ owed = StartFrames /\ granted = FALSE

Goes(from, to) == pc = from /\ pc' = to

-----------------------------------------------------------------------------
(* The card plays a burst, runs empty or is suspended with the machine.    *)
CardPlays ==
  /\ pcm = "running" /\ level > 0 /\ level' = level - 1
  /\ UNCHANGED pcm

CardEmpty == pcm = "running" /\ level = 0 /\ pcm' = "xrun" /\ UNCHANGED level

CardSuspends == pcm = "running" /\ pcm' = "suspended" /\ UNCHANGED level

Card == /\ CardPlays \/ CardEmpty \/ CardSuspends
        /\ UNCHANGED <<ctrl, count, fills, repeated, payed, pause, frames, avail, viewer,
                       wasmuted, pc, last, owed, granted>>

(* The producer stores a frame, and tells that the sound is back.  The     *)
(* viewer pauses and goes on: Mute() of the replay part.                   *)
Store == ~muted /\ avail < Room /\ avail' = avail + 1 /\ wasmuted' = FALSE
         /\ UNCHANGED <<ctrl, viewer>>

Mute ==
  /\ ~muted /\ muted' = TRUE /\ still' \in BOOLEAN
  /\ ctrl' = ctrl \cup {"PAUSE"} /\ avail' = 0
  /\ UNCHANGED wasmuted

Unmute == muted /\ muted' = FALSE /\ still' = FALSE /\ UNCHANGED <<ctrl, avail, wasmuted>>

Vdr == /\ Store \/ Mute \/ Unmute
       /\ UNCHANGED <<card, count, fills, repeated, payed, pause, frames, pc, last,
                      owed, granted>>

-----------------------------------------------------------------------------
(* Every stop of the card prepares it, sets FIRST and clears the framer.   *)
(* A card that has not started yet keeps what it was given.  The history   *)
(* excuses the frame in hand when the card runs empty beneath it: what is  *)
(* left of a start clears FIRST although burst() has set it anew.          *)
Beneath == pc \in {"init", "gaps", "fill", "over", "play"}

Restart(bits) ==
  /\ pcm' = "prepared" /\ level' = IF pcm = "prepared" THEN level ELSE 0
  /\ ctrl' = bits \cup {"FIRST"} /\ last' = FALSE
  /\ owed' = IF Beneath THEN 0 ELSE StartFrames

(* check(): grades the fill and sets the bits for it.  With FIRST set the  *)
(* grade is LOW and nothing changes; a card that ran empty is restarted.   *)
Grade == IF "FIRST" \in ctrl \/ pcm = "xrun" \/ level < Alarm THEN "low"
         ELSE IF level > High THEN "high" ELSE "ok"

(* Mutant: check() does not take the last grade back.                      *)
MeasuredOnce == (ctrl \ {b \in {"UNDERRUN"} : level > Upper})
                \cup {b \in {"UNDERRUN"} : level <= Lower(opt)}
                \cup {b \in {"OVERRUN"} : level > High}

Measured == (ctrl \ ({"OVERRUN"} \cup {b \in {"UNDERRUN"} : level > Upper}))
            \cup {b \in {"UNDERRUN"} : level <= Lower(opt)}
            \cup {b \in {"OVERRUN"} : level > High}

Unchecked == UNCHANGED <<card, last, owed>>

Check ==
  \/ "FIRST" \in ctrl /\ UNCHANGED ctrl /\ Unchecked
  \/ "FIRST" \notin ctrl /\ pcm = "xrun" /\ Restart(ctrl)
  \/ "FIRST" \notin ctrl /\ pcm # "xrun" /\ ctrl' = Measured /\ Unchecked

(* burst(): a card that was suspended is resumed, which empties it, and    *)
(* one that ran empty is restarted and the burst is lost; else it waits    *)
(* for room.  The card starts to play at its start threshold.              *)
Lost == pcm = "xrun"

Written(what) ==
  LET had == IF pcm = "suspended" THEN 0 ELSE level IN
  /\ ~Lost /\ had < Size
  /\ level' = had + 1
  /\ pcm' = IF pcm = "running" \/ level' >= Start THEN "running" ELSE "prepared"
  /\ owed' = IF what = "start" /\ owed > 0 THEN owed - 1 ELSE owed

Burst(what, bits) ==
  \/ Written(what) /\ ctrl' = bits /\ UNCHANGED last
  \/ Lost /\ Restart(bits)

-----------------------------------------------------------------------------
(* Action(): a mute clears the card once, then it synchronises, and looks  *)
(* again whether it was muted meanwhile.                                   *)
Loop == /\ Goes("loop", IF muted /\ ~wasmuted THEN "clear"
                        ELSE IF "FIRST" \in ctrl THEN "wait" ELSE "sync")
        /\ wasmuted' = (wasmuted \/ muted)
        /\ ctrl' = ctrl \ {b \in {"NOEXSYNC"} : pc' = "sync"}
        /\ UNCHANGED <<card, pause, avail, still, last, owed>>

Ready == /\ Goes("ready", IF ~muted THEN "fetch" ELSE IF wasmuted THEN "loop" ELSE "clear")
         /\ wasmuted' = (wasmuted \/ muted)
         /\ UNCHANGED <<ctrl, card, pause, avail, still, last, owed>>

(* Clear(false) with the flush after it: PAUSE is set before anything      *)
(* else; a still picture of a replay turns what the card has not played    *)
(* into the pause.                                                         *)
ClearStopped ==
  /\ "FIRST" \in ctrl /\ ctrl' = ctrl \cup {"PAUSE"} /\ last' = FALSE
  /\ UNCHANGED <<card, pause, still, owed>>

(* Mutant: PAUSE is set for a card that has stopped only.                  *)
ClearSilently ==
  /\ "FIRST" \notin ctrl /\ Restart(ctrl)
  /\ LET kept == pcm = "running" /\ still /\ ~opt.live IN
       /\ pause' = IF kept THEN level > 0 ELSE pause
       /\ still' = (still /\ ~kept)

ClearPlaying ==
  /\ "FIRST" \notin ctrl /\ Restart(ctrl \cup {"PAUSE"})
  /\ LET kept == pcm = "running" /\ still /\ ~opt.live IN
       /\ pause' = IF kept THEN level > 0 ELSE pause
       /\ still' = (still /\ ~kept)

Clear == /\ Goes("clear", "loop") /\ (ClearStopped \/ ClearPlaying)
         /\ avail' = 0 /\ UNCHANGED wasmuted

(* Synchronize() on a card that plays: it sleeps on the bounce buffer as   *)
(* long as the card has something to play.                                 *)
SyncPlaying ==
  /\ pcm = "running" /\ Check
  /\ Goes("sync", CASE Grade = "high" -> "high" [] Grade = "ok" -> "poll" [] OTHER -> "stop")

(* Mutant: a suspended card is left as it is.                              *)
SyncXrun == pcm \in {"xrun", "prepared"} /\ Restart(ctrl) /\ Goes("sync", "wait")

SyncStopped == pcm # "running" /\ Restart(ctrl) /\ Goes("sync", "wait")

(* snd_pcm_wait() and a second check().                                    *)
SyncHigh ==
  /\ pcm # "running" \/ level <= High
  /\ Check /\ Goes("high", IF level > 0 /\ pcm # "xrun" THEN "poll" ELSE "stop")

PollReady == avail > 0 /\ Goes("poll", "ready") /\ UNCHANGED ctrl /\ Unchecked

PollStops ==
  /\ avail = 0 /\ (level < 3 \/ "REPEAT" \in ctrl)
  /\ Goes("poll", "stop") /\ UNCHANGED ctrl /\ Unchecked

SyncStop == Goes("stop", "wait") /\ Restart(ctrl)

(* The wait for data: 30 ms during a pause, else 2.7 s.                    *)
WaitReady == (avail > 0 \/ "PAUSE" \in ctrl) /\ Goes("wait", "ready")
             /\ UNCHANGED ctrl /\ Unchecked

WaitTimeout == avail = 0 /\ "PAUSE" \notin ctrl /\ Goes("wait", "loop")
               /\ UNCHANGED ctrl /\ Unchecked

(* With two periods left and no data the last frame is played again, for   *)
(* at most SPDIF_REPEAT ms.                                                *)
PollRepeats ==
  /\ avail = 0 /\ ("REPEAT" \notin ctrl \/ repeated < Repeats)
  /\ repeated' = IF "REPEAT" \in ctrl THEN repeated + 1 ELSE 1
  /\ Goes("poll", "sync")
  /\ \/ last /\ Burst("repeat", ctrl \cup {"REPEAT"})
     \/ ~last /\ ctrl' = ctrl \cup {"REPEAT"} /\ Unchecked

Polling ==
  \/ PollRepeats
  \/ /\ \/ SyncPlaying \/ SyncStopped \/ SyncHigh \/ PollReady \/ PollStops \/ SyncStop
        \/ WaitReady \/ WaitTimeout
     /\ UNCHANGED repeated

Synchronize ==
  /\ \/ (Loop \/ Ready \/ Clear) /\ UNCHANGED repeated
     \/ Polling /\ UNCHANGED <<pause, avail, still, wasmuted>>
  /\ UNCHANGED <<count, fills, payed, frames, muted, granted>>

-----------------------------------------------------------------------------
(* Available() and the fetch: whole frames that leave three bursts of room *)
(* on a card that was measured, any number before the first start, and a   *)
(* few bytes, which make up at most one frame, when there is no room.      *)
(* Mutant: the room is not measured.                                       *)
GrantBlindly == CASE "FIRST" \in ctrl' -> IF payed THEN Size - 3 ELSE Room
                  [] "FIRST" \notin ctrl' /\ payed /\ Grade # "high" -> Size - 3
                  [] OTHER -> 0

Grant == CASE "FIRST" \in ctrl' -> IF payed THEN Size - 3 ELSE Room
           [] "FIRST" \notin ctrl' /\ payed /\ Grade # "high" -> Size - level - 3
           [] OTHER -> 0

AtMost(a, b) == IF a < b THEN a ELSE b

Fetch ==
  /\ Goes("fetch", "frame")
  /\ IF payed THEN Check ELSE UNCHANGED <<ctrl, card, last, owed>>
  /\ granted' = (payed /\ "FIRST" \notin ctrl' /\ Grade # "high")
  /\ frames' \in (IF Grant > 0 THEN {AtMost(avail, Grant)} ELSE 0..AtMost(avail, 1))
  /\ avail' = avail - frames'
  /\ UNCHANGED <<count, fills, payed, pause>>

(* Forward(): one turn of its loop reads a frame and checks the card.      *)
FrameNone ==
  /\ frames = 0 /\ Goes("frame", "loop")
  /\ ctrl' = ctrl \ {"IO"}
  /\ UNCHANGED <<card, count, fills, payed, pause, frames, last, owed>>

Frame ==
  /\ frames > 0 /\ frames' = frames - 1
  /\ LET checked == ctrl \cap {"NOEXSYNC", "IO"} # {}
         starts == "FIRST" \in ctrl \/ (checked /\ pcm = "xrun")
     IN /\ Goes("frame", IF starts THEN "start" ELSE "gaps")
        /\ IF checked /\ pcm = "xrun" /\ "FIRST" \notin ctrl
             THEN Restart(ctrl \cup {"IO"})
             ELSE /\ ctrl' = (IF checked /\ ~starts THEN Measured ELSE ctrl) \cup {"IO"}
                  /\ last' = TRUE /\ UNCHANGED <<card, owed>>
  /\ UNCHANGED <<count, fills, payed, pause>>

(* A start.  The clocks are not in step yet: the frame is dropped.  Else   *)
(* the offset and the pause are made up by silence, and start frames go    *)
(* out.  check() answers LOW as long as FIRST is set.                      *)
StartWaits ==
  /\ Goes("start", "frame")
  /\ UNCHANGED <<ctrl, card, count, fills, payed, pause, frames, last, owed>>

StartSilence ==
  /\ Goes("start", "init")
  /\ pause' = (pause /\ "PAUSE" \notin ctrl) /\ ctrl' = ctrl \ {"PAUSE"}
  /\ count' \in Count(opt)..Count(opt) + Silence /\ last' = TRUE
  /\ owed' = StartFrames /\ granted' = FALSE
  /\ UNCHANGED <<card, fills, payed, frames>>

(* The bursts above the count of the start are silent ones.                *)
InitBurst ==
  /\ Goes("init", "init") /\ count > Mcnt(opt)
  /\ count' = count - 1
  /\ Burst(IF count > Count(opt) THEN "silent" ELSE "start", ctrl)
  /\ UNCHANGED <<fills, payed, pause, frames>>

Started ==
  /\ Goes("init", "gaps") /\ count = Mcnt(opt)
  /\ ctrl' = ctrl \ {"FIRST", "UNDERRUN"}
  /\ count' = (IF opt.audio THEN count + 5 ELSE count) /\ fills' = 0
  /\ UNCHANGED <<card, payed, pause, frames, last, owed>>

(* A card that runs low gets every fourth burst twice, or is stopped to    *)
(* fill up; one that is full makes the frame wait, or drop when the bounce *)
(* buffer is full too.  FIRST, PAUSE and REPEAT end here.                  *)
Plays == ctrl \ {"PAUSE", "REPEAT"}

GapsNone ==
  /\ ctrl \cap {"UNDERRUN", "OVERRUN"} = {} /\ Goes("gaps", "play")
  /\ ctrl' = Plays
  /\ UNCHANGED <<card, count, fills, payed, pause, frames, last, owed>>

(* Mutant: the counter of the repeats does not wrap.                       *)
GapsCount ==
  /\ "UNDERRUN" \in ctrl /\ opt.vrperiod
  /\ fills' = fills + 1 /\ Goes("gaps", "play")
  /\ ctrl' = Plays
  /\ UNCHANGED <<card, count, payed, pause, frames, last, owed>>

GapsRepeat ==
  /\ "UNDERRUN" \in ctrl /\ opt.vrperiod
  /\ fills' = (fills + 1) % 4
  /\ IF fills' = 0
       THEN Goes("gaps", "fill") /\ last' = (last \/ opt.audio)
       ELSE Goes("gaps", "play") /\ UNCHANGED <<last>>
  /\ ctrl' = Plays
  /\ UNCHANGED <<card, count, payed, pause, frames, owed>>

Fill ==
  /\ Goes("fill", "play")
  /\ Burst("fill", ctrl)
  /\ UNCHANGED <<count, fills, payed, pause, frames>>

GapsStop ==
  /\ "UNDERRUN" \in ctrl /\ ~opt.vrperiod /\ Goes("gaps", "play")
  /\ pcm' = "prepared" /\ level' = 0
  /\ ctrl' = Plays \ {"UNDERRUN"}
  /\ UNCHANGED <<count, fills, payed, pause, frames, last, owed>>

GapsFull ==
  /\ "UNDERRUN" \notin ctrl /\ "OVERRUN" \in ctrl
  /\ Goes("gaps", "over") /\ Check
  /\ UNCHANGED <<count, fills, payed, pause, frames>>

OverSkips ==
  /\ avail > Room - 2 /\ Goes("over", "frame")
  /\ UNCHANGED <<ctrl, card, count, fills, payed, pause, frames, last, owed>>

OverWaits ==
  /\ avail <= Room - 2 /\ (level < Size \/ pcm # "running") /\ Goes("over", "play")
  /\ ctrl' = Plays
  /\ UNCHANGED <<card, count, fills, payed, pause, frames, last, owed>>

(* The frame goes out; after a start some are replaced by start frames.    *)
PlayStart ==
  /\ count > 0 /\ count' = count - 1 /\ Goes("play", "frame")
  /\ Burst("start", ctrl)
  /\ payed' = TRUE
  /\ UNCHANGED <<fills, pause, frames>>

PlayFrame ==
  /\ count = 0 /\ Goes("play", "frame")
  /\ Burst("frame", ctrl)
  /\ payed' = TRUE
  /\ UNCHANGED <<count, fills, pause, frames>>

Forward ==
  \/ StartSilence
  \/ /\ \/ FrameNone \/ Frame \/ StartWaits \/ InitBurst \/ Started \/ GapsNone \/ GapsRepeat
        \/ Fill \/ GapsStop \/ GapsFull \/ OverSkips \/ OverWaits \/ PlayStart \/ PlayFrame
     /\ UNCHANGED granted

Forwarding == \/ Forward /\ UNCHANGED <<avail, viewer, wasmuted, repeated>>
              \/ Fetch /\ UNCHANGED <<viewer, wasmuted, repeated>>

-----------------------------------------------------------------------------
Thread == Synchronize \/ Forwarding

Next == (Card \/ Vdr \/ Thread) /\ UNCHANGED opt

Step(A) == A /\ UNCHANGED opt

(* The thread is scheduled, the card plays, the producer goes on, and the  *)
(* clocks get in step.  Nothing is asked of the viewer.                    *)
Fairness ==
  /\ WF_vars(Step(Thread)) /\ WF_vars(Step(Card /\ level' < level))
  /\ WF_vars(Step(Vdr /\ avail' > avail))
  /\ SF_vars(Step(Forwarding /\ pc = "start" /\ pc' = "init"))

Spec == Init /\ [][Next]_vars
FairSpec == Spec /\ Fairness

-----------------------------------------------------------------------------
(* The card is never taken for low and full at once, whatever the order of *)
(* the checks, the restarts and the starts that change one of the bits;    *)
(* and the state is what TypeOK says.                                      *)
LowOrFull == TypeOK /\ ~({"UNDERRUN", "OVERRUN"} \subseteq ctrl)

(* "avoid to block burst() by overrun the sound cards buffer"              *)
(* (spdif.c:1284): what Available() grants on a card it has measured fits, *)
(* with the bursts that are played twice.                                  *)
BurstFits == granted /\ pc \in {"fill", "play"} => level < Size

(* A pause that has to be made up is not lost: until the next start uses   *)
(* it, PAUSE and FIRST stay set, through further mutes and timeouts.       *)
PauseKept == pause => {"PAUSE", "FIRST"} \subseteq ctrl

(* "At least 10 start frames should go around for nonlinear PCM"           *)
(* (spdif.c:392): a stopped card gets as many before it plays a frame,     *)
(* through waits, mutes and restarts.  A card that runs empty within the   *)
(* start itself is the exception: the start goes on and clears FIRST.      *)
TenStartFrames == pc = "play" /\ count = 0 => owed = 0

(* When the viewer goes on after a pause, or the card ran empty, the sound *)
(* comes back, unless the card plays faster than the thread and runs empty *)
(* over and over between two steps of one frame.                           *)
InTime == ~muted /\ ~(Beneath /\ pcm = "xrun")

SoundReturns == <>[]InTime => []<>(pc = "play")
=============================================================================
