--------------------------- MODULE ChannelSwitch ---------------------------
(***************************************************************************)
(* Who decides which audio track is attached (class cChannelOutSPDif,      *)
(* channel.c).  The main thread of VDR reports channel switches, audio     *)
(* tracks, recordings and replays; the switching thread asks the device    *)
(* for the current track every 100 ms.  Both attach and detach the live    *)
(* stream under the lock `sw'; the switching thread holds `ctrl' except    *)
(* while it waits; Channel, Apid and the flags are read without a lock.    *)
(*                                                                         *)
(* The stream itself is module LiveStream; here it is the PID it has.      *)
(***************************************************************************)
EXTENDS Integers

CONSTANTS Channels,   \* the channels the viewer zaps to
          Toggles,    \* the setup bits the viewer changes
          None        \* NULL, 0x1FFF, or nobody

Track == {"ac3", "mp2"}
Pid == Channels \X Track

ASSUME TogglesAssumption == Toggles \subseteq {"ACTIVE", "MP2ENABLE"}
ASSUME NoneAssumption == None \notin Channels \cup Pid \cup {"main", "switcher"}

VARIABLES
  tuned, track,         \* the primary device: its channel and its current track
  replaying, transfer,  \* ... plays a recording, or is in transfer mode
  setup,                \* the shared bits ACTIVE, MP2ENABLE and CLEAR
  channel, apid, in,    \* Channel, Apid, and the PID of the attached stream
  flags,                \* RUNNING and ACTIVE of the switching thread
  sw, ctrl,             \* the owners of the locks
  pcM, live,            \* the main thread, and whether it announced a channel
  pcS, got              \* the switching thread, and the PID it found

device == <<tuned, track, replaying, transfer>>
stream == <<channel, apid, in>>
main == <<pcM, live>>
switcher == <<pcS, got>>
vars == <<device, setup, stream, flags, sw, ctrl, main, switcher>>

(* The steps of the two threads.                                           *)
MainStep == {"idle", "switch", "check", "off", "lookup", "detach", "attach", "track",
             "restart", "wake", "record", "replay", "play", "clear", "kick", "join",
             "gone", "deleted"}
ThreadStep == {"off", "start", "lock", "loop", "wait", "woken", "look", "mode", "find",
               "detach", "attach", "unlock", "inactive", "stop", "end"}

TypeOK ==
  /\ tuned \in Channels /\ track \in Track
  /\ replaying \in BOOLEAN /\ transfer \in BOOLEAN
  /\ setup \subseteq {"ACTIVE", "MP2ENABLE", "CLEAR"}
  /\ channel \in Channels \cup {None}
  /\ apid \in Pid \cup {None} /\ in \in Pid \cup {None}
  /\ flags \subseteq {"RUNNING", "ACTIVE"}
  /\ sw \in {"main", "switcher", None} /\ ctrl \in {"switcher", None}
  /\ pcM \in MainStep /\ live \in BOOLEAN
  /\ pcS \in ThreadStep /\ got \in Pid \cup {None}
  /\ sw = "main" <=> pcM = "attach"
  /\ sw = "switcher" <=> pcS = "attach"

Init ==
  /\ tuned \in Channels /\ track \in Track
  /\ replaying = FALSE /\ transfer = FALSE
  /\ setup \in {{"ACTIVE"}, {"ACTIVE", "MP2ENABLE"}}
  /\ channel = None /\ apid = None /\ in = None
  /\ flags = {} /\ sw = None /\ ctrl = None
  /\ pcM = "idle" /\ live = FALSE
  /\ pcS = "off" /\ got = None

-----------------------------------------------------------------------------
Current == <<tuned, track>>
Wanted(pid) == pid[2] = "ac3" \/ "MP2ENABLE" \in setup

DetachedKeepsApid == in' = None /\ UNCHANGED apid       \* mutant

(* AttachReceiver(false): the stream goes, and the PID only with it.       *)
Detached == /\ in' = None
            /\ apid' = IF in = None THEN apid ELSE None

(* AudioOff()                                                              *)
AudioOff == /\ sw = None
            /\ channel' = None /\ apid' = None /\ in' = None

(* mutant: attaches without a channel *)
AttachedUnchecked(pid, chan) ==
  IF replaying
  THEN UNCHANGED stream
  ELSE /\ channel' = chan /\ apid' = pid
       /\ in' = IF Wanted(pid) /\ "CLEAR" \notin setup THEN pid ELSE in

(* The second half of AudioSwitch(): attach, when the channel is known and *)
(* nothing is replayed.                                                    *)
Attached(pid, chan) ==
  IF replaying
  THEN UNCHANGED stream
  ELSE /\ channel' = chan
       /\ IF chan = None
          THEN UNCHANGED <<apid, in>>
          ELSE /\ apid' = pid
               /\ in' = IF Wanted(pid) /\ "CLEAR" \notin setup THEN pid ELSE in

(* Activate(true).  Start() does nothing while the old thread is active.   *)
Activated ==
  IF "ACTIVE" \in flags
  THEN UNCHANGED <<flags, switcher>>
  ELSE /\ flags' = flags \cup {"ACTIVE"}
       /\ pcS' = IF pcS = "off" THEN "start" ELSE pcS
       /\ UNCHANGED got

-----------------------------------------------------------------------------
(* What VDR and its viewer do, and the call VDR makes of it.               *)
At(label) == pcM = label
Goto(label) == pcM' = label /\ UNCHANGED live

ZapBegins ==
  /\ At("idle") /\ pcM' = "switch" /\ live' = FALSE
  /\ UNCHANGED <<device, setup, stream, flags, sw, ctrl, switcher>>

ZapEnds ==
  /\ At("idle") /\ pcM' = "switch" /\ live' = TRUE
  /\ tuned' \in Channels /\ track' \in Track
  /\ UNCHANGED <<replaying, transfer, setup, stream, flags, sw, ctrl, switcher>>

TrackSelected ==
  /\ At("idle") /\ Goto("track")
  /\ track' \in Track \ {track}
  /\ UNCHANGED <<tuned, replaying, transfer, setup, stream, flags, sw, ctrl, switcher>>

RecordingStarts ==
  /\ At("idle") /\ transfer /\ ~replaying /\ Goto("record")
  /\ UNCHANGED <<device, setup, stream, flags, sw, ctrl, switcher>>

ReplayStarts ==
  /\ At("idle") /\ ~replaying /\ Goto("replay")
  /\ UNCHANGED <<device, setup, stream, flags, sw, ctrl, switcher>>

ReplayStops ==
  /\ At("idle") /\ replaying
  /\ replaying' = FALSE
  /\ UNCHANGED <<tuned, track, transfer, setup, stream, flags, sw, ctrl, main, switcher>>

TransferChanges ==
  /\ At("idle")
  /\ transfer' = ~transfer
  /\ UNCHANGED <<tuned, track, replaying, setup, stream, flags, sw, ctrl, main, switcher>>

SetupChanges ==
  /\ At("idle")
  /\ \E b \in Toggles : setup' = IF b \in setup THEN setup \ {b} ELSE setup \cup {b}
  /\ UNCHANGED <<device, stream, flags, sw, ctrl, main, switcher>>

PluginStops ==
  /\ At("idle")
  /\ setup' = setup \cup {"CLEAR"}
  /\ Goto("clear")
  /\ UNCHANGED <<device, stream, flags, sw, ctrl, switcher>>

-----------------------------------------------------------------------------
(* ChannelSwitch()                                                         *)
SwitchStart ==
  /\ At("switch")
  /\ IF "ACTIVE" \notin setup
     THEN Goto("clear") /\ UNCHANGED <<flags, switcher>>
     ELSE /\ Goto("check")
          /\ IF "RUNNING" \in flags THEN UNCHANGED <<flags, switcher>> ELSE Activated
  /\ UNCHANGED <<device, setup, stream, sw, ctrl>>

SwitchCheck ==
  /\ At("check")
  /\ IF transfer \/ replaying \/ ~live
     THEN pcM' = "off" /\ live' = FALSE
     ELSE Goto(IF channel # tuned THEN "off" ELSE "lookup")
  /\ UNCHANGED <<device, setup, stream, flags, sw, ctrl, switcher>>

SwitchOff ==
  /\ At("off") /\ AudioOff
  /\ Goto(IF live THEN "lookup" ELSE "idle")
  /\ UNCHANGED <<device, setup, flags, sw, ctrl, switcher>>

(* The device may not receive the PID of the track (yet).                  *)
SwitchLookup ==
  /\ At("lookup")
  /\ Goto("detach") \/ Goto("idle")
  /\ UNCHANGED <<device, setup, stream, flags, sw, ctrl, switcher>>

SwitchDetach ==
  /\ At("detach") /\ sw = None
  /\ sw' = "main" /\ Detached
  /\ Goto("attach")
  /\ UNCHANGED <<device, setup, channel, flags, ctrl, switcher>>

SwitchAttach ==
  /\ At("attach")
  /\ Attached(Current, tuned)
  /\ sw' = None
  /\ Goto("idle")
  /\ UNCHANGED <<device, setup, flags, ctrl, switcher>>

(* SetAudioTrack()                                                         *)
TrackCheck ==
  /\ At("track")
  /\ IF channel # None /\ transfer
     THEN pcM' = "off" /\ live' = FALSE
     ELSE Goto(IF channel = None \/ "ACTIVE" \notin setup \/ apid = Current
               THEN "idle" ELSE "restart")
  /\ UNCHANGED <<device, setup, stream, flags, sw, ctrl, switcher>>

TrackRestart ==
  /\ At("restart") /\ sw = None
  /\ IF replaying
     THEN UNCHANGED <<apid, in, flags, switcher>>
     ELSE /\ Detached
          /\ IF "RUNNING" \in flags THEN UNCHANGED <<flags, switcher>> ELSE Activated
  /\ Goto("wake")
  /\ UNCHANGED <<device, setup, channel, sw, ctrl>>

TrackWake ==
  /\ At("wake") /\ ctrl = None
  /\ Goto("idle")
  /\ UNCHANGED <<device, setup, stream, flags, sw, ctrl, switcher>>

(* Recording(On) and Replaying(On).  The device replays after the report.  *)
ChannelReset ==
  /\ At("record") \/ At("replay")
  /\ sw = None
  /\ channel' = None /\ Detached
  /\ Goto(IF At("replay") THEN "play" ELSE "idle")
  /\ UNCHANGED <<device, setup, flags, sw, ctrl, switcher>>

ReplayPlays ==
  /\ At("play") /\ Goto("idle")
  /\ replaying' = TRUE
  /\ UNCHANGED <<tuned, track, transfer, setup, stream, flags, sw, ctrl, switcher>>

(* Clear(), and in it Activate(false).  Stop() deletes the object then.    *)
ClearStart ==
  /\ At("clear")
  /\ live' = FALSE
  /\ IF "RUNNING" \in flags
     THEN pcM' = "kick" /\ flags' = flags \ {"ACTIVE"}
     ELSE pcM' = "gone" /\ UNCHANGED flags
  /\ UNCHANGED <<device, setup, stream, sw, ctrl, switcher>>

ClearKick ==
  /\ At("kick") /\ ctrl = None
  /\ Goto(IF pcS # "off" /\ "RUNNING" \in flags THEN "kick" ELSE "join")
  /\ UNCHANGED <<device, setup, stream, flags, sw, ctrl, switcher>>

ClearJoin ==
  /\ At("join") /\ pcS = "off"
  /\ Goto("gone")
  /\ UNCHANGED <<device, setup, stream, flags, sw, ctrl, switcher>>

ClearOff ==
  /\ At("gone") /\ AudioOff
  /\ Goto(IF "CLEAR" \in setup THEN "deleted" ELSE "idle")
  /\ UNCHANGED <<device, setup, flags, sw, ctrl, switcher>>

Calls ==
  \/ SwitchStart \/ SwitchCheck \/ SwitchOff \/ SwitchLookup \/ SwitchDetach \/ SwitchAttach
  \/ TrackCheck \/ TrackRestart \/ TrackWake \/ ChannelReset \/ ReplayPlays
  \/ ClearStart \/ ClearKick \/ ClearJoin \/ ClearOff

-----------------------------------------------------------------------------
(* The switching thread: Action(), with AudioSwitch() in it.               *)
S(label) == pcS = label
Go(label) == pcS' = label /\ UNCHANGED got

Run ==
  /\ S("start") /\ Go("lock")
  /\ flags' = flags \cup {"RUNNING"}
  /\ UNCHANGED <<device, setup, stream, sw, ctrl, main>>

LockCtrl ==
  /\ S("lock") /\ ctrl = None
  /\ ctrl' = "switcher" /\ Go("loop")
  /\ UNCHANGED <<device, setup, stream, flags, sw, main>>

Loop ==
  /\ S("loop")
  /\ Go(IF "ACTIVE" \in flags THEN "wait" ELSE "unlock")
  /\ UNCHANGED <<device, setup, stream, flags, sw, ctrl, main>>

WaitKeepsLock == S("wait") /\ Go("woken") /\ ctrl' = ctrl     \* mutant
                 /\ UNCHANGED <<device, setup, stream, flags, sw, main>>

(* TimedWait() lets the lock go and takes it again, on a Broadcast() or    *)
(* after 100 ms.                                                           *)
Wait ==
  /\ S("wait") /\ Go("woken")
  /\ ctrl' = None
  /\ UNCHANGED <<device, setup, stream, flags, sw, main>>

Woken ==
  /\ S("woken") /\ ctrl = None
  /\ ctrl' = "switcher"
  /\ Go(CASE \/ "ACTIVE" \notin flags
             \/ "CLEAR" \in setup
             \/ "ACTIVE" \notin setup -> "unlock"
          [] OTHER -> IF replaying THEN "loop" ELSE "look")
  /\ UNCHANGED <<device, setup, stream, flags, sw, main>>

Look ==
  /\ S("look")
  /\ Go(IF channel = None THEN "loop" ELSE IF transfer THEN "mode" ELSE "find")
  /\ UNCHANGED <<device, setup, stream, flags, sw, ctrl, main>>

LookOff ==
  /\ S("mode") /\ AudioOff
  /\ Go("loop")
  /\ UNCHANGED <<device, setup, flags, sw, ctrl, main>>

(* The current track is looked up in the channel's list of PIDs.           *)
Found ==
  /\ S("find")
  /\ ~replaying /\ channel = tuned
  /\ got' = Current
  /\ pcS' = IF apid = Current THEN "loop" ELSE "detach"
  /\ UNCHANGED <<device, setup, stream, flags, sw, ctrl, main>>

(* It is not there, or the device does not receive it (yet).               *)
NotFound ==
  /\ S("find")
  /\ pcS' = "loop" /\ got' = None
  /\ UNCHANGED <<device, setup, stream, flags, sw, ctrl, main>>

AudioSwitch ==
  /\ S("detach") /\ sw = None
  /\ sw' = "switcher" /\ Detached
  /\ Go("attach")
  /\ UNCHANGED <<device, setup, channel, flags, ctrl, main>>

AudioSwitchAttach ==
  /\ S("attach")
  /\ Attached(got, channel)
  /\ sw' = None
  /\ Go("loop")
  /\ UNCHANGED <<device, setup, flags, ctrl, main>>

UnlockCtrl ==
  /\ S("unlock") /\ Go("inactive")
  /\ ctrl' = None
  /\ UNCHANGED <<device, setup, stream, flags, sw, main>>

Inactive ==
  /\ S("inactive") /\ Go("stop")
  /\ flags' = flags \ {"ACTIVE"}
  /\ UNCHANGED <<device, setup, stream, sw, ctrl, main>>

NotRunning ==
  /\ S("stop") /\ Go("end")
  /\ flags' = flags \ {"RUNNING"}
  /\ UNCHANGED <<device, setup, stream, sw, ctrl, main>>

End ==
  /\ S("end") /\ Go("off")
  /\ UNCHANGED <<device, setup, stream, flags, sw, ctrl, main>>

Waits == LockCtrl \/ Woken \/ AudioSwitch \/ LookOff
Steps ==
  \/ Run \/ Loop \/ Wait \/ Look \/ NotFound \/ AudioSwitchAttach
  \/ UnlockCtrl \/ Inactive \/ NotRunning \/ End

Viewer ==
  \/ ZapBegins \/ ZapEnds \/ TrackSelected \/ RecordingStarts \/ ReplayStarts
  \/ ReplayStops \/ TransferChanges \/ SetupChanges \/ PluginStops

Next == Viewer \/ Calls \/ Waits \/ Steps \/ Found

Spec == Init /\ [][Next]_vars

(* Threads run, and a thread that waits for a mutex gets it when it is     *)
(* free again and again: `ctrl' is free for most of every 100 ms.  Sooner  *)
(* or later the device receives the PID of the current track.  The viewer  *)
(* need not do anything.                                                   *)
FairSpec == Spec /\ SF_vars(Calls) /\ SF_vars(Waits) /\ WF_vars(Steps) /\ SF_vars(Found)

-----------------------------------------------------------------------------
(* No live stream while a recording is replayed: the replay has the card   *)
(* and the bounce buffer.  VDR reports the replay before it starts, with   *)
(* the switching thread between its tests and AudioSwitch().               *)
QuietWhileReplaying == replaying => in = None

(* No call of VDR's main thread is held up for good by the switching       *)
(* thread, nor Clear() by waiting for its end.                             *)
CallsReturn == pcM # "idle" ~> pcM \in {"idle", "deleted"}

(* Once the viewer rests on an announced channel, the attached stream is   *)
(* that of the current track and stays it, whatever stale PID the          *)
(* switching thread carried over a zap or a change of the track.  The menu *)
(* is not used: what it changes takes effect with the next channel only.   *)
Settled ==
  /\ pcM = "idle" /\ channel = tuned
  /\ ~transfer /\ ~replaying
  /\ "ACTIVE" \in setup
  /\ Wanted(Current)

Unchanged == \E bits \in {{"ACTIVE"}, {"ACTIVE", "MP2ENABLE"}} : [](setup = bits)

TrackFollowed == Unchanged /\ <>[]Settled => <>[](in = Current)
=============================================================================
