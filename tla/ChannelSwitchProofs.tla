------------------------ MODULE ChannelSwitchProofs ------------------------
(***************************************************************************)
(* Proofs about module ChannelSwitch, for any set of channels: the types,  *)
(* and that no live stream is attached while a recording is replayed.      *)
(***************************************************************************)
EXTENDS ChannelSwitch, TLAPS

(* A replay is reported before it starts.  From the report on there is     *)
(* neither a stream nor a channel to attach one for, and during the replay *)
(* the main thread is nowhere in the part of ChannelSwitch() that sets the *)
(* channel; the switching thread attaches for the channel it finds.        *)
Nothing == channel = None /\ in = None

ReplayInv ==
  /\ pcM = "play" => Nothing
  /\ replaying => Nothing
  /\ replaying => pcM \notin {"lookup", "detach", "attach"}
  /\ replaying => ~(pcM = "off" /\ live)

IInv == TypeOK /\ ReplayInv

(* The variables of the device and the setup, the stream, and the flags.   *)
DeviceOK ==
  /\ tuned \in Channels /\ track \in Track
  /\ replaying \in BOOLEAN /\ transfer \in BOOLEAN
  /\ setup \subseteq {"ACTIVE", "MP2ENABLE", "CLEAR"}
StreamOK ==
  /\ channel \in Channels \cup {None}
  /\ apid \in Pid \cup {None} /\ in \in Pid \cup {None}
FlagsOK == flags \subseteq {"RUNNING", "ACTIVE"}

LEMMA Parts == TypeOK => DeviceOK /\ StreamOK /\ FlagsOK
  BY DEF TypeOK, DeviceOK, StreamOK, FlagsOK

LEMMA DeviceStays == DeviceOK /\ UNCHANGED <<device, setup>> => DeviceOK'
  BY DEF DeviceOK, device

(* A step of the main thread outside the part it holds `sw' in.            *)
LEMMA MainMoves ==
  ASSUME TypeOK, DeviceOK', FlagsOK', UNCHANGED <<stream, sw, ctrl, switcher>>,
         pcM # "attach", pcM' \in MainStep \ {"attach"}, live' \in BOOLEAN
  PROVE  TypeOK'
  BY NoneAssumption DEF TypeOK, DeviceOK, FlagsOK, stream, switcher

(* A step of the switching thread outside the part it holds `sw' in.       *)
LEMMA ThreadMoves ==
  ASSUME TypeOK, FlagsOK', UNCHANGED <<device, setup, stream, sw, main>>,
         ctrl' \in {"switcher", None}, got' \in Pid \cup {None},
         pcS # "attach", pcS' \in ThreadStep \ {"attach"}
  PROVE  TypeOK'
  BY NoneAssumption DEF TypeOK, FlagsOK, device, stream, main

(* A step that detaches or attaches the stream.                            *)
LEMMA StreamMoves ==
  ASSUME TypeOK, StreamOK', FlagsOK', UNCHANGED <<device, setup, ctrl>>,
         sw' \in {"main", "switcher", None},
         pcM' \in MainStep, live' \in BOOLEAN, pcS' \in ThreadStep, got' = got,
         sw' = "main" <=> pcM' = "attach", sw' = "switcher" <=> pcS' = "attach"
  PROVE  TypeOK'
  BY NoneAssumption DEF TypeOK, StreamOK, FlagsOK, device

LEMMA OffTyped == AudioOff => StreamOK'
  BY DEF AudioOff, StreamOK

LEMMA DetachTyped == StreamOK /\ Detached => apid' \in Pid \cup {None} /\ in' = None
  BY DEF StreamOK, Detached

LEMMA AttachTyped ==
  ASSUME StreamOK, NEW pid \in Pid \cup {None}, NEW chan \in Channels \cup {None},
         Attached(pid, chan)
  PROVE  StreamOK'
  BY DEF StreamOK, Attached, stream

LEMMA CurrentTyped == DeviceOK => Current \in Pid
  BY DEF DeviceOK, Current, Pid

LEMMA InitIInv == Init => IInv
<1> SUFFICES ASSUME Init PROVE IInv
  OBVIOUS
<1>1. TypeOK
  BY NoneAssumption DEF Init, TypeOK, MainStep, ThreadStep
<1>2. ReplayInv
  BY DEF Init, ReplayInv
<1> QED
  BY <1>1, <1>2 DEF IInv

LEMMA ViewerTyped == TypeOK /\ Viewer => TypeOK'
<1> SUFFICES ASSUME TypeOK, Viewer PROVE TypeOK'
  OBVIOUS
<1>p. DeviceOK /\ StreamOK /\ FlagsOK /\ live \in BOOLEAN /\ (sw = "main" <=> pcM = "attach")
  BY Parts DEF TypeOK
<1>1. CASE At("idle") /\ UNCHANGED <<stream, flags, sw, ctrl, switcher>> /\ DeviceOK'
           /\ pcM' \in {"idle", "switch", "track", "record", "replay", "clear"}
           /\ live' \in BOOLEAN
  <2>1. pcM # "attach" /\ pcM' \in MainStep \ {"attach"}
    BY <1>1 DEF At, MainStep
  <2>2. FlagsOK'
    BY <1>1, <1>p DEF FlagsOK
  <2> QED
    BY <1>1, <2>1, <2>2, MainMoves
<1>2. CASE ZapBegins
  <2>1. DeviceOK'
    BY <1>2, <1>p DEF ZapBegins, DeviceOK, device
  <2>2. live' \in BOOLEAN
    BY <1>2, <1>p DEF ZapBegins, Goto, main
  <2> QED
    BY <1>1, <1>2, <2>1, <2>2 DEF ZapBegins, Goto, At, main
<1>3. CASE ZapEnds
  <2>1. DeviceOK'
    BY <1>3, <1>p DEF ZapEnds, DeviceOK, device
  <2>2. live' \in BOOLEAN
    BY <1>3, <1>p DEF ZapEnds, Goto, main
  <2> QED
    BY <1>1, <1>3, <2>1, <2>2 DEF ZapEnds, Goto, At, main
<1>4. CASE TrackSelected
  <2>1. DeviceOK'
    BY <1>4, <1>p DEF TrackSelected, DeviceOK, device
  <2>2. live' \in BOOLEAN
    BY <1>4, <1>p DEF TrackSelected, Goto, main
  <2> QED
    BY <1>1, <1>4, <2>1, <2>2 DEF TrackSelected, Goto, At, main
<1>5. CASE RecordingStarts
  <2>1. DeviceOK'
    BY <1>5, <1>p DEF RecordingStarts, DeviceOK, device
  <2>2. live' \in BOOLEAN
    BY <1>5, <1>p DEF RecordingStarts, Goto, main
  <2> QED
    BY <1>1, <1>5, <2>1, <2>2 DEF RecordingStarts, Goto, At, main
<1>6. CASE ReplayStarts
  <2>1. DeviceOK'
    BY <1>6, <1>p DEF ReplayStarts, DeviceOK, device
  <2>2. live' \in BOOLEAN
    BY <1>6, <1>p DEF ReplayStarts, Goto, main
  <2> QED
    BY <1>1, <1>6, <2>1, <2>2 DEF ReplayStarts, Goto, At, main
<1>7. CASE ReplayStops
  <2>1. DeviceOK'
    BY <1>7, <1>p DEF ReplayStops, DeviceOK, device
  <2>2. live' \in BOOLEAN
    BY <1>7, <1>p DEF ReplayStops, Goto, main
  <2> QED
    BY <1>1, <1>7, <2>1, <2>2 DEF ReplayStops, Goto, At, main
<1>8. CASE TransferChanges
  <2>1. DeviceOK'
    BY <1>8, <1>p DEF TransferChanges, DeviceOK, device
  <2>2. live' \in BOOLEAN
    BY <1>8, <1>p DEF TransferChanges, Goto, main
  <2> QED
    BY <1>1, <1>8, <2>1, <2>2 DEF TransferChanges, Goto, At, main
<1>9. CASE SetupChanges
  <2>1. DeviceOK'
    BY <1>9, <1>p, TogglesAssumption DEF SetupChanges, DeviceOK, device
  <2>2. live' \in BOOLEAN
    BY <1>9, <1>p DEF SetupChanges, Goto, main
  <2> QED
    BY <1>1, <1>9, <2>1, <2>2 DEF SetupChanges, Goto, At, main
<1>10. CASE PluginStops
  <2>1. DeviceOK'
    BY <1>10, <1>p DEF PluginStops, DeviceOK, device
  <2>2. live' \in BOOLEAN
    BY <1>10, <1>p DEF PluginStops, Goto, main
  <2> QED
    BY <1>1, <1>10, <2>1, <2>2 DEF PluginStops, Goto, At, main
<1> QED
  BY <1>2, <1>3, <1>4, <1>5, <1>6, <1>7, <1>8, <1>9, <1>10 DEF Viewer

LEMMA CallsTyped == TypeOK /\ Calls => TypeOK'
<1> SUFFICES ASSUME TypeOK, Calls PROVE TypeOK'
  OBVIOUS
<1>p. /\ DeviceOK /\ StreamOK /\ FlagsOK /\ live \in BOOLEAN
      /\ pcM \in MainStep /\ pcS \in ThreadStep
      /\ sw = "main" <=> pcM = "attach"
      /\ sw = "switcher" <=> pcS = "attach"
  BY Parts DEF TypeOK
<1>a. Activated => FlagsOK' /\ got' = got /\ pcS' \in ThreadStep
                   /\ (pcS' = "attach" <=> pcS = "attach")
  BY <1>p DEF Activated, FlagsOK, ThreadStep, switcher
<1>1. CASE SwitchCheck
  <2>1. pcM = "check" /\ pcM' \in {"off", "lookup"} /\ UNCHANGED <<stream, sw, ctrl, switcher>>
    BY <1>1 DEF SwitchCheck, At, Goto
  <2>2. pcM # "attach" /\ pcM' \in MainStep \ {"attach"}
    BY <2>1 DEF MainStep
  <2>3. live' \in BOOLEAN
    BY <1>1, <1>p DEF SwitchCheck, Goto
  <2>4. DeviceOK'
    BY <1>1, <1>p DEF SwitchCheck, DeviceOK, device
  <2>5. FlagsOK'
    BY <1>1, <1>p DEF SwitchCheck, FlagsOK
  <2> QED
    BY <2>1, <2>2, <2>3, <2>4, <2>5, MainMoves
<1>2. CASE SwitchLookup
  <2>1. pcM = "lookup" /\ pcM' \in {"detach", "idle"} /\ UNCHANGED <<stream, sw, ctrl, switcher>>
    BY <1>2 DEF SwitchLookup, At, Goto
  <2>2. pcM # "attach" /\ pcM' \in MainStep \ {"attach"}
    BY <2>1 DEF MainStep
  <2>3. live' \in BOOLEAN
    BY <1>2, <1>p DEF SwitchLookup, Goto
  <2>4. DeviceOK'
    BY <1>2, <1>p DEF SwitchLookup, DeviceOK, device
  <2>5. FlagsOK'
    BY <1>2, <1>p DEF SwitchLookup, FlagsOK
  <2> QED
    BY <2>1, <2>2, <2>3, <2>4, <2>5, MainMoves
<1>3. CASE TrackCheck
  <2>1. pcM = "track" /\ pcM' \in {"off", "idle", "restart"} /\ UNCHANGED <<stream, sw, ctrl, switcher>>
    BY <1>3 DEF TrackCheck, At, Goto
  <2>2. pcM # "attach" /\ pcM' \in MainStep \ {"attach"}
    BY <2>1 DEF MainStep
  <2>3. live' \in BOOLEAN
    BY <1>3, <1>p DEF TrackCheck, Goto
  <2>4. DeviceOK'
    BY <1>3, <1>p DEF TrackCheck, DeviceOK, device
  <2>5. FlagsOK'
    BY <1>3, <1>p DEF TrackCheck, FlagsOK
  <2> QED
    BY <2>1, <2>2, <2>3, <2>4, <2>5, MainMoves
<1>4. CASE TrackWake
  <2>1. pcM = "wake" /\ pcM' \in {"idle"} /\ UNCHANGED <<stream, sw, ctrl, switcher>>
    BY <1>4 DEF TrackWake, At, Goto
  <2>2. pcM # "attach" /\ pcM' \in MainStep \ {"attach"}
    BY <2>1 DEF MainStep
  <2>3. live' \in BOOLEAN
    BY <1>4, <1>p DEF TrackWake, Goto
  <2>4. DeviceOK'
    BY <1>4, <1>p DEF TrackWake, DeviceOK, device
  <2>5. FlagsOK'
    BY <1>4, <1>p DEF TrackWake, FlagsOK
  <2> QED
    BY <2>1, <2>2, <2>3, <2>4, <2>5, MainMoves
<1>5. CASE ReplayPlays
  <2>1. pcM = "play" /\ pcM' \in {"idle"} /\ UNCHANGED <<stream, sw, ctrl, switcher>>
    BY <1>5 DEF ReplayPlays, At, Goto
  <2>2. pcM # "attach" /\ pcM' \in MainStep \ {"attach"}
    BY <2>1 DEF MainStep
  <2>3. live' \in BOOLEAN
    BY <1>5, <1>p DEF ReplayPlays, Goto
  <2>4. DeviceOK'
    BY <1>5, <1>p DEF ReplayPlays, DeviceOK, device
  <2>5. FlagsOK'
    BY <1>5, <1>p DEF ReplayPlays, FlagsOK
  <2> QED
    BY <2>1, <2>2, <2>3, <2>4, <2>5, MainMoves
<1>6. CASE ClearStart
  <2>1. pcM = "clear" /\ pcM' \in {"kick", "gone"} /\ UNCHANGED <<stream, sw, ctrl, switcher>>
    BY <1>6 DEF ClearStart, At, Goto
  <2>2. pcM # "attach" /\ pcM' \in MainStep \ {"attach"}
    BY <2>1 DEF MainStep
  <2>3. live' \in BOOLEAN
    BY <1>6, <1>p DEF ClearStart, Goto
  <2>4. DeviceOK'
    BY <1>6, <1>p DEF ClearStart, DeviceOK, device
  <2>5. FlagsOK'
    BY <1>6, <1>p DEF ClearStart, FlagsOK
  <2> QED
    BY <2>1, <2>2, <2>3, <2>4, <2>5, MainMoves
<1>7. CASE ClearKick
  <2>1. pcM = "kick" /\ pcM' \in {"kick", "join"} /\ UNCHANGED <<stream, sw, ctrl, switcher>>
    BY <1>7 DEF ClearKick, At, Goto
  <2>2. pcM # "attach" /\ pcM' \in MainStep \ {"attach"}
    BY <2>1 DEF MainStep
  <2>3. live' \in BOOLEAN
    BY <1>7, <1>p DEF ClearKick, Goto
  <2>4. DeviceOK'
    BY <1>7, <1>p DEF ClearKick, DeviceOK, device
  <2>5. FlagsOK'
    BY <1>7, <1>p DEF ClearKick, FlagsOK
  <2> QED
    BY <2>1, <2>2, <2>3, <2>4, <2>5, MainMoves
<1>8. CASE ClearJoin
  <2>1. pcM = "join" /\ pcM' \in {"gone"} /\ UNCHANGED <<stream, sw, ctrl, switcher>>
    BY <1>8 DEF ClearJoin, At, Goto
  <2>2. pcM # "attach" /\ pcM' \in MainStep \ {"attach"}
    BY <2>1 DEF MainStep
  <2>3. live' \in BOOLEAN
    BY <1>8, <1>p DEF ClearJoin, Goto
  <2>4. DeviceOK'
    BY <1>8, <1>p DEF ClearJoin, DeviceOK, device
  <2>5. FlagsOK'
    BY <1>8, <1>p DEF ClearJoin, FlagsOK
  <2> QED
    BY <2>1, <2>2, <2>3, <2>4, <2>5, MainMoves
<1>9. CASE SwitchStart
  <2>1. /\ UNCHANGED <<device, setup, stream, sw, ctrl, live>>
        /\ pcM = "switch" /\ pcM' \in {"check", "clear"}
    BY <1>9 DEF SwitchStart, At, Goto
  <2>2. FlagsOK' /\ got' = got /\ pcS' \in ThreadStep /\ (pcS' = "attach" <=> pcS = "attach")
    <3>1. UNCHANGED <<flags, switcher>> \/ Activated
      BY <1>9 DEF SwitchStart
    <3> QED
      BY <3>1, <1>p, <1>a DEF FlagsOK, switcher
  <2>3. pcM # "attach" /\ pcM' # "attach" /\ pcM' \in MainStep
    BY <2>1 DEF MainStep
  <2>4. StreamOK' /\ sw' = sw /\ sw \in {"main", "switcher", None} /\ live' \in BOOLEAN
    BY <2>1, <1>p DEF StreamOK, stream, TypeOK
  <2> QED
    BY <1>p, <2>1, <2>2, <2>3, <2>4, StreamMoves
<1>10. CASE SwitchOff
  <2>1. /\ UNCHANGED <<device, setup, flags, sw, ctrl, switcher, live>> /\ AudioOff
        /\ pcM = "off" /\ pcM' \in {"lookup", "idle"}
    BY <1>10 DEF SwitchOff, At, Goto
  <2>2. pcM # "attach" /\ pcM' # "attach" /\ pcM' \in MainStep
    BY <2>1 DEF MainStep
  <2>3. StreamOK' /\ FlagsOK' /\ live' \in BOOLEAN /\ pcS' = pcS /\ got' = got /\ sw' = sw
    BY <2>1, <1>p, OffTyped DEF FlagsOK, switcher
  <2>4. sw \in {"main", "switcher", None}
    BY DEF TypeOK
  <2> QED
    BY <1>p, <2>1, <2>2, <2>3, <2>4, StreamMoves
<1>11. CASE ClearOff
  <2>1. /\ UNCHANGED <<device, setup, flags, sw, ctrl, switcher, live>> /\ AudioOff
        /\ pcM = "gone" /\ pcM' \in {"deleted", "idle"}
    BY <1>11 DEF ClearOff, At, Goto
  <2>2. pcM # "attach" /\ pcM' # "attach" /\ pcM' \in MainStep
    BY <2>1 DEF MainStep
  <2>3. StreamOK' /\ FlagsOK' /\ live' \in BOOLEAN /\ pcS' = pcS /\ got' = got /\ sw' = sw
    BY <2>1, <1>p, OffTyped DEF FlagsOK, switcher
  <2>4. sw \in {"main", "switcher", None}
    BY DEF TypeOK
  <2> QED
    BY <1>p, <2>1, <2>2, <2>3, <2>4, StreamMoves
<1>12. CASE SwitchDetach
  <2>1. /\ UNCHANGED <<device, setup, channel, flags, ctrl, switcher, live>> /\ Detached
        /\ sw = None /\ sw' = "main" /\ pcM' = "attach"
    BY <1>12 DEF SwitchDetach, Goto
  <2>2. pcM' \in MainStep /\ FlagsOK' /\ live' \in BOOLEAN /\ pcS' = pcS /\ got' = got
    BY <2>1, <1>p DEF MainStep, FlagsOK, switcher
  <2>3. StreamOK'
    BY <2>1, <1>p, DetachTyped DEF StreamOK
  <2>4. /\ sw' \in {"main", "switcher", None} /\ pcS' \in ThreadStep
        /\ sw' = "main" <=> pcM' = "attach"
        /\ sw' = "switcher" <=> pcS' = "attach"
    BY <2>1, <1>p, NoneAssumption DEF switcher
  <2> QED
    BY <2>1, <2>2, <2>3, <2>4, StreamMoves
<1>13. CASE SwitchAttach
  <2>1. /\ UNCHANGED <<device, setup, flags, ctrl, switcher, live>> /\ Attached(Current, tuned)
        /\ pcM = "attach" /\ sw' = None /\ pcM' = "idle"
    BY <1>13 DEF SwitchAttach, At, Goto
  <2>2. pcM' \in MainStep /\ FlagsOK' /\ live' \in BOOLEAN /\ pcS' = pcS /\ got' = got
    BY <2>1, <1>p DEF MainStep, FlagsOK, switcher
  <2>3. StreamOK'
    <3>1. Current \in Pid /\ tuned \in Channels
      BY <1>p, CurrentTyped DEF DeviceOK
    <3> QED
      BY <2>1, <3>1, <1>p, AttachTyped
  <2>4. /\ sw' \in {"main", "switcher", None} /\ pcS' \in ThreadStep
        /\ sw' = "main" <=> pcM' = "attach"
        /\ sw' = "switcher" <=> pcS' = "attach"
    BY <2>1, <1>p, NoneAssumption DEF switcher
  <2> QED
    BY <2>1, <2>2, <2>3, <2>4, StreamMoves, NoneAssumption
<1>14. CASE TrackRestart
  <2>1. /\ UNCHANGED <<device, setup, channel, sw, ctrl, live>>
        /\ sw = None /\ pcM' = "wake"
    BY <1>14 DEF TrackRestart, Goto
  <2>2. FlagsOK' /\ got' = got /\ pcS' \in ThreadStep /\ (pcS' = "attach" <=> pcS = "attach")
    <3>1. UNCHANGED <<flags, switcher>> \/ Activated
      BY <1>14 DEF TrackRestart
    <3> QED
      BY <3>1, <1>p, <1>a DEF FlagsOK, switcher
  <2>3. StreamOK'
    <3>1. UNCHANGED <<apid, in>> \/ Detached
      BY <1>14 DEF TrackRestart
    <3> QED
      BY <2>1, <3>1, <1>p, DetachTyped DEF StreamOK
  <2>4. pcM' \in MainStep /\ pcM' # "attach" /\ live' \in BOOLEAN
    BY <2>1, <1>p DEF MainStep
  <2> QED
    BY <1>p, <2>1, <2>2, <2>3, <2>4, StreamMoves, NoneAssumption
<1>15. CASE ChannelReset
  <2>1. /\ UNCHANGED <<device, setup, flags, sw, ctrl, switcher, live>>
        /\ channel' = None /\ Detached
        /\ sw = None /\ pcM' \in {"play", "idle"}
    BY <1>15 DEF ChannelReset, Goto
  <2>2. FlagsOK' /\ live' \in BOOLEAN /\ pcS' = pcS /\ got' = got
    BY <2>1, <1>p DEF FlagsOK, switcher
  <2>3. StreamOK'
    BY <2>1, <1>p, DetachTyped DEF StreamOK
  <2>4. pcM' \in MainStep /\ pcM' # "attach"
    BY <2>1 DEF MainStep
  <2> QED
    BY <1>p, <2>1, <2>2, <2>3, <2>4, StreamMoves, NoneAssumption
<1> QED
  BY <1>1, <1>2, <1>3, <1>4, <1>5, <1>6, <1>7, <1>8, <1>9, <1>10, <1>11, <1>12, <1>13, <1>14, <1>15 DEF Calls

LEMMA ThreadTyped == TypeOK /\ (Waits \/ Steps \/ Found) => TypeOK'
<1> SUFFICES ASSUME TypeOK, Waits \/ Steps \/ Found PROVE TypeOK'
  OBVIOUS
<1>p. /\ DeviceOK /\ StreamOK /\ FlagsOK /\ live \in BOOLEAN
      /\ pcM \in MainStep /\ pcS \in ThreadStep
      /\ sw = "main" <=> pcM = "attach"
      /\ sw = "switcher" <=> pcS = "attach"
      /\ ctrl \in {"switcher", None} /\ got \in Pid \cup {None}
  BY Parts DEF TypeOK
<1>1. CASE Run
  <2>1. /\ UNCHANGED <<device, setup, stream, sw, main>>
        /\ pcS = "start" /\ pcS' \in {"lock"}
    BY <1>1 DEF Run, S, Go
  <2>2. pcS # "attach" /\ pcS' \in ThreadStep \ {"attach"}
    BY <2>1 DEF ThreadStep
  <2>3. FlagsOK' /\ ctrl' \in {"switcher", None} /\ got' \in Pid \cup {None}
    BY <1>1, <1>p DEF Run, Go, FlagsOK
  <2> QED
    BY <2>1, <2>2, <2>3, ThreadMoves
<1>2. CASE LockCtrl
  <2>1. /\ UNCHANGED <<device, setup, stream, sw, main>>
        /\ pcS = "lock" /\ pcS' \in {"loop"}
    BY <1>2 DEF LockCtrl, S, Go
  <2>2. pcS # "attach" /\ pcS' \in ThreadStep \ {"attach"}
    BY <2>1 DEF ThreadStep
  <2>3. FlagsOK' /\ ctrl' \in {"switcher", None} /\ got' \in Pid \cup {None}
    BY <1>2, <1>p DEF LockCtrl, Go, FlagsOK
  <2> QED
    BY <2>1, <2>2, <2>3, ThreadMoves
<1>3. CASE Loop
  <2>1. /\ UNCHANGED <<device, setup, stream, sw, main>>
        /\ pcS = "loop" /\ pcS' \in {"wait", "unlock"}
    BY <1>3 DEF Loop, S, Go
  <2>2. pcS # "attach" /\ pcS' \in ThreadStep \ {"attach"}
    BY <2>1 DEF ThreadStep
  <2>3. FlagsOK' /\ ctrl' \in {"switcher", None} /\ got' \in Pid \cup {None}
    BY <1>3, <1>p DEF Loop, Go, FlagsOK
  <2> QED
    BY <2>1, <2>2, <2>3, ThreadMoves
<1>4. CASE Wait
  <2>1. /\ UNCHANGED <<device, setup, stream, sw, main>>
        /\ pcS = "wait" /\ pcS' \in {"woken"}
    BY <1>4 DEF Wait, S, Go
  <2>2. pcS # "attach" /\ pcS' \in ThreadStep \ {"attach"}
    BY <2>1 DEF ThreadStep
  <2>3. FlagsOK' /\ ctrl' \in {"switcher", None} /\ got' \in Pid \cup {None}
    BY <1>4, <1>p DEF Wait, Go, FlagsOK
  <2> QED
    BY <2>1, <2>2, <2>3, ThreadMoves
<1>5. CASE Woken
  <2>1. /\ UNCHANGED <<device, setup, stream, sw, main>>
        /\ pcS = "woken" /\ pcS' \in {"unlock", "loop", "look"}
    BY <1>5 DEF Woken, S, Go
  <2>2. pcS # "attach" /\ pcS' \in ThreadStep \ {"attach"}
    BY <2>1 DEF ThreadStep
  <2>3. FlagsOK' /\ ctrl' \in {"switcher", None} /\ got' \in Pid \cup {None}
    BY <1>5, <1>p DEF Woken, Go, FlagsOK
  <2> QED
    BY <2>1, <2>2, <2>3, ThreadMoves
<1>6. CASE Look
  <2>1. /\ UNCHANGED <<device, setup, stream, sw, main>>
        /\ pcS = "look" /\ pcS' \in {"loop", "mode", "find"}
    BY <1>6 DEF Look, S, Go
  <2>2. pcS # "attach" /\ pcS' \in ThreadStep \ {"attach"}
    BY <2>1 DEF ThreadStep
  <2>3. FlagsOK' /\ ctrl' \in {"switcher", None} /\ got' \in Pid \cup {None}
    BY <1>6, <1>p DEF Look, Go, FlagsOK
  <2> QED
    BY <2>1, <2>2, <2>3, ThreadMoves
<1>7. CASE Found
  <2>1. /\ UNCHANGED <<device, setup, stream, sw, main>>
        /\ pcS = "find" /\ pcS' \in {"loop", "detach"}
    BY <1>7 DEF Found, S, Go
  <2>2. pcS # "attach" /\ pcS' \in ThreadStep \ {"attach"}
    BY <2>1 DEF ThreadStep
  <2>3. FlagsOK' /\ ctrl' \in {"switcher", None} /\ got' \in Pid \cup {None}
    BY <1>7, <1>p, CurrentTyped DEF Found, Go, FlagsOK
  <2> QED
    BY <2>1, <2>2, <2>3, ThreadMoves
<1>8. CASE NotFound
  <2>1. /\ UNCHANGED <<device, setup, stream, sw, main>>
        /\ pcS = "find" /\ pcS' \in {"loop"}
    BY <1>8 DEF NotFound, S, Go
  <2>2. pcS # "attach" /\ pcS' \in ThreadStep \ {"attach"}
    BY <2>1 DEF ThreadStep
  <2>3. FlagsOK' /\ ctrl' \in {"switcher", None} /\ got' \in Pid \cup {None}
    BY <1>8, <1>p DEF NotFound, Go, FlagsOK
  <2> QED
    BY <2>1, <2>2, <2>3, ThreadMoves
<1>9. CASE UnlockCtrl
  <2>1. /\ UNCHANGED <<device, setup, stream, sw, main>>
        /\ pcS = "unlock" /\ pcS' \in {"inactive"}
    BY <1>9 DEF UnlockCtrl, S, Go
  <2>2. pcS # "attach" /\ pcS' \in ThreadStep \ {"attach"}
    BY <2>1 DEF ThreadStep
  <2>3. FlagsOK' /\ ctrl' \in {"switcher", None} /\ got' \in Pid \cup {None}
    BY <1>9, <1>p DEF UnlockCtrl, Go, FlagsOK
  <2> QED
    BY <2>1, <2>2, <2>3, ThreadMoves
<1>10. CASE Inactive
  <2>1. /\ UNCHANGED <<device, setup, stream, sw, main>>
        /\ pcS = "inactive" /\ pcS' \in {"stop"}
    BY <1>10 DEF Inactive, S, Go
  <2>2. pcS # "attach" /\ pcS' \in ThreadStep \ {"attach"}
    BY <2>1 DEF ThreadStep
  <2>3. FlagsOK' /\ ctrl' \in {"switcher", None} /\ got' \in Pid \cup {None}
    BY <1>10, <1>p DEF Inactive, Go, FlagsOK
  <2> QED
    BY <2>1, <2>2, <2>3, ThreadMoves
<1>11. CASE NotRunning
  <2>1. /\ UNCHANGED <<device, setup, stream, sw, main>>
        /\ pcS = "stop" /\ pcS' \in {"end"}
    BY <1>11 DEF NotRunning, S, Go
  <2>2. pcS # "attach" /\ pcS' \in ThreadStep \ {"attach"}
    BY <2>1 DEF ThreadStep
  <2>3. FlagsOK' /\ ctrl' \in {"switcher", None} /\ got' \in Pid \cup {None}
    BY <1>11, <1>p DEF NotRunning, Go, FlagsOK
  <2> QED
    BY <2>1, <2>2, <2>3, ThreadMoves
<1>12. CASE End
  <2>1. /\ UNCHANGED <<device, setup, stream, sw, main>>
        /\ pcS = "end" /\ pcS' \in {"off"}
    BY <1>12 DEF End, S, Go
  <2>2. pcS # "attach" /\ pcS' \in ThreadStep \ {"attach"}
    BY <2>1 DEF ThreadStep
  <2>3. FlagsOK' /\ ctrl' \in {"switcher", None} /\ got' \in Pid \cup {None}
    BY <1>12, <1>p DEF End, Go, FlagsOK
  <2> QED
    BY <2>1, <2>2, <2>3, ThreadMoves
<1>13. CASE LookOff
  <2>1. /\ UNCHANGED <<device, setup, flags, ctrl, main, got>>
        /\ AudioOff /\ sw' = sw /\ pcS = "mode" /\ pcS' = "loop"
    BY <1>13 DEF LookOff, S, Go
  <2>2. pcS' \in ThreadStep /\ FlagsOK' /\ pcM' = pcM /\ live' \in BOOLEAN
    BY <2>1, <1>p DEF ThreadStep, FlagsOK, main
  <2>3. StreamOK'
    BY <2>1, OffTyped
  <2>4. sw' \in {"main", "switcher", None}
    BY <2>1 DEF TypeOK
  <2> QED
    BY <1>p, <2>1, <2>2, <2>3, <2>4, StreamMoves, NoneAssumption
<1>14. CASE AudioSwitch
  <2>1. /\ UNCHANGED <<device, setup, flags, ctrl, main, got>>
        /\ channel' = channel /\ Detached
        /\ sw = None /\ sw' = "switcher" /\ pcS' = "attach"
    BY <1>14 DEF AudioSwitch, S, Go
  <2>2. pcS' \in ThreadStep /\ FlagsOK' /\ pcM' = pcM /\ live' \in BOOLEAN
    BY <2>1, <1>p DEF ThreadStep, FlagsOK, main
  <2>3. StreamOK'
    BY <2>1, <1>p, DetachTyped DEF StreamOK
  <2>4. sw' \in {"main", "switcher", None}
    BY <2>1 DEF TypeOK
  <2> QED
    BY <1>p, <2>1, <2>2, <2>3, <2>4, StreamMoves, NoneAssumption
<1>15. CASE AudioSwitchAttach
  <2>1. /\ UNCHANGED <<device, setup, flags, ctrl, main, got>>
        /\ Attached(got, channel) /\ sw' = None /\ pcS = "attach" /\ pcS' = "loop"
    BY <1>15 DEF AudioSwitchAttach, S, Go
  <2>2. pcS' \in ThreadStep /\ FlagsOK' /\ pcM' = pcM /\ live' \in BOOLEAN
    BY <2>1, <1>p DEF ThreadStep, FlagsOK, main
  <2>3. StreamOK'
    <3>1. channel \in Channels \cup {None}
      BY <1>p DEF StreamOK
    <3> QED
      BY <2>1, <3>1, <1>p, AttachTyped
  <2>4. sw' \in {"main", "switcher", None}
    BY <2>1 DEF TypeOK
  <2> QED
    BY <1>p, <2>1, <2>2, <2>3, <2>4, StreamMoves, NoneAssumption
<1> QED
  BY <1>1, <1>2, <1>3, <1>4, <1>5, <1>6, <1>7, <1>8, <1>9, <1>10, <1>11, <1>12, <1>13, <1>14, <1>15 DEF Waits, Steps

LEMMA TypePreserved == TypeOK /\ [Next]_vars => TypeOK'
<1>1. TypeOK /\ UNCHANGED vars => TypeOK'
  BY DEF vars, TypeOK, device, stream, main, switcher
<1> QED
  BY <1>1, ViewerTyped, CallsTyped, ThreadTyped DEF Next

LEMMA ReplayPreserved == IInv /\ [Next]_vars => ReplayInv'
<1> SUFFICES ASSUME IInv, [Next]_vars PROVE ReplayInv'
  OBVIOUS
<1> USE DEF IInv, ReplayInv, Nothing, device, stream, main, switcher, At, Goto, S, Go
<1>1. CASE UNCHANGED vars
  BY <1>1 DEF vars
<1>2. CASE Viewer
  <2>1. /\ UNCHANGED stream
        /\ pcM' \notin {"play", "lookup", "detach", "attach", "off"}
        /\ replaying' => replaying
    BY <1>2 DEF Viewer, ZapBegins, ZapEnds, TrackSelected, RecordingStarts, ReplayStarts,
       ReplayStops, TransferChanges, SetupChanges, PluginStops
  <2> QED
    BY <2>1
<1>3. CASE Calls
  <2>1. CASE SwitchStart \/ SwitchCheck \/ SwitchLookup
    BY <1>3, <2>1 DEF SwitchStart, SwitchCheck, SwitchLookup
  <2>2. CASE SwitchOff \/ ClearOff
    BY <2>2 DEF SwitchOff, ClearOff, AudioOff
  <2>3. CASE SwitchDetach
    BY <2>3 DEF SwitchDetach
  <2>4. CASE SwitchAttach
    BY <2>4 DEF SwitchAttach
  <2>5. CASE TrackCheck \/ TrackWake \/ ClearStart \/ ClearKick \/ ClearJoin
    BY <2>5 DEF TrackCheck, TrackWake, ClearStart, ClearKick, ClearJoin
  <2>6. CASE TrackRestart
    BY <2>6 DEF TrackRestart, Detached
  <2>7. CASE ChannelReset
    BY <2>7 DEF ChannelReset, Detached
  <2>8. CASE ReplayPlays
    BY <2>8 DEF ReplayPlays
  <2> QED
    BY <1>3, <2>1, <2>2, <2>3, <2>4, <2>5, <2>6, <2>7, <2>8 DEF Calls
<1>4. CASE Waits
  <2>1. CASE LockCtrl \/ Woken
    BY <2>1 DEF LockCtrl, Woken
  <2>2. CASE AudioSwitch
    BY <2>2 DEF AudioSwitch, Detached
  <2>3. CASE LookOff
    BY <2>3 DEF LookOff, AudioOff
  <2> QED
    BY <1>4, <2>1, <2>2, <2>3 DEF Waits
<1>5. CASE Steps
  <2>1. CASE AudioSwitchAttach
    BY <2>1 DEF AudioSwitchAttach, Attached
  <2>2. CASE Steps /\ ~AudioSwitchAttach
    BY <2>2 DEF Steps, Run, Loop, Wait, Look, NotFound, UnlockCtrl, Inactive, NotRunning, End
  <2> QED
    BY <1>5, <2>1, <2>2
<1>6. CASE Found
  BY <1>6 DEF Found
<1> QED
  BY <1>1, <1>2, <1>3, <1>4, <1>5, <1>6 DEF Next

LEMMA Inductive == Spec => []IInv
<1>1. IInv /\ [Next]_vars => IInv'
  BY TypePreserved, ReplayPreserved DEF IInv
<1> QED
  BY InitIInv, <1>1, PTL DEF Spec

-----------------------------------------------------------------------------
(* The types of the variables, and who holds the lock `sw' at which steps. *)
THEOREM TypeCorrect == Spec => []TypeOK
  BY Inductive, PTL DEF IInv

(* No live stream while a recording is replayed, whatever channels, tracks *)
(* and setup bits change while the switching thread is on its way to       *)
(* attach one.                                                             *)
THEOREM ReplayIsAlone == Spec => []QuietWhileReplaying
<1>1. IInv => QuietWhileReplaying
  BY DEF IInv, ReplayInv, Nothing, QuietWhileReplaying
<1> QED
  BY <1>1, Inductive, PTL
=============================================================================
