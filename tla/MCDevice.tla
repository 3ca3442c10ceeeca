------------------------------ MODULE MCDevice ------------------------------
(* Three views of the one object `spdif' side by side for model checking:  *)
(* who has the card (SpdifCard), how it is set up (SpdifSetup), and where  *)
(* its options come from (SetupMenu).  A behaviour is of one view; the     *)
(* variables of the others keep their first values.                        *)
EXTENDS SpdifCard

CONSTANTS Streams, Cards, Delays,               \* of SpdifSetup
          Parts, Device, Works, Delay, Files    \* of SetupMenu

VARIABLES
  view,
  at, opt, hw, held, unowned, frag, part, good, buffer, buf, start,
  word, option, isactive, dolby, file, todo, step, menu, stored, does, hasfailed, seen

open == <<at, opt, hw, held, unowned, frag, part, good, buffer, buf, start>>
menus == <<word, option, isactive, dolby, file, todo, step, menu, stored, does, hasfailed, seen>>

ASSUME StreamAssumption ==
  \A s \in Streams : /\ s.burst \in Nat \ {0} /\ s.burst <= 16384
                     /\ s.rate \in Nat /\ s.rate >= 100
(* A card that has one period only accepts that one.                       *)
ASSUME CardAssumption ==
  \A h \in Cards : /\ h.min \in Nat \ {0} /\ h.max \in Nat
                   /\ h.align \in Nat \ {0} /\ h.most \in Nat
                   /\ h.min = h.max => h.min % h.align = 0
ASSUME DelayAssumption == Delays \subseteq Nat /\ Delay \subseteq Nat
ASSUME DeviceAssumption == 2 \in Device

(* The values the entries of a setup file have.                            *)
EntriesOK(f) ==
  /\ \A n \in {"Active", "Mp2Enable", "Mp2Dither"} \cap DOMAIN f : f[n] \in BOOLEAN
  /\ "Mp2Out" \in DOMAIN f => f["Mp2Out"] \in 0..2
  /\ "PCMinit" \in DOMAIN f => f["PCMinit"] \in Nat
  /\ "Device" \in DOMAIN f => f["Device"] \in Device
ASSUME FileAssumption == \A f \in Files : EntriesOK(f)

Opening == INSTANCE SpdifSetup WITH pc <- at
Menu == INSTANCE SetupMenu WITH setup <- word, opt <- option, active <- isactive, pc <- step,
                                part <- does, failed <- hasfailed

(* The framers AC3, DTS, LPCM and MP2, and cards that take any period, few *)
(* periods, or just one.                                                   *)
Stream(b, r) == [burst |-> b, rate |-> r]
Framers == {Stream(1536, 48000), Stream(1536, 44100), Stream(512, 48000), Stream(1152, 32000)}
CardOf(a, b, c, d) == [min |-> a, max |-> b, align |-> c, most |-> d]
Hardware == {CardOf(32, 4096, 1, 16384), CardOf(32, 1024, 32, 16384), CardOf(64, 512, 48, 20000),
             CardOf(1024, 1024, 1, 16384), CardOf(100, 100, 1, 16384),
             CardOf(32, 1024, 32, 8192), CardOf(32, 4096, 5, 16384)}

(* Setup files: none, one whose device does not open, and one an old       *)
(* version has left.                                                       *)
OldFile == [Mp2Dither |-> TRUE, Active |-> FALSE, PCMinit |-> 0]
SetupFiles == {<<>>, [Device |-> 0], OldFile}

DeviceInit ==
  /\ view \in {"card", "opening", "menu"}
  /\ Init /\ Opening!Init /\ Menu!Init
  /\ view # "opening" => /\ opt = CHOOSE o \in Opening!AnyOptions : TRUE
                         /\ hw = CHOOSE h \in Cards : TRUE
  /\ view # "menu" => ~isactive /\ file = CHOOSE f \in Files : TRUE

DeviceNext ==
  \/ view = "card" /\ Next /\ UNCHANGED <<view, open, menus>>
  \/ view = "opening" /\ Opening!Next /\ UNCHANGED <<view, vars, menus>>
  \/ view = "menu" /\ Menu!Next /\ UNCHANGED <<view, vars, open>>

DeviceSpec == DeviceInit /\ [][DeviceNext]_<<view, vars, open, menus>> /\ Fairness

(* The properties of the three views; their parts are explained there.     *)

(* The types of the variables of all three.                                *)
TypesOK == TypeOK /\ Opening!TypeOK /\ Menu!TypeOK

(* While VDR keeps the live and the replay part apart, Open() finds the    *)
(* card closed, and a thread that has opened it plays its own stream until *)
(* it closes it.                                                           *)
CardIsOwned == OpenFindsClosed /\ PlaysOwnStream

(* The handles of the sound library: threads give it only such as are      *)
(* open, and none is lost, neither by a Close() beside another thread nor  *)
(* on any of the error paths of Open().                                    *)
HandlesKept == HandlesAreOpen /\ NoHandleLost /\ Opening!NothingKept

(* What Open() has agreed on with a card of any kind: the period divides   *)
(* the burst, the thresholds of the fill are in order, and the start       *)
(* threshold is reached by the start frames.                               *)
BufferFits == Opening!PeriodDivides /\ Opening!ThresholdsOrdered /\ Opening!StartReached

(* What the viewer stored is in use, and VDR's transfer mode follows it,   *)
(* after every menu and after a restart.                                   *)
SetupStored == Menu!StoredIsUsed /\ Menu!TransferFollows

(* A part that failed tries again with new options.                        *)
FailedTriesAgain == Menu!FailedTriesAgain
=============================================================================
