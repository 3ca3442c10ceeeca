----------------------------- MODULE DeviceProofs -----------------------------
(***************************************************************************)
(* Proofs about the three views of the sound card: who has it (SpdifCard), *)
(* for any number of handles, how it is set up (SpdifSetup), for any       *)
(* streams, cards and delays, and where the options come from (SetupMenu). *)
(***************************************************************************)
EXTENDS MCDevice, TLAPS

-----------------------------------------------------------------------------
(* Who has the card.  VDR's threads and the part each controls.            *)
Controls == {"main", "player"}

(* The types: truth values, and all others.                                *)
TruthOK ==
  /\ burstrun \in BOOLEAN /\ first \in BOOLEAN /\ live \in BOOLEAN /\ replaying \in BOOLEAN
PlacesOK ==
  /\ out \in 0..opened /\ opened \in 0..MaxOpen /\ alsa \subseteq 1..opened
  /\ stream \in Part \cup {None} /\ lock \in Thread \cup {None}
  /\ pc \in [Thread -> Forwarding \cup Closing
                      \cup {None, "idle", "start", "join", "offend"}]
  /\ tmp \in [Thread -> 0..opened]
  /\ ret \in [Thread -> {"openstream", "quit", "offend"}]
  /\ active \subseteq Part /\ failed \subseteq Part
  /\ mode \in {"apart", "mixed", "crossed"}

(* Close() before it forgets the card, and where it has the lock in any    *)
(* case; in Open() it has it from the start.                               *)
Before == {"close", "closelock", "closewait", "closeclear", "closestop", "closeforget"}
Locked == {"openstream", "openpcm", "closewait", "closeclear", "closestop", "closeforget",
           "closepcm"}

(* Forwarding threads and those that control them are never in each        *)
(* other's places, and come back from Close() to their own.                *)
RolesInv ==
  /\ \A p \in Part : pc[p] \in {None} \cup Forwarding \cup Closing /\ ret[p] # "offend"
  /\ \A t \in Controls : /\ pc[t] \in {"idle", "start", "join", "offend"} \cup Closing
                         /\ ret[t] # "openstream"
                         /\ pc[t] \in Closing => ret[t] = "offend"

(* The lock is held by the thread that is in Open() or behind the lock in  *)
(* Close(), and by no other.                                               *)
LockInv ==
  \A t \in Thread :
    lock = t <=> pc[t] \in Locked \/ (pc[t] \in {"close", "closelock"} /\ Nested(t))

(* A thread is started and its end is waited for by the one that controls  *)
(* it; what that does after the wait it does without a forwarding thread.  *)
ControlInv ==
  /\ \A t \in Controls : /\ pc[t] \in {"start", "offend"} \cup Closing => pc[Of(t)] = None
                         /\ pc[t] = "join" => Of(t) \notin active
  /\ \A p \in Part : pc[p] = None => p \notin active

(* VDR replays a recording without the live stream.  As long as the parts  *)
(* are apart the player thread is at work only then, so a part that has    *)
(* seen the card closed finds it closed.                                   *)
ApartInv ==
  /\ replaying => pc["main"] = "idle" /\ ~live
  /\ pc["live"] # None => live
  /\ pc["main"] = "start" => ~live
  /\ mode = "apart" => /\ pc["player"] # "idle" \/ pc["replay"] # None => replaying
                       /\ \A t \in Controls :
                            pc[t] = "start" \/ pc[Of(t)] = "open" => out = 0

(* Until the parts have crossed, the thread that plays, or closes what it  *)
(* or the thread it controls has played, owns the card; so there is one.   *)
Owns(p) == out # 0 /\ stream = p
OwnerInv ==
  /\ \A t \in Thread : pc[t] \in {"openstream", "openpcm", "closepcm"} => out = 0
  /\ \A p \in Part : pc[p] = "openpcm" => stream = p
  /\ mode # "crossed" =>
       /\ \A p \in Part : /\ pc[p] \in Playing \cup Before => Owns(p)
                          /\ pc[p] \in Closing => ret[p] = "quit"
                          /\ pc[p] \in {"sync", "write"} => tmp[p] \in {0, out}
       /\ \A t \in Controls : pc[t] \in Before => Owns(Of(t))
       /\ \A t \in Thread : pc[t] \in Before \ {"close"} => tmp[t] = out

(* The library has one handle open at most: that of the card, or the one   *)
(* a Close() that has forgotten the card is about to give back.            *)
HandleInv ==
  mode # "crossed" =>
    IF \E t \in Thread : pc[t] = "closepcm"
    THEN \A t \in Thread : pc[t] = "closepcm" => alsa = {tmp[t]} \ {0} /\ tmp[t] # 0
    ELSE alsa = {out} \ {0}

ThreadsInv ==
  /\ PlacesOK /\ RolesInv /\ LockInv /\ ControlInv /\ ApartInv
  /\ OwnerInv /\ HandleInv

CardInv == TruthOK /\ ThreadsInv

(* The end of Activate(true): a thread is started or its part has failed.  *)
LEMMA StartKeeps ==
  ASSUME CardInv, NEW t \in Controls, NEW forgiven, Start(t, forgiven)
  PROVE  CardInv'
<1> USE MaxOpenAssumption
    DEF CardInv, ThreadsInv, PlacesOK, RolesInv, Controls, Part, Thread, Of, None,
        Forwarding, Closing, Nested, bits, library, threads, setup, vdr
<1>1. TruthOK'
  BY Zenon DEF TruthOK, Start
<1>2. /\ failed' \subseteq Part /\ pc[t] = "start" /\ pc[Of(t)] = None
      /\ UNCHANGED <<out, stream, lock, bits, library, tmp, ret, vdr>>
  BY DEF Start, ControlInv
<1>3. CASE Of(t) \in failed' \cup active
  <2>1. pc' = [pc EXCEPT ![t] = "idle"] /\ active' = active /\ live' = live
    BY <1>3, Zenon DEF Start
  <2>2. PlacesOK' /\ RolesInv' /\ LockInv' /\ ControlInv' /\ ApartInv'
    BY <1>2, <2>1 DEF LockInv, Locked, ControlInv, TruthOK, ApartInv
  <2>3. OwnerInv' /\ HandleInv'
    BY <1>2, <2>1 DEF OwnerInv, Owns, Before, Locked, Playing, HandleInv
  <2> QED
    BY <1>1, <2>2, <2>3
<1>4. CASE Of(t) \notin failed' \cup active
  <2>1. pc' = [pc EXCEPT ![t] = "idle", ![Of(t)] = "open"]
    BY <1>4, Zenon DEF Start
  <2>2. active' = active \cup {Of(t)} /\ live' = (live \/ t = "main")
    BY <1>4, Zenon DEF Start
  <2>3. \A u \in Thread : \/ pc'[u] = pc[u]
                          \/ pc[u] \in {None, "start"} /\ pc'[u] \in {"idle", "open"}
    BY <1>2, <2>1
  <2>4. PlacesOK' /\ RolesInv'
    BY <1>2, <2>1, <2>2
  <2>5. LockInv' /\ OwnerInv' /\ HandleInv'
    BY <1>2, <2>1, <2>3 DEF LockInv, Locked, OwnerInv, Owns, Before, Playing, HandleInv
  <2>6. ControlInv' /\ ApartInv'
    BY <1>2, <2>1, <2>2, ZenonT(30) DEF ControlInv, TruthOK, ApartInv
  <2> QED
    BY <1>1, <2>4, <2>5, <2>6
<1> QED
  BY <1>3, <1>4

(* What VDR does with recordings, and the look at the card.                *)
LEMMA BeginKeeps ==
  ASSUME CardInv, BeginReplay \/ EndReplay \/ Attach \/ Play
  PROVE  CardInv'
<1> USE MaxOpenAssumption
    DEF TruthOK, ThreadsInv, PlacesOK, RolesInv, LockInv, ControlInv, ApartInv, OwnerInv,
        HandleInv, Controls, Part, Thread, Of, None, Forwarding, Closing, Before, Locked,
        Playing, Owns, Nested, Goes, bits, library, threads, setup, vdr
<1>1. TruthOK'
  BY Zenon DEF CardInv, BeginReplay, EndReplay, Attach, LookFree, Play
<1>2. ASSUME BeginReplay PROVE ThreadsInv'
  BY <1>2 DEF CardInv, BeginReplay
<1>3. ASSUME EndReplay PROVE ThreadsInv'
  BY <1>3 DEF CardInv, EndReplay
<1>4. ASSUME Attach PROVE ThreadsInv'
  BY <1>4 DEF CardInv, Attach, LookFree
<1>5. ASSUME Play PROVE ThreadsInv'
  BY <1>5 DEF CardInv, Play, LookFree
<1> QED
  BY <1>1, <1>2, <1>3, <1>4, <1>5 DEF CardInv

(* Activate(false), but for its Close().                                    *)
LEMMA OffKeeps ==
  ASSUME CardInv, NEW t \in Controls,
         Off(t) \/ Join(t) \/ Kill(t) \/ OffEnd(t)
  PROVE  CardInv'
<1> USE MaxOpenAssumption
    DEF TruthOK, ThreadsInv, PlacesOK, RolesInv, LockInv, ControlInv, ApartInv, OwnerInv,
        HandleInv, Controls, Part, Thread, Of, None, Forwarding, Closing, Before, Locked,
        Playing, Owns, Nested, Goes, bits, library, threads, setup, vdr
<1>1. TruthOK'
  BY Zenon DEF CardInv, Off, Join, Kill, OffEnd
<1>2. ASSUME Off(t) PROVE ThreadsInv'
  BY <1>2 DEF CardInv, Off
<1>3. ASSUME Join(t) PROVE ThreadsInv'
  BY <1>3 DEF CardInv, Join
<1>4. ASSUME Kill(t) PROVE ThreadsInv'
  BY <1>4 DEF CardInv, Kill
<1>5. ASSUME OffEnd(t) PROVE ThreadsInv'
  BY <1>5 DEF CardInv, OffEnd
<1> QED
  BY <1>1, <1>2, <1>3, <1>4, <1>5 DEF CardInv

(* Open(), but for the Close() of a card that is open.                     *)
LEMMA OpenKeeps ==
  ASSUME CardInv, NEW p \in Part,
         OpenLock(p) \/ OpenStream(p) \/ OpenPcm(p) \/ OpenFails(p)
  PROVE  CardInv'
<1> USE MaxOpenAssumption
    DEF TruthOK, ThreadsInv, PlacesOK, RolesInv, LockInv, ControlInv, ApartInv, OwnerInv,
        HandleInv, Controls, Part, Thread, Of, None, Forwarding, Closing, Before, Locked,
        Playing, Owns, Nested, Goes, bits, library, threads, setup, vdr
<1>1. TruthOK'
  BY Zenon DEF CardInv, OpenLock, OpenStream, OpenPcm, OpenFails
<1>2. ASSUME OpenLock(p) PROVE ThreadsInv'
  BY <1>2 DEF CardInv, OpenLock
<1>3. ASSUME OpenStream(p) PROVE ThreadsInv'
  BY <1>3 DEF CardInv, OpenStream
<1>4. ASSUME OpenPcm(p) PROVE ThreadsInv'
  BY <1>4 DEF CardInv, OpenPcm
<1>5. ASSUME OpenFails(p) PROVE ThreadsInv'
  BY <1>5 DEF CardInv, OpenFails
<1> QED
  BY <1>1, <1>2, <1>3, <1>4, <1>5 DEF CardInv

(* The forwarding thread with an open card.                                *)
LEMMA ForwardKeeps ==
  ASSUME CardInv, NEW p \in Part,
         Loop(p) \/ Synchronize(p) \/ Forward(p) \/ BurstEnter(p) \/ BurstWrite(p)
         \/ BurstLead(p) \/ Quit(p)
  PROVE  CardInv'
<1> USE MaxOpenAssumption
    DEF TruthOK, ThreadsInv, PlacesOK, RolesInv, LockInv, ControlInv, ApartInv, OwnerInv,
        HandleInv, Controls, Part, Thread, Of, None, Forwarding, Closing, Before, Locked,
        Playing, Owns, Nested, Goes, bits, library, threads, setup, vdr
<1>1. TruthOK'
  BY Zenon DEF CardInv, Loop, Synchronize, Forward, BurstEnter, BurstWrite, BurstLead, Quit
<1>2. ASSUME Loop(p) PROVE ThreadsInv'
  BY <1>2 DEF CardInv, Loop
<1>3. ASSUME Synchronize(p) PROVE ThreadsInv'
  BY <1>3 DEF CardInv, Synchronize
<1>4. ASSUME Forward(p) PROVE ThreadsInv'
  BY <1>4 DEF CardInv, Forward
<1>5. ASSUME BurstEnter(p) PROVE ThreadsInv'
  BY <1>5 DEF CardInv, BurstEnter
<1>6. ASSUME BurstWrite(p) PROVE ThreadsInv'
  BY <1>6 DEF CardInv, BurstWrite
<1>7. ASSUME BurstLead(p) PROVE ThreadsInv'
  BY <1>7 DEF CardInv, BurstLead
<1>8. ASSUME Quit(p) PROVE ThreadsInv'
  BY <1>8 DEF CardInv, Quit
<1> QED
  BY <1>1, <1>2, <1>3, <1>4, <1>5, <1>6, <1>7, <1>8 DEF CardInv

(* Close(), whoever calls it.                                              *)
LEMMA CloseKeeps ==
  ASSUME CardInv, NEW t \in Thread,
         CloseRead(t) \/ CloseLock(t) \/ CloseWait(t) \/ CloseClear(t) \/ CloseStop(t)
         \/ CloseForget(t) \/ ClosePcm(t)
  PROVE  CardInv'
<1> USE MaxOpenAssumption
    DEF TruthOK, ThreadsInv, PlacesOK, RolesInv, LockInv, ControlInv, ApartInv, OwnerInv,
        HandleInv, Controls, Part, Thread, Of, None, Forwarding, Closing, Before, Locked,
        Playing, Owns, Nested, Goes, bits, library, threads, setup, vdr
<1>1. TruthOK'
  BY Zenon
  DEF CardInv, CloseRead, CloseLock, CloseWait, CloseClear, CloseStop, CloseForget, ClosePcm
<1>2. ASSUME CloseRead(t) PROVE ThreadsInv'
  BY <1>2 DEF CardInv, CloseRead
<1>3. ASSUME CloseLock(t) PROVE ThreadsInv'
  BY <1>3 DEF CardInv, CloseLock
<1>4. ASSUME CloseWait(t) PROVE ThreadsInv'
  BY <1>4 DEF CardInv, CloseWait
<1>5. ASSUME CloseClear(t) PROVE ThreadsInv'
  BY <1>5 DEF CardInv, CloseClear
<1>6. ASSUME CloseStop(t) PROVE ThreadsInv'
  BY <1>6 DEF CardInv, CloseStop
<1>7. ASSUME CloseForget(t) PROVE ThreadsInv'
  BY <1>7 DEF CardInv, CloseForget
<1>8. ASSUME ClosePcm(t) PROVE ThreadsInv'
  <2>1. PlacesOK'
    <3>1. alsa' \subseteq 1..opened' /\ out' \in 0..opened' /\ opened' \in 0..MaxOpen
      BY <1>8 DEF CardInv, ClosePcm
    <3>2. pc' \in [Thread -> Forwarding \cup Closing
                              \cup {None, "idle", "start", "join", "offend"}]
      BY <1>8 DEF CardInv, ClosePcm
    <3>3. tmp' \in [Thread -> 0..opened'] /\ lock' \in Thread \cup {None}
      BY <1>8 DEF CardInv, ClosePcm
    <3> QED
      BY <1>8, <3>1, <3>2, <3>3 DEF CardInv, ClosePcm
  <2>2. RolesInv' /\ LockInv' /\ ControlInv' /\ ApartInv' /\ OwnerInv' /\ HandleInv'
    BY <1>8 DEF CardInv, ClosePcm
  <2> QED
    BY <2>1, <2>2
<1> QED
  BY <1>1, <1>2, <1>3, <1>4, <1>5, <1>6, <1>7, <1>8 DEF CardInv

-----------------------------------------------------------------------------
(* How Open() sets the card up.  What the library has given to it goes by  *)
(* how far it is, but for the control handle.                              *)
HeldInv ==
  /\ at \in {"closed", "connect", "control", "configure", "period", "buffer", "check",
             "params", "status", "prepare", "open"}
  /\ unowned = FALSE /\ held \subseteq {"log", "out", "status", "ctl"}
  /\ "log" \in held <=> at # "closed"
  /\ "out" \in held <=> at \notin {"closed", "connect"}
  /\ "status" \in held <=> at \in {"prepare", "open"}

(* The options, the period and the buffer on their way through Open().     *)
ChosenOK == opt \in Opening!AnyOptions /\ hw \in Cards

SizesOK ==
  /\ frag \in 0..10 /\ part \in Nat /\ buffer \in Nat
  /\ at \in {"connect", "control", "configure"} => frag = 0
  /\ at = "period" => frag < 10

(* A period that was set is one the card takes.                            *)
Accepted == part # 0 => Opening!Accepts(part)

(* What the check of the sizes leaves, and the parameters after it.        *)
Graded ==
  /\ Opening!Fits
  /\ buf = [upper |-> buffer - 3 * (buffer \div 10),
            lower |-> (IF opt.audio THEN 2 ELSE 4) * (buffer \div 10),
            high |-> buffer - buffer \div 10,
            alarm |-> (buffer \div 10) \div 3]

Capped == start = Opening!AtMost(Opening!Silent * (opt.first + 1), buf.upper)

(* The thresholds lie in the buffer; they are zero until it is checked.    *)
RangesInv ==
  /\ good \in BOOLEAN /\ part <= Opening!Burst /\ buffer <= hw.most
  /\ buf \in [upper : 0..buffer, lower : 0..buffer, high : 0..buffer, alarm : 0..buffer]
  /\ start \in 0..buffer
  /\ at \in {"connect", "control", "configure", "period", "buffer"} =>
       buf = Opening!Zero /\ start = 0

SizesInv ==
  /\ ChosenOK /\ SizesOK /\ Accepted
  /\ at \in {"params", "status", "prepare", "open"} => Graded
  /\ at \in {"status", "prepare", "open"} => Capped

OpenInv == HeldInv /\ SizesInv /\ RangesInv

(* A buffer of whole bursts that is as near to 16384 frames as it gets.    *)
LEMMA WholeBursts ==
  ASSUME NEW b \in Nat \ {0}, b <= 16384
  PROVE  8192 <= b * (16384 \div b) /\ b * (16384 \div b) <= 16384
<1> DEFINE q == 16384 \div b
           n == b * q
<1>1. q \in Int /\ n \in Int /\ n <= 16384 /\ 16384 - b < n
  OBVIOUS
<1>2. q > 0
  <2> SUFFICES ASSUME q <= 0 PROVE n <= 0
    BY <1>1
  <2> HIDE DEF q
  <2> QED
    BY <1>1
<1>3. n >= b
  <2> HIDE DEF q
  <2> QED
    BY <1>1, <1>2
<1>4. 8192 <= n
  <2> HIDE DEF n
  <2> QED
    BY <1>1, <1>3
<1> QED
  BY <1>1, <1>4

(* A multiple leaves no rest.                                              *)
LEMMA Multiple ==
  ASSUME NEW g \in Nat \ {0}, NEW k \in Nat
  PROVE  (g * k) % g = 0
  OBVIOUS

(* Every label of Open() gives back what it has got so far.                *)
LEMMA HeldKept ==
  ASSUME HeldInv, Opening!Next
  PROVE  HeldInv'
<1>1. CASE \/ Opening!ConnectFails \/ Opening!ControlFails \/ Opening!ConfigureFails
           \/ Opening!BufferFails \/ Opening!CheckFails \/ Opening!ParamsFails
           \/ Opening!PrepareFails \/ Opening!Close
  BY <1>1
  DEF HeldInv, Opening!Goes, Opening!FailsWith, Opening!GiveBack, Opening!ErrLog,
      Opening!ErrOut, Opening!ErrStatus, Opening!ConnectFails, Opening!ControlFails,
      Opening!ConfigureFails, Opening!BufferFails, Opening!CheckFails, Opening!ParamsFails,
      Opening!PrepareFails, Opening!Close
<1>2. CASE \/ Opening!Begin \/ Opening!ConnectNamed \/ Opening!ConnectPlain
           \/ Opening!Control \/ Opening!Configure \/ Opening!Period \/ Opening!Buffer
           \/ Opening!Check \/ Opening!Params \/ Opening!Status \/ Opening!Prepare
  BY <1>2
  DEF HeldInv, Opening!Goes, Opening!PeriodSkip, Opening!PeriodSmall, Opening!PeriodTry,
      Opening!More, Opening!Begin, Opening!ConnectNamed, Opening!ConnectPlain,
      Opening!Control, Opening!Configure, Opening!Period, Opening!Buffer, Opening!Check,
      Opening!Params, Opening!Status, Opening!Prepare
<1> QED
  BY <1>1, <1>2 DEF Opening!Next

(* What the assumptions say of the options and the card of an Open().      *)
LEMMA GivenSizes ==
  ASSUME ChosenOK
  PROVE  /\ Opening!Burst \in Nat \ {0} /\ Opening!Burst <= 16384 /\ Opening!Periods \in Nat
         /\ 8192 <= Opening!Burst * Opening!Periods
         /\ Opening!Burst * Opening!Periods <= 16384
         /\ Opening!Silent \in Nat \ {0} /\ opt.first \in Nat /\ opt.audio \in BOOLEAN
         /\ hw.min \in Nat \ {0} /\ hw.max \in Nat
         /\ hw.align \in Nat \ {0} /\ hw.most \in Nat
<1>1. opt.stream \in Streams /\ opt.first \in Nat /\ opt.audio \in BOOLEAN
  BY DelayAssumption DEF ChosenOK, Opening!AnyOptions
<1>2. Opening!Burst \in Nat \ {0} /\ Opening!Burst <= 16384
  BY <1>1, StreamAssumption DEF Opening!Burst
<1>3. Opening!Periods \in Nat
  BY <1>2 DEF Opening!Periods
<1>4. 8192 <= Opening!Burst * Opening!Periods /\ Opening!Burst * Opening!Periods <= 16384
  BY <1>2, WholeBursts DEF Opening!Periods
<1>5. Opening!Silent \in Nat \ {0}
  BY <1>1, StreamAssumption DEF Opening!Silent
<1> QED
  BY <1>1, <1>2, <1>3, <1>4, <1>5, CardAssumption DEF ChosenOK

(* A step that leaves alone what they speak of leaves the parts of         *)
(* SizesInv alone.                                                         *)
LEMMA SizesStay ==
  /\ opt' = opt /\ hw' = hw => ChosenOK' = ChosenOK
  /\ hw' = hw /\ part' = part => Accepted' = Accepted
  /\ opt' = opt /\ hw' = hw /\ part' = part /\ frag' = frag /\ buffer' = buffer =>
       /\ Opening!Fits' = Opening!Fits
       /\ buf' = buf => Graded' = Graded
  /\ opt' = opt /\ start' = start /\ buf' = buf => Capped' = Capped
<1>1. opt' = opt /\ hw' = hw => ChosenOK' = ChosenOK
  BY DEF ChosenOK, Opening!AnyOptions
<1>2. hw' = hw /\ part' = part => Accepted' = Accepted
  BY DEF Accepted, Opening!Accepts
<1>3. opt' = opt /\ hw' = hw /\ part' = part /\ frag' = frag /\ buffer' = buffer =>
       /\ Opening!Fits' = Opening!Fits
       /\ buf' = buf => Graded' = Graded
  BY DEF Graded, Opening!Fits, Opening!Got, Opening!Burst, Opening!Periods
<1>4. opt' = opt /\ start' = start /\ buf' = buf => Capped' = Capped
  BY DEF Capped, Opening!AtMost, Opening!Silent
<1> QED
  BY <1>1, <1>2, <1>3, <1>4

(* The steps that change sizes are the loop for the period, the buffer,    *)
(* its check, and the parameters.                                          *)
LEMMA SizesKept ==
  ASSUME SizesInv, Opening!Next
  PROVE  SizesInv'
<1>1. ASSUME NEW from, NEW what, Opening!FailsWith(from, what) PROVE SizesInv'
  BY <1>1, SizesStay
  DEF SizesInv, SizesOK, Opening!Goes, Opening!chosen, Opening!sizes, Opening!limits,
      Opening!FailsWith
<1>2. CASE \/ Opening!ConnectNamed \/ Opening!ConnectPlain \/ Opening!Control
           \/ Opening!Configure \/ Opening!Status \/ Opening!Prepare
  <2>1. UNCHANGED <<opt, hw, frag, part, buffer, buf, start>>
    BY <1>2
    DEF Opening!Goes, Opening!chosen, Opening!sizes, Opening!limits, Opening!ConnectNamed,
        Opening!ConnectPlain, Opening!Control, Opening!Configure, Opening!Status,
        Opening!Prepare
  <2>2. /\ ChosenOK' /\ Accepted'
        /\ Graded' = Graded /\ Capped' = Capped
    BY <2>1, SizesStay DEF SizesInv
  <2> QED
    BY <1>2, <2>1, <2>2
    DEF SizesInv, SizesOK, Opening!Goes, Opening!chosen, Opening!sizes, Opening!limits,
        Opening!ConnectNamed, Opening!ConnectPlain, Opening!Control, Opening!Configure,
        Opening!Status, Opening!Prepare
<1>3. CASE Opening!Begin
  <2>1. ChosenOK' /\ Accepted'
    BY <1>3 DEF SizesInv, ChosenOK, Accepted, Opening!Begin, Opening!AnyOptions
  <2> QED
    BY <1>3, <2>1
    DEF SizesInv, SizesOK, Opening!Begin, Opening!Goes, Opening!chosen, Opening!sizes,
        Opening!limits
<1>4. CASE Opening!Period
  <2>1. CASE Opening!PeriodSkip
    BY <1>4, <2>1, SizesStay
    DEF Opening!Period, SizesInv, SizesOK, Opening!PeriodSkip, Opening!More, Opening!Goes,
        Opening!chosen, Opening!limits
  <2>2. CASE Opening!PeriodSmall
    BY <1>4, <2>2, SizesStay
    DEF Opening!Period, SizesInv, SizesOK, Opening!PeriodSmall, Opening!More, Opening!Goes,
        Opening!chosen, Opening!limits
  <2>3. CASE Opening!PeriodTry
    <3>1. part' \in Nat /\ Accepted'
      <4>1. Opening!Burst \div (frag + 1) \in Nat
        <5> DEFINE b == Opening!Burst
        <5>1. b \in Nat /\ frag \in Nat
          BY GivenSizes DEF SizesInv, SizesOK
        <5> HIDE DEF b
        <5>2. b \div (frag + 1) \in Nat
          BY <5>1
        <5> QED
          BY <5>2 DEF b
      <4>2. /\ hw' = hw
            /\ \/ part' = part
               \/ part' = Opening!Burst \div (frag + 1) /\ Opening!Accepts(part')
        BY <1>4, <2>3 DEF Opening!Period, Opening!PeriodTry, Opening!chosen
      <4> QED
        BY <4>1, <4>2, SizesStay DEF SizesInv, SizesOK, Accepted, Opening!Accepts
    <3> QED
      BY <1>4, <2>3, <3>1, SizesStay
      DEF Opening!Period, SizesInv, SizesOK, Opening!PeriodTry, Opening!More, Opening!Goes,
          Opening!chosen, Opening!limits
  <2> QED
    BY <1>4, <2>1, <2>2, <2>3 DEF Opening!Period
<1>5. CASE Opening!Buffer
  <2>1. buffer' \in Nat
    BY <1>5, GivenSizes DEF SizesInv, Opening!Buffer, Opening!AtMost
  <2> QED
    BY <1>5, <2>1, SizesStay
    DEF SizesInv, SizesOK, Opening!Buffer, Opening!Goes, Opening!chosen, Opening!sizes,
        Opening!limits
<1>6. CASE Opening!Check
  <2>1. Graded'
    BY <1>6, SizesStay
    DEF Graded, Opening!Check, Opening!Tenth, Opening!chosen, Opening!sizes
  <2> QED
    BY <1>6, <2>1, SizesStay
    DEF SizesInv, SizesOK, Opening!Check, Opening!Goes, Opening!chosen, Opening!sizes,
        Opening!limits
<1>7. CASE Opening!Params
  <2>1. Capped'
    BY <1>7 DEF Capped, Opening!Params, Opening!AtMost, Opening!Silent, Opening!chosen
  <2> QED
    BY <1>7, <2>1, SizesStay
    DEF SizesInv, SizesOK, Opening!Params, Opening!Goes, Opening!chosen, Opening!sizes,
        Opening!limits
<1> QED
  BY <1>1, <1>2, <1>3, <1>4, <1>5, <1>6, <1>7
  DEF Opening!Next, Opening!ConnectFails, Opening!ControlFails, Opening!ConfigureFails,
      Opening!BufferFails, Opening!CheckFails, Opening!ParamsFails, Opening!PrepareFails,
      Opening!Close

(* The thresholds stay in the buffer they are made from.                   *)
LEMMA RangesKept ==
  ASSUME SizesInv, RangesInv, Opening!Next
  PROVE  RangesInv'
<1>1. ASSUME NEW from, NEW what, Opening!FailsWith(from, what) PROVE RangesInv'
  BY <1>1
  DEF RangesInv, Opening!Goes, Opening!Burst, Opening!Zero, Opening!chosen, Opening!sizes,
      Opening!limits, Opening!FailsWith
<1>2. CASE \/ Opening!ConnectNamed \/ Opening!ConnectPlain \/ Opening!Control
           \/ Opening!Configure \/ Opening!Status \/ Opening!Prepare
  BY <1>2
  DEF RangesInv, Opening!Goes, Opening!Burst, Opening!Zero, Opening!chosen, Opening!sizes,
      Opening!limits, Opening!ConnectNamed, Opening!ConnectPlain, Opening!Control,
      Opening!Configure, Opening!Status, Opening!Prepare
<1>3. CASE Opening!Begin
  <2>1. opt'.stream.burst \in Nat /\ hw' = hw /\ hw.most \in Nat
    BY <1>3, GivenSizes, StreamAssumption DEF SizesInv, Opening!Begin, Opening!AnyOptions
  <2> QED
    BY <1>3, <2>1 DEF RangesInv, Opening!Begin, Opening!Goes, Opening!Burst, Opening!Zero
<1>4. CASE Opening!Period
  <2>1. part' <= Opening!Burst
    <3> DEFINE b == Opening!Burst
    <3>1. b \in Nat /\ frag \in Nat
      BY GivenSizes DEF SizesInv, SizesOK
    <3>2. part' = part \/ part' = b \div (frag + 1)
      BY <1>4 DEF Opening!Period, Opening!PeriodSkip, Opening!PeriodSmall, Opening!PeriodTry
    <3>3. part <= b
      BY DEF RangesInv
    <3> HIDE DEF b
    <3>4. b \div (frag + 1) <= b
      BY <3>1
    <3>5. part' <= b
      BY <3>2, <3>3, <3>4
    <3> QED
      BY <3>5 DEF b
  <2>2. Opening!Burst' = Opening!Burst
    BY <1>4 DEF Opening!Burst, Opening!Period, Opening!chosen
  <2>3. good' \in BOOLEAN
    BY <1>4
    DEF RangesInv, Opening!Period, Opening!PeriodSkip, Opening!PeriodSmall,
        Opening!PeriodTry, Opening!Accepts
  <2>4. at = "period" /\ at' \in {"period", "buffer"}
    BY <1>4
    DEF Opening!Period, Opening!PeriodSkip, Opening!PeriodSmall, Opening!PeriodTry,
        Opening!Goes, Opening!More
  <2> QED
    BY <1>4, <2>1, <2>2, <2>3, <2>4
    DEF RangesInv, Opening!Period, Opening!chosen, Opening!limits
<1>5. CASE Opening!Buffer
  <2>1. buffer' \in Nat /\ buffer' <= hw.most
    BY <1>5, GivenSizes DEF SizesInv, Opening!Buffer, Opening!AtMost
  <2> QED
    BY <1>5, <2>1
    DEF RangesInv, Opening!Buffer, Opening!Goes, Opening!Burst, Opening!Zero,
        Opening!chosen, Opening!limits
<1>6. CASE Opening!Check
  <2>1. buf' \in [upper : 0..buffer, lower : 0..buffer, high : 0..buffer, alarm : 0..buffer]
    <3> DEFINE t == buffer \div 10
    <3>1. t \in Nat /\ 10 * t <= buffer /\ t \div 3 \in 0..t
      BY DEF SizesInv, SizesOK
    <3>2. buf' = [upper |-> buffer - 3 * t, lower |-> (IF opt.audio THEN 2 ELSE 4) * t,
                  high |-> buffer - t, alarm |-> t \div 3]
      BY <1>6 DEF Opening!Check, Opening!Tenth
    <3> HIDE DEF t
    <3> QED
      BY <3>1, <3>2 DEF SizesInv, SizesOK
  <2> QED
    BY <1>6, <2>1
    DEF RangesInv, Opening!Check, Opening!Goes, Opening!Burst, Opening!chosen, Opening!sizes
<1>7. CASE Opening!Params
  <2>1. start' \in 0..buffer
    <3>1. Opening!Silent * (opt.first + 1) \in Nat
      BY GivenSizes DEF SizesInv
    <3> QED
      BY <1>7, <3>1 DEF RangesInv, Opening!Params, Opening!AtMost, SizesInv, SizesOK
  <2> QED
    BY <1>7, <2>1
    DEF RangesInv, Opening!Params, Opening!Goes, Opening!Burst, Opening!chosen,
        Opening!sizes
<1> QED
  BY <1>1, <1>2, <1>3, <1>4, <1>5, <1>6, <1>7
  DEF Opening!Next, Opening!ConnectFails, Opening!ControlFails, Opening!ConfigureFails,
      Opening!BufferFails, Opening!CheckFails, Opening!ParamsFails, Opening!PrepareFails,
      Opening!Close

(* An open card has what BufferFits asks for.                              *)
LEMMA SizesFit ==
  ASSUME SizesInv, at = "open"
  PROVE  BufferFits
<1>1. Graded /\ Capped /\ Accepted /\ ChosenOK /\ SizesOK
  BY DEF SizesInv
<1>2. Opening!Got # 0 /\ Opening!Got \in Nat
  BY <1>1, GivenSizes DEF Graded, Opening!Fits, Opening!Got, SizesOK
<1>3. Opening!Accepts(Opening!Got)
  BY <1>1, <1>2, GivenSizes, CardAssumption
  DEF Accepted, Opening!Got, Opening!Accepts, ChosenOK
<1>4. Opening!Burst % Opening!Got = 0
  BY <1>1, <1>2, Multiple DEF Graded, Opening!Fits, SizesOK
<1>5. buffer % Opening!Burst = 0
  BY <1>1, GivenSizes, Multiple DEF Graded, Opening!Fits
<1>6. buffer \in Nat /\ 8192 <= buffer /\ buffer <= 16384
  BY <1>1, GivenSizes DEF Graded, Opening!Fits, SizesOK
<1>7. Opening!ThresholdsOrdered
  BY <1>1, <1>6, GivenSizes DEF Graded, Opening!ThresholdsOrdered
<1>8. Opening!StartReached
  <2>1. buf.upper > 0 /\ buf.upper \in Nat /\ buf.upper <= 8 * 1536
    BY <1>1, <1>6 DEF Graded
  <2>2. Opening!Silent * (opt.first + 1) > 0
    BY <1>1, GivenSizes
  <2> QED
    BY <1>1, <2>1, <2>2, GivenSizes DEF Capped, Opening!AtMost, Opening!StartReached
<1> QED
  BY <1>3, <1>4, <1>5, <1>7, <1>8 DEF BufferFits, Opening!PeriodDivides

-----------------------------------------------------------------------------
(* Where the options come from.  The entries of VDR's setup file.          *)
Written(e) ==
  {"Active", "Mp2Enable", "Mp2Out", "PCMinit", "Device"} \subseteq DOMAIN file
  /\ /\ file["Active"] = e.active /\ file["Mp2Enable"] = e.mp2enable
     /\ file["Mp2Out"] = e.mp2spdif
     /\ file["PCMinit"] = e.opt.mdelay /\ file["Device"] = e.opt.device

WordOK ==
  /\ word \subseteq Menu!Bits /\ option \in Menu!Option
  /\ isactive \in BOOLEAN /\ dolby \in BOOLEAN
  /\ todo \subseteq DOMAIN file /\ EntriesOK(file)

StepOK ==
  /\ step \in {"none", "setup", "main", "flags", "end"}
  /\ IF step = "none" THEN menu = Menu!None ELSE todo = {} /\ menu \in Menu!Shown

(* A menu that is stored: its options are in use first, then its bits.     *)
StoringInv ==
  /\ step \in {"flags", "end"} => option = menu.opt
  /\ step = "end" => Menu!InUse = menu

(* The values of what was stored that are in use: all that SetupParse()    *)
(* was called for after a start.                                           *)
ActiveUsed ==
  "Active" \notin todo => /\ stored.active <=> "ACTIVE" \in word
                          /\ stored.active <=> ~dolby
                          /\ todo # {} => isactive = stored.active
EnableUsed == "Mp2Enable" \notin todo => (stored.mp2enable <=> "MP2ENABLE" \in word)
ModeUsed == "Mp2Out" \notin todo => Menu!Mode = stored.mp2spdif
DelayUsed == "PCMinit" \notin todo => option.mdelay = stored.opt.mdelay
DeviceUsed == "Device" \notin todo => option.device = stored.opt.device

(* The entry of an old version is parsed before the one that replaced it.  *)
OldFirst == "Mp2Out" \notin todo => "Mp2Dither" \notin todo

(* What was stored is in the file, and in use but while a menu is stored.  *)
StoredInv ==
  stored # Menu!None =>
    /\ stored \in Menu!Shown /\ Written(stored)
    /\ OldFirst
    /\ step \notin {"flags", "end"} =>
         ActiveUsed /\ EnableUsed /\ ModeUsed /\ DelayUsed /\ DeviceUsed

PartsOK ==
  /\ does \in [Parts -> {"off", "reset", "start", "open", "try", "play"}]
  /\ hasfailed \in [Parts -> BOOLEAN] /\ seen \in [Parts -> Device]

MenuInv == WordOK /\ StepOK /\ StoringInv /\ StoredInv /\ PartsOK

(* The two parts read the options; none of them but RESET do they change.  *)
LEMMA PartsKeep ==
  ASSUME MenuInv, NEW p \in Parts,
         Menu!Activate(p) \/ Menu!Open(p) \/ Menu!SwitchOff(p) \/ Menu!ClearStream(p)
  PROVE  MenuInv'
<1>1. /\ UNCHANGED <<option, isactive, dolby, file, todo, stored, step, menu>>
      /\ word' = word \/ word' = word \ {"RESET"}
  BY DEF Menu!Activate, Menu!Open, Menu!PartGoes, Menu!StartThread, Menu!ReadOptions,
         Menu!OpenDone, Menu!SwitchOff, Menu!ClearStream, Menu!TestReset, Menu!TakeReset,
         Menu!options, Menu!disk, Menu!screen, Menu!parts
<1>2. PartsOK'
  <2>1. CASE Menu!Activate(p)
    BY <2>1
    DEF MenuInv, PartsOK, Menu!Activate, Menu!TestReset, Menu!TakeReset, Menu!StartThread,
        Menu!PartGoes
  <2>2. CASE Menu!Open(p)
    BY <2>2, DeviceAssumption
    DEF MenuInv, PartsOK, WordOK, Menu!Option, Menu!Open, Menu!ReadOptions, Menu!OpenDone,
        Menu!PartGoes
  <2>3. CASE Menu!SwitchOff(p) \/ Menu!ClearStream(p)
    BY <2>3 DEF MenuInv, PartsOK, Menu!SwitchOff, Menu!ClearStream, Menu!PartGoes
  <2> QED
    BY <2>1, <2>2, <2>3
<1>3. Menu!InUse' = Menu!InUse /\ Menu!Mode' = Menu!Mode
  BY <1>1 DEF Menu!InUse, Menu!Mode
<1>4. WordOK' /\ StepOK' /\ StoringInv'
  BY <1>1, <1>3 DEF MenuInv, WordOK, EntriesOK, StepOK, StoringInv
<1>5. StoredInv'
  BY <1>1, <1>3
  DEF MenuInv, StoredInv, Written, OldFirst, ActiveUsed, EnableUsed, ModeUsed, DelayUsed,
      DeviceUsed
<1> QED
  BY <1>2, <1>4, <1>5 DEF MenuInv

(* An entry is parsed: it is in use then, and what was parsed stays.       *)
LEMMA SetupParseKept ==
  ASSUME MenuInv, NEW n \in todo, Menu!SetupParse(n)
  PROVE  MenuInv'
<1>1. WordOK'
  BY DelayAssumption, DeviceAssumption
  DEF MenuInv, WordOK, EntriesOK, Menu!SetupParse, Menu!Parsed, Menu!ParsedOption,
      Menu!ParseBits, Menu!WithSpdif, Menu!WithBit, Menu!Bits, Menu!Option
<1>2. StepOK' /\ StoringInv' /\ PartsOK'
  BY DEF MenuInv, StepOK, StoringInv, PartsOK, Menu!SetupParse, Menu!screen, Menu!parts,
         Menu!None
<1>3. StoredInv'
  <2>0. SUFFICES ASSUME stored # Menu!None PROVE StoredInv'
    BY DEF StoredInv, Menu!SetupParse
  <2>1. /\ stored \in Menu!Shown /\ Written(stored)
        /\ step = "none" /\ todo # {} /\ todo' = todo \ {n}
        /\ UNCHANGED <<stored, file, step>>
    BY <2>0 DEF MenuInv, StoredInv, StepOK, Menu!SetupParse, Menu!screen
  <2>2. stored # Menu!None /\ stored \in Menu!Shown /\ Written(stored)
    BY <2>0, <2>1
  <2>3. OldFirst'
    BY <2>1, <2>0 DEF MenuInv, StoredInv, OldFirst, Menu!SetupParse
  <2>4. ActiveUsed'
    BY <2>0, <2>1
    DEF MenuInv, StoredInv, ActiveUsed, Written, WordOK, Menu!SetupParse, Menu!Parsed,
        Menu!ParseBits, Menu!WithSpdif, Menu!WithBit, Menu!Shown
  <2>5. EnableUsed'
    BY <2>0, <2>1
    DEF MenuInv, StoredInv, EnableUsed, Written, WordOK, Menu!SetupParse, Menu!Parsed,
        Menu!ParseBits, Menu!WithSpdif, Menu!WithBit, Menu!Shown
  <2>6. ModeUsed'
    BY <2>0, <2>1
    DEF MenuInv, StoredInv, OldFirst, ModeUsed, Written, WordOK, Menu!SetupParse,
        Menu!Parsed, Menu!ParseBits, Menu!WithSpdif, Menu!WithBit, Menu!Shown, Menu!Mode
  <2>7. DelayUsed'
    BY <2>0, <2>1
    DEF MenuInv, StoredInv, DelayUsed, Written, WordOK, Menu!SetupParse, Menu!ParsedOption,
        Menu!Shown, Menu!Option
  <2>8. DeviceUsed'
    BY <2>0, <2>1
    DEF MenuInv, StoredInv, DeviceUsed, Written, WordOK, Menu!SetupParse, Menu!ParsedOption,
        Menu!Shown, Menu!Option
  <2> QED
    BY <2>1, <2>2, <2>3, <2>4, <2>5, <2>6, <2>7, <2>8 DEF StoredInv, Written
<1> QED
  BY <1>1, <1>2, <1>3 DEF MenuInv

(* A menu is opened: it writes the bits it has read.                       *)
LEMMA SetKept ==
  ASSUME MenuInv, NEW which \in {"setup", "main"}, Menu!Set(which)
  PROVE  MenuInv'
<1>1. WordOK' /\ PartsOK'
  BY DEF MenuInv, WordOK, PartsOK, Menu!Set, Menu!WithSpdif, Menu!WithOnly, Menu!Bits,
         Menu!disk, Menu!parts
<1>2. StepOK' /\ StoringInv'
  <2>1. Menu!Mode \in 0..2
    BY DEF Menu!Mode
  <2>2. Menu!InUse \in Menu!Shown
    BY <2>1 DEF MenuInv, WordOK, Menu!InUse, Menu!Shown
  <2>3. menu' \in Menu!Shown
    BY <2>1, <2>2 DEF Menu!Set, Menu!ShownChoice, Menu!Shown
  <2> QED
    BY <2>3 DEF MenuInv, StepOK, StoringInv, Menu!Set, Menu!disk
<1>3. StoredInv'
  BY DEF MenuInv, WordOK, StepOK, StoredInv, Written, OldFirst, ActiveUsed, EnableUsed,
         ModeUsed, DelayUsed, DeviceUsed, Menu!Set, Menu!ShownChoice, Menu!WithSpdif,
         Menu!WithOnly, Menu!Mode, Menu!Shown, Menu!disk
<1> QED
  BY <1>1, <1>2, <1>3 DEF MenuInv

(* An open menu changes nothing that is in use.                            *)
LEMMA EditKept ==
  ASSUME MenuInv, Menu!Edit \/ Menu!Leave
  PROVE  MenuInv'
<1>1. WordOK' /\ PartsOK'
  BY DEF MenuInv, WordOK, PartsOK, Menu!Edit, Menu!Leave, Menu!options, Menu!disk,
         Menu!parts
<1>2. StepOK' /\ StoringInv'
  BY DelayAssumption, DeviceAssumption
  DEF MenuInv, StepOK, StoringInv, Menu!Edit, Menu!Leave, Menu!Shown, Menu!None,
      Menu!Option, Menu!options, Menu!disk
<1>3. StoredInv'
  BY DEF MenuInv, StepOK, StoredInv, Written, OldFirst, ActiveUsed, EnableUsed, ModeUsed,
         DelayUsed, DeviceUsed, Menu!Edit, Menu!Leave, Menu!Mode, Menu!options, Menu!disk
<1> QED
  BY <1>1, <1>2, <1>3 DEF MenuInv

(* Store() puts the values of the menu in use ...                          *)
LEMMA StoreValuesKept ==
  ASSUME MenuInv, Menu!StoreValues
  PROVE  MenuInv'
<1>1. WordOK'
  <2>1. step # "none" => menu.opt \in Menu!Option
    BY DEF MenuInv, StepOK, Menu!Shown
  <2> QED
    BY <2>1
    DEF MenuInv, WordOK, EntriesOK, Menu!StoreValues, Menu!WithOnly, Menu!WithSpdif,
        Menu!WithBit, Menu!Bits, Menu!disk
<1>2. StepOK' /\ PartsOK'
  BY DEF MenuInv, StepOK, PartsOK, Menu!StoreValues, Menu!disk, Menu!parts
<1>3. StoringInv'
  BY DEF MenuInv, WordOK, StepOK, StoringInv, Menu!StoreValues, Menu!WithOnly,
         Menu!WithSpdif, Menu!WithBit, Menu!InUse, Menu!Mode, Menu!Shown, Menu!Option
<1>4. StoredInv'
  BY DEF MenuInv, StepOK, StoredInv, Written, OldFirst, Menu!StoreValues, Menu!disk
<1> QED
  BY <1>1, <1>2, <1>3, <1>4 DEF MenuInv

(* ... and then into the file.                                             *)
LEMMA StoreEndKept ==
  ASSUME MenuInv, Menu!StoreEnd
  PROVE  MenuInv'
<1>1. WordOK'
  <2>1. menu \in Menu!Shown
    BY DEF MenuInv, StepOK, Menu!StoreEnd
  <2>2. EntriesOK(Menu!Entries(menu)) /\ Menu!Entries(menu).PCMinit \in Nat
    BY <2>1 DEF EntriesOK, Menu!Entries, Menu!Shown, Menu!Option
  <2>3. DOMAIN Menu!Entries(menu) = {"Active", "Mp2Enable", "Mp2Out", "PCMinit", "Device"}
    BY DEF Menu!Entries
  <2>4. EntriesOK(file')
    <3>1. file' = Menu!Updated(file, Menu!Entries(menu)) /\ EntriesOK(file)
      BY DEF MenuInv, WordOK, Menu!StoreEnd
    <3> QED
      BY <2>2, <2>3, <3>1 DEF EntriesOK, Menu!Updated
  <2> QED
    BY <2>1, <2>4
    DEF MenuInv, WordOK, Menu!StoreEnd, Menu!Updated, Menu!Bits, Menu!Shown, StepOK
<1>2. StepOK' /\ StoringInv' /\ PartsOK'
  BY DEF MenuInv, StepOK, StoringInv, PartsOK, Menu!StoreEnd, Menu!parts
<1>3. StoredInv'
  <2>1. menu \in Menu!Shown /\ todo = {} /\ option = menu.opt /\ Menu!InUse = menu
    BY DEF MenuInv, StepOK, StoringInv, Menu!StoreEnd
  <2>2. Written(stored)' /\ stored' = menu
    BY <2>1 DEF Written, Menu!StoreEnd, Menu!Updated, Menu!Entries
  <2>3. /\ menu.active <=> "ACTIVE" \in word
        /\ menu.mp2enable <=> "MP2ENABLE" \in word
        /\ Menu!Mode = menu.mp2spdif
    BY <2>1 DEF Menu!InUse, Menu!Shown
  <2>4. Menu!Mode' = Menu!Mode
    BY DEF Menu!Mode, Menu!StoreEnd
  <2> QED
    BY <2>1, <2>2, <2>3, <2>4
    DEF StoredInv, OldFirst, ActiveUsed, EnableUsed, ModeUsed, DelayUsed, DeviceUsed,
        Written, Menu!StoreEnd, Menu!Shown, Menu!Bits
<1> QED
  BY <1>1, <1>2, <1>3 DEF MenuInv

(* After a restart nothing is in use until it is parsed.                   *)
LEMMA RestartKept ==
  ASSUME MenuInv, Menu!Restart
  PROVE  MenuInv'
<1>1. WordOK' /\ PartsOK'
  BY DeviceAssumption
  DEF MenuInv, WordOK, PartsOK, Menu!Restart, Menu!Fresh, Menu!Bits, Menu!Option
<1>2. StepOK' /\ StoringInv'
  BY DEF MenuInv, StepOK, StoringInv, Menu!Restart
<1>3. StoredInv'
  BY DEF MenuInv, StoredInv, Written, OldFirst, ActiveUsed, EnableUsed, ModeUsed, DelayUsed,
         DeviceUsed, Menu!Restart
<1> QED
  BY <1>1, <1>2, <1>3 DEF MenuInv

-----------------------------------------------------------------------------
(* The three invariants together.                                          *)
IInv == CardInv /\ OpenInv /\ MenuInv

LEMMA InitIInv == DeviceInit => IInv
<1> SUFFICES ASSUME DeviceInit PROVE IInv
  OBVIOUS
<1>1. TruthOK
  BY Zenon DEF DeviceInit, Init, TruthOK
<1>2. PlacesOK /\ RolesInv /\ LockInv /\ ControlInv
  BY MaxOpenAssumption
  DEF DeviceInit, Init, PlacesOK, RolesInv, LockInv, ControlInv, Nested, Locked, Controls,
      Part, Thread, Of, None, Forwarding, Closing
<1>3. ApartInv /\ OwnerInv /\ HandleInv
  BY DEF DeviceInit, Init, ApartInv, OwnerInv, HandleInv, Owns, Playing, Before, Controls,
         Part, Thread, Of, None, Closing
<1>4. HeldInv
  BY DEF DeviceInit, Opening!Init, HeldInv
<1>5. SizesInv
  BY DEF DeviceInit, Opening!Init, SizesInv, ChosenOK, SizesOK, Accepted
<1>6. RangesInv
  BY <1>5, GivenSizes DEF DeviceInit, Opening!Init, RangesInv, SizesInv, Opening!Zero
<1>7. MenuInv
  BY FileAssumption, DeviceAssumption
  DEF DeviceInit, Menu!Init, MenuInv, WordOK, StepOK, StoringInv, StoredInv, PartsOK,
      Menu!Bits, Menu!Option
<1> QED
  BY <1>1, <1>2, <1>3, <1>4, <1>5, <1>6, <1>7 DEF IInv, CardInv, ThreadsInv, OpenInv

LEMMA CardStep == CardInv /\ [Next]_vars => CardInv'
<1> SUFFICES ASSUME CardInv, [Next]_vars PROVE CardInv'
  OBVIOUS
<1>1. CASE UNCHANGED vars
  BY <1>1
  DEF vars, bits, library, threads, setup, vdr, CardInv, ThreadsInv, TruthOK, PlacesOK,
      RolesInv, LockInv, ControlInv, ApartInv, OwnerInv, HandleInv, Owns, Nested
<1>2. ASSUME NEW t \in Thread, Card(t) PROVE CardInv'
  BY <1>2, CloseKeeps DEF Card
<1>3. ASSUME NEW t \in Controls, Control(t) PROVE CardInv'
  BY <1>2, <1>3, OffKeeps DEF Control, Controls, Thread
<1>4. ASSUME NEW p \in Part, Forwarder(p) PROVE CardInv'
  BY <1>2, <1>4, OpenKeeps, ForwardKeeps DEF Forwarder, Thread
<1>5. CASE Main
  BY <1>3, <1>5, StartKeeps DEF Main, StartLive, Controls
<1>6. CASE Player
  BY <1>3, <1>6, StartKeeps DEF Player, StartReplay, Controls
<1>7. CASE Vdr
  BY <1>7, BeginKeeps, OffKeeps DEF Vdr, Controls
<1> QED
  BY <1>1, <1>4, <1>5, <1>6, <1>7 DEF Next

LEMMA OpenStep == OpenInv /\ [Opening!Next]_open => OpenInv'
<1> SUFFICES ASSUME OpenInv, [Opening!Next]_open PROVE OpenInv'
  OBVIOUS
<1>1. CASE UNCHANGED open
  <2>1. HeldInv'
    BY <1>1 DEF OpenInv, HeldInv, open
  <2>2. SizesInv'
    BY <1>1, SizesStay DEF OpenInv, SizesInv, SizesOK, open
  <2>3. RangesInv'
    BY <1>1 DEF OpenInv, RangesInv, Opening!Burst, Opening!Zero, open
  <2> QED
    BY <2>1, <2>2, <2>3 DEF OpenInv
<1> QED
  BY <1>1, HeldKept, SizesKept, RangesKept DEF OpenInv

LEMMA MenuStep == MenuInv /\ [Menu!Next]_menus => MenuInv'
<1> SUFFICES ASSUME MenuInv, [Menu!Next]_menus PROVE MenuInv'
  OBVIOUS
<1>1. CASE UNCHANGED menus
  BY <1>1
  DEF menus, MenuInv, WordOK, StepOK, StoringInv, StoredInv, OldFirst, ActiveUsed,
      EnableUsed, ModeUsed, DelayUsed, DeviceUsed, Written, PartsOK, Menu!InUse, Menu!Mode
<1> QED
  BY <1>1, PartsKeep, SetupParseKept, SetKept, EditKept, StoreValuesKept, StoreEndKept,
     RestartKept
  DEF Menu!Next, Menu!Store

LEMMA StepIInv ==
  IInv /\ [DeviceNext]_<<view, vars, open, menus>> => IInv'
  BY CardStep, OpenStep, MenuStep DEF IInv, DeviceNext

LEMMA Invariance == DeviceSpec => []IInv
  BY InitIInv, StepIInv, PTL DEF DeviceSpec

-----------------------------------------------------------------------------
(* The variables of the three views keep their types.                      *)
THEOREM TypeCorrect == DeviceSpec => []TypesOK
<1>1. CardInv => TypeOK
  BY Zenon DEF CardInv, ThreadsInv, TruthOK, PlacesOK, TypeOK
<1>2. OpenInv => Opening!TypeOK
  <2> SUFFICES ASSUME OpenInv PROVE Opening!TypeOK
    OBVIOUS
  <2>1. part \in 0..Opening!Burst /\ buffer \in 0..hw.most
    BY GivenSizes DEF OpenInv, SizesInv, SizesOK, RangesInv
  <2>2. unowned \in BOOLEAN
    BY DEF OpenInv, HeldInv
  <2> QED
    BY <2>1, <2>2
    DEF OpenInv, HeldInv, SizesInv, SizesOK, ChosenOK, RangesInv, Opening!TypeOK,
        Opening!AnyOptions, Opening!Burst
<1>3. MenuInv => Menu!TypeOK
  BY DEF MenuInv, WordOK, StepOK, StoredInv, PartsOK, Menu!TypeOK
<1> QED
  BY <1>1, <1>2, <1>3, Invariance, PTL DEF IInv, TypesOK

(* While the parts are kept apart Open() finds the card closed, and until  *)
(* they have crossed a thread that has opened it plays its own stream.     *)
THEOREM CardOwned == DeviceSpec => []CardIsOwned
<1>1. CardInv => OpenFindsClosed
  BY DEF CardInv, ThreadsInv, OwnerInv, OpenFindsClosed
<1>2. CardInv => PlaysOwnStream
  BY DEF CardInv, ThreadsInv, OwnerInv, Owns, PlaysOwnStream
<1> QED
  BY <1>1, <1>2, Invariance, PTL DEF IInv, CardIsOwned

(* Threads give the library only handles that are open, none is lost       *)
(* beside another thread, and an Open() that fails gives back what it got, *)
(* once, by whichever of its labels it leaves.                             *)
THEOREM HandlesHeld == DeviceSpec => []HandlesKept
<1>1. CardInv => HandlesAreOpen
  BY DEF CardInv, ThreadsInv, PlacesOK, RolesInv, LockInv, OwnerInv, HandleInv,
         HandlesAreOpen, Owns, Before, Locked, Playing, Closing, Controls, Part, Thread, Of,
         Nested
<1>2. CardInv => NoHandleLost
  BY DEF CardInv, ThreadsInv, LockInv, HandleInv, NoHandleLost, Locked, Thread, Part, None,
         PlacesOK
<1>3. OpenInv => Opening!NothingKept
  BY DEF OpenInv, HeldInv, Opening!NothingKept
<1> QED
  BY <1>1, <1>2, <1>3, Invariance, PTL DEF IInv, HandlesKept

(* What Open() agrees on with any card for any stream: a period that       *)
(* divides the burst, thresholds in order, and a start threshold the       *)
(* start frames reach.                                                     *)
THEOREM BufferAgreed == DeviceSpec => []BufferFits
<1>1. OpenInv => BufferFits
  BY SizesFit
  DEF OpenInv, BufferFits, Opening!PeriodDivides, Opening!ThresholdsOrdered,
      Opening!StartReached
<1> QED
  BY <1>1, Invariance, PTL DEF IInv

(* What the viewer stored is in use after every menu and every restart,    *)
(* and the transfer mode follows it, whatever else is in the setup file.   *)
THEOREM SetupKept == DeviceSpec => []SetupStored
<1>1. MenuInv => Menu!StoredIsUsed
  <2> SUFFICES ASSUME MenuInv, todo = {}, step \in {"none", "setup", "main"},
                      stored # Menu!None
               PROVE  Menu!InUse = stored
    BY DEF Menu!StoredIsUsed
  <2>1. /\ "ACTIVE" \in word <=> stored.active
        /\ "MP2ENABLE" \in word <=> stored.mp2enable
        /\ Menu!Mode = stored.mp2spdif
        /\ option.mdelay = stored.opt.mdelay /\ option.device = stored.opt.device
    BY DEF MenuInv, StoredInv, ActiveUsed, EnableUsed, ModeUsed, DelayUsed, DeviceUsed
  <2>2. stored \in Menu!Shown /\ option \in Menu!Option
    BY DEF MenuInv, StoredInv, WordOK
  <2>3. option = stored.opt
    BY <2>1, <2>2 DEF Menu!Shown, Menu!Option
  <2> QED
    BY <2>1, <2>2, <2>3 DEF Menu!InUse, Menu!Shown
<1>2. MenuInv => Menu!TransferFollows
  BY DEF MenuInv, WordOK, StoredInv, ActiveUsed, Menu!TransferFollows
<1> QED
  BY <1>1, <1>2, Invariance, PTL DEF IInv, SetupStored
(* For one part the RESET a stored setup raises is its own until it tries   *)
(* again: the options a failed part has seen, or the one in Open() has      *)
(* read, are the ones in use, or RESET is there or will be.                 *)
Renewed == "RESET" \in word \/ step \in {"flags", "end"}
Tries(p) ==
  /\ todo # {} => does[p] = "off" /\ ~hasfailed[p]
  /\ does[p] \in {"reset", "open", "try"} => ~hasfailed[p]
  /\ hasfailed[p] => option.device \notin Works \/ Renewed
  /\ does[p] = "try" => seen[p] = option.device \/ Renewed

LEMMA TriesKept ==
  ASSUME NEW only, Parts = {only}, MenuInv, Tries(only), [Menu!Next]_menus
  PROVE  Tries(only)'
<1>1. /\ does \in [Parts -> {"off", "reset", "start", "open", "try", "play"}]
      /\ hasfailed \in [Parts -> BOOLEAN] /\ seen \in [Parts -> Device]
      /\ only \in Parts
  BY DEF MenuInv, PartsOK
<1>2. CASE UNCHANGED menus
  BY <1>2 DEF Tries, Renewed, menus
<1>3. ASSUME NEW n \in todo, Menu!SetupParse(n) PROVE Tries(only)'
  BY <1>1, <1>3 DEF Tries, Menu!SetupParse, Menu!screen, Menu!parts
<1>4. ASSUME NEW which \in {"setup", "main"}, Menu!Set(which) PROVE Tries(only)'
  BY <1>1, <1>4
  DEF Tries, Renewed, Menu!Set, Menu!WithSpdif, Menu!WithOnly, Menu!disk, Menu!parts
<1>5. CASE Menu!Edit \/ Menu!Leave
  BY <1>1, <1>5
  DEF Tries, Renewed, Menu!Edit, Menu!Leave, Menu!options, Menu!disk, Menu!parts
<1>6. CASE Menu!StoreValues
  BY <1>1, <1>6 DEF Tries, Renewed, Menu!StoreValues, Menu!disk, Menu!parts
<1>7. CASE Menu!StoreEnd
  BY <1>1, <1>7 DEF Tries, Renewed, Menu!StoreEnd, Menu!parts
<1>8. CASE Menu!Restart
  BY <1>1, <1>8 DEF Tries, Menu!Restart, Menu!Fresh
<1>9. CASE Menu!Activate(only)
  <2>1. CASE Menu!TestReset(only)
    BY <1>1, <2>1
    DEF Tries, Renewed, Menu!TestReset, Menu!PartGoes, Menu!options, Menu!disk, Menu!screen
  <2>2. CASE Menu!TakeReset(only)
    BY <1>1, <2>2
    DEF Tries, Renewed, Menu!TakeReset, Menu!PartGoes, Menu!disk, Menu!screen
  <2>3. CASE Menu!StartThread(only)
    BY <1>1, <2>3
    DEF Tries, Renewed, Menu!StartThread, Menu!PartGoes, Menu!options, Menu!disk,
        Menu!screen
  <2> QED
    BY <1>9, <2>1, <2>2, <2>3 DEF Menu!Activate
<1>10. CASE Menu!Open(only)
  <2>1. CASE Menu!ReadOptions(only)
    BY <1>1, <2>1
    DEF Tries, Renewed, Menu!ReadOptions, Menu!PartGoes, Menu!options, Menu!disk,
        Menu!screen
  <2>2. CASE Menu!OpenDone(only)
    BY <1>1, <2>2
    DEF Tries, Renewed, Menu!OpenDone, Menu!PartGoes, Menu!options, Menu!disk, Menu!screen
  <2> QED
    BY <1>10, <2>1, <2>2 DEF Menu!Open
<1>11. CASE Menu!SwitchOff(only) \/ Menu!ClearStream(only)
  BY <1>1, <1>11
  DEF Tries, Renewed, Menu!SwitchOff, Menu!ClearStream, Menu!PartGoes, Menu!options,
      Menu!disk, Menu!screen
<1> QED
  BY <1>2, <1>3, <1>4, <1>5, <1>6, <1>7, <1>8, <1>9, <1>10, <1>11 DEF Menu!Next, Menu!Store

(* A single part that has failed tries again after new options: the RESET   *)
(* they raise is there until that part takes it.  Two parts share the one   *)
(* RESET, and the first takes it from the other.                            *)
THEOREM OneTriesAgain ==
  ASSUME NEW only, Parts = {only}
  PROVE  DeviceSpec => []FailedTriesAgain
<1>1. DeviceInit => Tries(only)
  BY DEF DeviceInit, Menu!Init, Tries
<1>2. IInv /\ Tries(only) /\ [DeviceNext]_<<view, vars, open, menus>> => Tries(only)'
  BY TriesKept DEF IInv, DeviceNext
<1>3. Tries(only) => FailedTriesAgain
  BY DEF Tries, Renewed, FailedTriesAgain, Menu!FailedTriesAgain
<1> QED
  BY <1>1, <1>2, <1>3, Invariance, PTL DEF DeviceSpec
=============================================================================
