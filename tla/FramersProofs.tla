--------------------------- MODULE FramersProofs ---------------------------
(* Proofs about the clock and the scanners of the framers, for all streams,  *)
(* however they are cut into pieces, all devices, jumps of their clocks and  *)
(* steps of the time.                                                        *)
EXTENDS Framers, TLAPS

-----------------------------------------------------------------------------
(* Numbers and sequences.                                                    *)

LEMMA Difference ==
  ASSUME NEW a \in Nat, NEW b \in Nat, a <= b
  PROVE  b - a \in Nat /\ b = a + (b - a)
OBVIOUS

LEMMA Joined ==
  ASSUME NEW S, NEW p \in Seq(S), NEW q \in Seq(S)
  PROVE  p \o q \in Seq(S) /\ Len(p \o q) = Len(p) + Len(q)
OBVIOUS

-----------------------------------------------------------------------------
(* The clock: what the operators on the fields of cPTS leave as it was.      *)

Fields == [pts : Int, stc : Int, off : Int, min : Int, expire : Int,
           syncstc : Int, current : Int, previous : Int, err : Int,
           AVsync : BOOLEAN, Started : BOOLEAN, Synching : BOOLEAN,
           HasPTS : BOOLEAN]

InRange(p) == /\ p \in Fields
              /\ p.err \in 0..11 /\ p.min <= 200
              /\ p.current \in 0..now /\ p.previous \in 0..now
              /\ p.expire \in 0..now + 2000 /\ p.syncstc \in 0..now + 480

\* The timers that run in `o' run on in p.
RunsOn(p) == /\ o.expire # 0 => p.expire = o.expire
             /\ o.syncstc # 0 => p.syncstc = o.syncstc

ClockInv == /\ now \in 1..MaxNow /\ come \in 0..MaxCome /\ fill \in Nat
            /\ device \in Devices /\ clk \in Int
            /\ {runs, steady, first} \subseteq BOOLEAN

\* A refused packet has started the short timer, a skipped frame the long one,
\* and frames are only skipped while the next one is checked.
RefusalInv == /\ refusal \in 0..now
              /\ refusal # 0 => o.syncstc # 0 /\ o.syncstc <= refusal + 480
              /\ refusedFor \in 0..480
SkipInv == /\ skipping \in 0..now
           /\ skipping # 0 => first /\ o.expire # 0 /\ o.expire <= skipping + 2000
           /\ skippedFor \in 0..2000

IInv == ClockInv /\ InRange(o) /\ RefusalInv /\ SkipInv

\* One field at a time.
Numbers == {"pts", "stc", "off", "min", "expire", "syncstc", "current", "previous", "err"}
Flags == {"AVsync", "Started", "Synching", "HasPTS"}

LEMMA SetNumber ==
  ASSUME NEW p \in Fields, NEW f \in Numbers, NEW x \in Int
  PROVE  [p EXCEPT ![f] = x] \in Fields
BY DEF Fields, Numbers

LEMMA SetFlag ==
  ASSUME NEW p \in Fields, NEW f \in Flags, NEW x \in BOOLEAN
  PROVE  [p EXCEPT ![f] = x] \in Fields
BY DEF Fields, Flags

\* No range and no timer depends on these fields.
Same(p, q) == q.expire = p.expire /\ q.syncstc = p.syncstc
Fine(p) == InRange(p) /\ RunsOn(p)

LEMMA FreeNumber ==
  ASSUME NEW p, Fine(p), NEW f \in {"pts", "stc", "off"}, NEW x \in Int
  PROVE  Fine([p EXCEPT ![f] = x]) /\ Same(p, [p EXCEPT ![f] = x])
<1> DEFINE q == [p EXCEPT ![f] = x]
<1>1. p \in Fields
  BY DEF Fine, InRange
<1>2. q \in Fields
  BY <1>1, SetNumber DEF Numbers
<1>3. /\ q.err = p.err /\ q.min = p.min /\ q.current = p.current
      /\ q.previous = p.previous /\ q.expire = p.expire /\ q.syncstc = p.syncstc
  BY <1>1 DEF Fields
<1> HIDE DEF q
<1>4. Fine(q) /\ Same(p, q)
  BY <1>2, <1>3 DEF Fine, InRange, RunsOn, Same
<1> QED
  BY <1>4 DEF q

LEMMA FreeFlag ==
  ASSUME NEW p, Fine(p), NEW f \in Flags, NEW x \in BOOLEAN
  PROVE  Fine([p EXCEPT ![f] = x]) /\ Same(p, [p EXCEPT ![f] = x])
<1> DEFINE q == [p EXCEPT ![f] = x]
<1>1. p \in Fields
  BY DEF Fine, InRange
<1>2. q \in Fields
  BY <1>1, SetFlag
<1>3. /\ q.err = p.err /\ q.min = p.min /\ q.current = p.current
      /\ q.previous = p.previous /\ q.expire = p.expire /\ q.syncstc = p.syncstc
  BY <1>1 DEF Fields, Flags
<1> HIDE DEF q
<1>4. Fine(q) /\ Same(p, q)
  BY <1>2, <1>3 DEF Fine, InRange, RunsOn, Same
<1> QED
  BY <1>4 DEF q

\* A timer is set, or runs on.
LEMMA SetExpire ==
  ASSUME NEW p, Fine(p), NEW x \in 0..now + 2000, p.expire # 0 => x = p.expire
  PROVE  LET q == [p EXCEPT !.expire = x]
         IN Fine(q) /\ q.expire = x /\ q.syncstc = p.syncstc
<1> DEFINE q == [p EXCEPT !.expire = x]
<1>1. p \in Fields /\ x \in Int
  BY DEF Fine, InRange
<1>2. q \in Fields
  BY <1>1, SetNumber DEF Numbers
<1>3. /\ q.err = p.err /\ q.min = p.min /\ q.current = p.current
      /\ q.previous = p.previous /\ q.expire = x /\ q.syncstc = p.syncstc
  BY <1>1 DEF Fields
<1> HIDE DEF q
<1>4. Fine(q) /\ q.expire = x /\ q.syncstc = p.syncstc
  BY <1>2, <1>3 DEF Fine, InRange, RunsOn
<1> QED
  BY <1>4 DEF q

LEMMA SetSyncstc ==
  ASSUME NEW p, Fine(p), NEW x \in 0..now + 480, p.syncstc # 0 => x = p.syncstc
  PROVE  LET q == [p EXCEPT !.syncstc = x]
         IN Fine(q) /\ q.syncstc = x /\ q.expire = p.expire
<1> DEFINE q == [p EXCEPT !.syncstc = x]
<1>1. p \in Fields /\ x \in Int
  BY DEF Fine, InRange
<1>2. q \in Fields
  BY <1>1, SetNumber DEF Numbers
<1>3. /\ q.err = p.err /\ q.min = p.min /\ q.current = p.current
      /\ q.previous = p.previous /\ q.expire = p.expire /\ q.syncstc = x
  BY <1>1 DEF Fields
<1> HIDE DEF q
<1>4. Fine(q) /\ q.syncstc = x /\ q.expire = p.expire
  BY <1>2, <1>3 DEF Fine, InRange, RunsOn
<1> QED
  BY <1>4 DEF q

LEMMA SetPlain ==
  ASSUME NEW p, Fine(p), NEW f \in {"current", "previous"}, NEW x \in 0..now
  PROVE  LET q == [p EXCEPT ![f] = x]
         IN Fine(q) /\ Same(p, q)
<1> DEFINE q == [p EXCEPT ![f] = x]
<1>1. p \in Fields /\ x \in Int
  BY DEF Fine, InRange
<1>2. q \in Fields
  BY <1>1, SetNumber DEF Numbers
<1>3. /\ q.err = p.err /\ q.min = p.min /\ q.expire = p.expire /\ q.syncstc = p.syncstc
      /\ q.current \in {p.current, x} /\ q.previous \in {p.previous, x}
  BY <1>1 DEF Fields
<1> HIDE DEF q
<1>4. Fine(q) /\ Same(p, q)
  BY <1>2, <1>3 DEF Fine, InRange, RunsOn, Same
<1> QED
  BY <1>4 DEF q

LEMMA LookKept ==
  ASSUME now \in Nat, NEW p, Fine(p)
  PROVE  Fine(Look(p)) /\ Same(p, Look(p))
<1> DEFINE x == IF p.current # 0 THEN p.current ELSE p.previous
           q == [p EXCEPT !.previous = x]
<1>1. x \in 0..now
  BY DEF Fine, InRange
<1> HIDE DEF x
<1>2. Fine(q) /\ Same(p, q)
  BY <1>1, SetPlain
<1> HIDE DEF q
<1>3. Fine([q EXCEPT !.current = now]) /\ Same(q, [q EXCEPT !.current = now])
  BY <1>2, SetPlain
<1>4. Look(p) = [q EXCEPT !.current = now]
  BY DEF Look, q, x
<1> QED
  BY <1>2, <1>3, <1>4 DEF Same

LEMMA timermarkKept ==
  ASSUME now \in Nat, NEW p, Fine(p)
  PROVE  Fine(timermark(p))
<1> DEFINE prev == IF p.previous = 0 THEN now ELSE p.previous
           q == [p EXCEPT !.previous = prev]
           x == IF q.expire = 0 THEN prev + 2000 ELSE q.expire
           r == [q EXCEPT !.expire = x]
           y == IF r.syncstc = 0 THEN prev + 480 ELSE r.syncstc
<1>1. prev \in 0..now
  BY DEF Fine, InRange
<1>2. timermark(p) = [r EXCEPT !.syncstc = y]
  <2>1. p.expire = q.expire /\ p.syncstc = r.syncstc
    BY DEF Fine, InRange, Fields
  <2> QED
    BY <2>1 DEF timermark
<1> HIDE DEF prev
<1>3. Fine(q)
  BY <1>1, SetPlain
<1> HIDE DEF q
<1>4. x \in 0..now + 2000 /\ (q.expire # 0 => x = q.expire)
  BY <1>1, <1>3 DEF Fine, InRange
<1> HIDE DEF x
<1>5. Fine(r)
  BY <1>3, <1>4, SetExpire
<1> HIDE DEF r
<1>6. y \in 0..now + 480 /\ (r.syncstc # 0 => y = r.syncstc)
  BY <1>1, <1>5 DEF Fine, InRange
<1> HIDE DEF y
<1> QED
  BY <1>2, <1>5, <1>6, SetSyncstc

LEMMA ExpireKept ==
  ASSUME now \in Nat, NEW p, Fine(p)
  PROVE  Fine(ExpireTimer(p)) /\ ExpireTimer(p).expire # 0
<1> DEFINE q == Look(p)
           x == IF q.expire = 0 THEN now + 2000 ELSE q.expire
<1>1. Fine(q)
  BY LookKept
<1>2. ExpireTimer(p) = [q EXCEPT !.expire = x]
  BY DEF ExpireTimer
<1> HIDE DEF q
<1>3. x \in 0..now + 2000 /\ (q.expire # 0 => x = q.expire) /\ x # 0
  BY <1>1 DEF Fine, InRange
<1> HIDE DEF x
<1> QED
  BY <1>1, <1>2, <1>3, SetExpire

LEMMA SyncKept ==
  ASSUME now \in Nat, NEW p, Fine(p)
  PROVE  Fine(SyncTimer(p)) /\ SyncTimer(p).syncstc # 0
<1> DEFINE q == Look(p)
           x == IF q.syncstc = 0 THEN now + 480 ELSE q.syncstc
<1>1. Fine(q)
  BY LookKept
<1>2. SyncTimer(p) = [q EXCEPT !.syncstc = x]
  BY DEF SyncTimer
<1> HIDE DEF q
<1>3. x \in 0..now + 480 /\ (q.syncstc # 0 => x = q.syncstc) /\ x # 0
  BY <1>1 DEF Fine, InRange
<1> HIDE DEF x
<1> QED
  BY <1>1, <1>2, <1>3, SetSyncstc

LEMMA PeriodIsPositive ==
  /\ Period \in Nat \ {0}
  /\ \A x \in Int : x % Period \in 0..Period - 1 /\ x % STC_STATERR \in 0..STC_STATERR - 1
BY WidthAssumption DEF Period

LEMMA TimeKept ==
  ASSUME device \in Devices, clk \in Int, NEW p, Fine(p)
  PROVE  Fine(Time(p)) /\ Same(p, Time(p))
<1> USE WidthAssumption, DeviceAssumption
<1> DEFINE x == CorrectedSTC(p)
           d == Distance(p.pts, x)
           q == [p EXCEPT !.stc = x]
<1>1. p.pts \in Int
  BY DEF Fine, InRange, Fields
<1>2. GetSTC \in Int
  BY PeriodIsPositive DEF GetSTC
<1>3. x \in Int
  BY <1>2 DEF CorrectedSTC
<1>4. Time(p) = [q EXCEPT !.off = d]
  BY DEF Time
<1> HIDE DEF x
<1>5. d \in Int
  BY <1>1, <1>3 DEF Distance, Wrapped
<1> HIDE DEF d
<1>6. Fine(q) /\ Same(p, q)
  BY <1>3, FreeNumber
<1> HIDE DEF q
<1> QED
  BY <1>4, <1>5, <1>6, FreeNumber DEF Same

LEMMA ReadKept ==
  ASSUME device \in Devices, clk \in Int, NEW p, Fine(p)
  PROVE  Fine(Read(p)) /\ Same(p, Read(p))
<1> DEFINE q == Time(p)
           b == Synced(p)
<1>1. b \in BOOLEAN
  <2>1. p.AVsync \in BOOLEAN
    BY DEF Fine, InRange, Fields
  <2> QED
    BY Zenon, <2>1 DEF Synced, Flows
<1>2. Read(p) = [q EXCEPT !.AVsync = b]
  BY DEF Read
<1>3. Fine(q) /\ Same(p, q)
  BY TimeKept
<1> HIDE DEF q, b
<1> QED
  BY <1>1, <1>2, <1>3, FreeFlag DEF Same, Flags

LEMMA NoTimeKept ==
  ASSUME NEW p, Fine(p)
  PROVE  Fine(NoTime(p)) /\ Same(p, NoTime(p))
<1> DEFINE e == IF p.err > 10 THEN p.err ELSE p.err + 1
           q == [p EXCEPT !.err = e]
<1>1. p \in Fields /\ e \in 0..11 /\ e \in Int
  BY DEF Fine, InRange
<1>2. NoTime(p) = [q EXCEPT !.off = -1000]
  BY DEF NoTime
<1> HIDE DEF e
<1>3. q \in Fields
  BY <1>1, SetNumber DEF Numbers
<1>4. /\ q.err = e /\ q.min = p.min /\ q.current = p.current
      /\ q.previous = p.previous /\ q.expire = p.expire /\ q.syncstc = p.syncstc
  BY <1>1 DEF Fields
<1> HIDE DEF q
<1>5. Fine(q) /\ Same(p, q)
  BY <1>1, <1>3, <1>4 DEF Fine, InRange, RunsOn, Same
<1> QED
  BY <1>2, <1>5, FreeNumber DEF Same

LEMMA LessKept ==
  ASSUME NEW p, Fine(p)
  PROVE  Fine(Less(p)) /\ Same(p, Less(p))
<1> DEFINE m == IF p.min >= 100 THEN p.min - 20 ELSE p.min - 10
           q == [p EXCEPT !.min = m]
<1>1. p \in Fields /\ m \in Int /\ m <= 200
  BY DEF Fine, InRange, Fields
<1>2. Less(p) = q
  BY DEF Less
<1> HIDE DEF m
<1>3. q \in Fields
  BY <1>1, SetNumber DEF Numbers
<1>4. /\ q.err = p.err /\ q.min = m /\ q.current = p.current
      /\ q.previous = p.previous /\ q.expire = p.expire /\ q.syncstc = p.syncstc
  BY <1>1 DEF Fields
<1> HIDE DEF q
<1> QED
  BY <1>1, <1>2, <1>3, <1>4 DEF Fine, InRange, RunsOn, Same

-----------------------------------------------------------------------------
(* The clock: the ways a packet is answered and a frame dealt with.          *)

LEMMA StoredKept ==
  ASSUME IInv, NEW p, Fine(p), Stored(p), UNCHANGED now
  PROVE  InRange(o)' /\ RunsOn(o') /\ RefusalInv' /\ fill' \in Nat
<1> USE TimeAssumption
<1>1. Fine(o')
  BY FreeFlag DEF Stored, Flags
<1>2. fill' \in Nat
  BY DEF Stored, IInv, ClockInv
<1>3. RefusalInv'
  BY DEF Stored, IInv, ClockInv, RefusalInv
<1> QED
  BY <1>1, <1>2, <1>3 DEF Fine, InRange

LEMMA RefusedKept ==
  ASSUME IInv, NEW p, Fine(p), Refused(p), p.syncstc # 0, ~timersyncstc(p),
         UNCHANGED now
  PROVE  InRange(o)' /\ RunsOn(o') /\ RefusalInv' /\ fill' \in Nat
<1> USE TimeAssumption
<1>1. o' = p /\ fill' = fill /\ now' = now
  BY DEF Refused
<1>2. now \in Nat /\ now > 0 /\ refusal \in 0..now
  BY DEF IInv, ClockInv, RefusalInv
<1>3. now <= p.syncstc /\ p.syncstc \in 0..now + 480
  BY <1>2 DEF timersyncstc, Fine, InRange
<1>4. refusal # 0 => p.syncstc <= refusal + 480
  BY DEF IInv, RefusalInv, Fine, RunsOn
<1>5. RefusalInv'
  BY <1>1, <1>2, <1>3, <1>4 DEF Refused, RefusalInv
<1> QED
  BY <1>1, <1>5 DEF Fine, InRange, IInv, ClockInv, RunsOn

LEMMA PlayedKept ==
  ASSUME IInv, NEW p, InRange(p), o.syncstc # 0 => p.syncstc = o.syncstc,
         Played(p), UNCHANGED <<now, gateVars>>
  PROVE  InRange(o)' /\ RefusalInv' /\ SkipInv'
<1> DEFINE x == IF p.off > 1000 \/ p.off < -1000 THEN 0 ELSE p.off
<1>1. p \in Fields /\ x \in Int
  BY DEF InRange, Fields
<1>2. o' = [p EXCEPT !.off = x]
  BY DEF Played
<1> HIDE DEF x
<1>3. o' \in Fields
  BY <1>1, <1>2, SetNumber DEF Numbers
<1>4. /\ o'.err = p.err /\ o'.min = p.min /\ o'.current = p.current
      /\ o'.previous = p.previous /\ o'.expire = p.expire /\ o'.syncstc = p.syncstc
  BY <1>1, <1>2 DEF Fields
<1>5. InRange(o)'
  BY <1>3, <1>4 DEF InRange
<1>6. RefusalInv'
  BY <1>4 DEF IInv, RefusalInv, gateVars
<1>7. SkipInv'
  BY DEF Played, IInv, ClockInv, SkipInv
<1> QED
  BY <1>5, <1>6, <1>7

LEMMA SkippedKept ==
  ASSUME IInv, first, NEW p, Fine(p), Skipped(p), p.expire # 0, ~timerexpired(p),
         UNCHANGED <<now, gateVars>>
  PROVE  InRange(o)' /\ RefusalInv' /\ SkipInv'
<1> USE TimeAssumption, DeviceAssumption
<1> DEFINE x == p.pts + Duration
<1>1. x \in Int
  BY DEF Fine, InRange, Fields
<1>2. o' = [p EXCEPT !.pts = x]
  BY DEF Skipped
<1> HIDE DEF x
<1>3. Fine(o') /\ Same(p, o')
  BY <1>1, <1>2, FreeNumber
<1>4. InRange(o)'
  BY <1>3 DEF Fine, InRange
<1>5. RefusalInv'
  BY <1>3 DEF Fine, RunsOn, IInv, RefusalInv, gateVars
<1>6. now \in Nat /\ now > 0 /\ skipping \in 0..now
  BY DEF IInv, ClockInv, SkipInv
<1>7. now <= o'.expire /\ o'.expire \in 0..now + 2000 /\ o'.expire # 0
  BY <1>3, <1>6 DEF timerexpired, Fine, InRange, Same
<1>8. skipping # 0 => o'.expire <= skipping + 2000
  BY <1>3 DEF Fine, RunsOn, IInv, SkipInv
<1>9. SkipInv'
  BY <1>6, <1>7, <1>8, SMTT(30) DEF Skipped, SkipInv
<1> QED
  BY <1>4, <1>5, <1>9

-----------------------------------------------------------------------------
(* The clock: the steps.                                                     *)

LEMMA InitIInv == Init => IInv
<1> SUFFICES ASSUME Init PROVE IInv
  OBVIOUS
<1> USE TimeAssumption, DeviceAssumption
<1>1. o \in Fields
  BY DEF Init, Reset, Fields
<1>2. InRange(o)
  BY <1>1 DEF Init, Reset, InRange
<1>3. ClockInv
  <2>1. runs \in BOOLEAN /\ steady \in BOOLEAN /\ first \in BOOLEAN
    BY Zenon DEF Init
  <2>2. now = 1 /\ come = 0 /\ fill = 0 /\ device \in Devices /\ clk = device.base
    BY DEF Init
  <2>3. clk \in Int
    BY <2>2
  <2> QED
    BY <2>1, <2>2, <2>3 DEF ClockInv
<1> QED
  BY <1>2, <1>3 DEF Init, Reset, IInv, RefusalInv, SkipInv

LEMMA EnvironmentKeeps == IInv /\ (Pass \/ Settle) => IInv'
<1> SUFFICES ASSUME IInv, Pass \/ Settle PROVE IInv'
  OBVIOUS
<1> USE TimeAssumption, DeviceAssumption
<1>1. now' \in Nat /\ now <= now' /\ now' <= MaxNow
      /\ UNCHANGED <<o, gateVars, skipVars, first>>
  BY DEF IInv, ClockInv, Pass, Settle, Quiet
<1>2. ClockInv'
  <2>1. steady' \in BOOLEAN /\ runs' \in BOOLEAN
    BY Zenon DEF IInv, ClockInv, Pass, Settle
  <2>2. clk' \in Int
    BY DEF IInv, ClockInv, Pass, Settle
  <2> QED
    BY <1>1, <2>1, <2>2 DEF IInv, ClockInv, Pass, Settle, Quiet
<1>3. InRange(o)'
  BY <1>1 DEF IInv, ClockInv, InRange
<1>4. RefusalInv' /\ SkipInv'
  BY <1>1 DEF IInv, ClockInv, RefusalInv, SkipInv, gateVars, skipVars
<1> QED
  BY <1>2, <1>3, <1>4 DEF IInv

LEMMA OIsFine == IInv => Fine(o) /\ now \in Nat /\ device \in Devices /\ clk \in Int
BY TimeAssumption DEF IInv, ClockInv, Fine, RunsOn

\* What mark() does with a packet, whatever its PTS.
LEMMA MarkedKept ==
  ASSUME IInv, NEW p, Fine(p), NEW h \in BOOLEAN, NEW x \in Int,
         Marked(p, h, x), UNCHANGED now
  PROVE  InRange(o)' /\ RunsOn(o') /\ RefusalInv' /\ fill' \in Nat
<1> DEFINE q == SyncTimer(p)
<1>1. Fine(q) /\ q.syncstc # 0
  BY OIsFine, SyncKept
<1>2. CASE h /\ Stored([p EXCEPT !.pts = x % Period])
  <2>1. x % Period \in Int
    BY PeriodIsPositive
  <2>2. Fine([p EXCEPT !.pts = x % Period])
    BY <2>1, FreeNumber
  <2> QED
    BY <1>2, <2>2, StoredKept
<1>3. CASE ~h /\ p.HasPTS /\ Stored(p)
  BY <1>3, StoredKept
<1>4. CASE timersyncstc(q) /\ Stored(q)
  BY <1>1, <1>4, StoredKept
<1>5. CASE ~timersyncstc(q) /\ Refused(q)
  BY <1>1, <1>5, RefusedKept
<1> QED
  BY <1>2, <1>3, <1>4, <1>5 DEF Marked

LEMMA stcsyncKept ==
  ASSUME IInv, NEW p, Fine(p), NEW h \in BOOLEAN, stcsync(p, h), UNCHANGED now
  PROVE  InRange(o)' /\ RunsOn(o') /\ RefusalInv' /\ fill' \in Nat
<1> USE DeviceAssumption
<1> DEFINE q == IF p.Started THEN p ELSE [timermark(p) EXCEPT !.Started = TRUE]
           r == SyncTimer(q)
<1>1. Fine(q)
  BY OIsFine, timermarkKept, FreeFlag DEF Flags
<1>2. Fine(r) /\ r.syncstc # 0
  BY <1>1, OIsFine, SyncKept
<1>3. \A a \in Ahead : clk + a \in Int
  BY OIsFine
<1>4. CASE \E a \in Ahead : Marked(p, h, clk + a)
  BY <1>3, <1>4, MarkedKept
<1>5. CASE \E a \in Ahead : Marked(r, h, clk + a)
  BY <1>2, <1>3, <1>5, MarkedKept
<1>6. CASE ~timersyncstc(r) /\ Refused(NoTime(r))
  <2>1. Fine(NoTime(r)) /\ Same(r, NoTime(r))
    BY <1>2, NoTimeKept
  <2>2. NoTime(r).syncstc # 0 /\ ~timersyncstc(NoTime(r))
    BY <1>2, <1>6, <2>1 DEF Same, timersyncstc
  <2> QED
    BY <1>6, <2>1, <2>2, RefusedKept
<1>7. CASE ~timersyncstc(r) /\ Refused(Read(r))
  <2>1. Fine(Read(r)) /\ Same(r, Read(r))
    BY <1>2, OIsFine, ReadKept
  <2>2. Read(r).syncstc # 0 /\ ~timersyncstc(Read(r))
    BY <1>2, <1>7, <2>1 DEF Same, timersyncstc
  <2> QED
    BY <1>7, <2>1, <2>2, RefusedKept
<1>8. \/ \E a \in Ahead : Marked(p, h, clk + a)
      \/ \E a \in Ahead : Marked(r, h, clk + a)
      \/ ~timersyncstc(r) /\ Refused(NoTime(r))
      \/ ~timersyncstc(r) /\ Refused(Read(r))
  BY Zenon DEF stcsync
<1> HIDE DEF q, r
<1> QED
  BY <1>4, <1>5, <1>6, <1>7, <1>8

LEMMA PacketKeeps == IInv /\ Packet => IInv'
<1> SUFFICES ASSUME IInv, Packet PROVE IInv'
  OBVIOUS
<1>1. UNCHANGED <<now, device, clk, runs, first, skipping, skippedFor>>
  BY DEF Packet, deviceVars, skipVars
<1>2. PICK h \in BOOLEAN :
        \/ Stored(o) /\ Unread
        \/ stcsync([o EXCEPT !.HasPTS = @ \/ h], h)
  BY DEF Packet
<1>3. InRange(o)' /\ RunsOn(o') /\ RefusalInv' /\ fill' \in Nat
  <2>1. CASE Stored(o)
    BY <1>1, <2>1, OIsFine, StoredKept
  <2>2. CASE stcsync([o EXCEPT !.HasPTS = @ \/ h], h)
    <3> DEFINE b == o.HasPTS \/ h
    <3>1. b \in BOOLEAN
      <4>1. o.HasPTS \in BOOLEAN
        BY DEF IInv, InRange, Fields
      <4> QED
        BY Zenon, <4>1
    <3>2. stcsync([o EXCEPT !.HasPTS = b], h)
      BY <2>2
    <3> HIDE DEF b
    <3>3. Fine([o EXCEPT !.HasPTS = b])
      BY <3>1, OIsFine, FreeFlag DEF Flags
    <3> QED
      BY <1>1, <3>2, <3>3, stcsyncKept
  <2> QED
    BY <1>2, <2>1, <2>2
<1>4. steady' \in BOOLEAN
  <2>1. steady' = runs \/ steady' = steady
    BY Zenon DEF Packet, stcsync, Truth, Unread
  <2> QED
    BY <2>1 DEF IInv, ClockInv
<1>5. come' \in 0..MaxCome
  BY TimeAssumption DEF Packet, IInv, ClockInv
<1>6. ClockInv'
  BY <1>1, <1>3, <1>4, <1>5 DEF IInv, ClockInv
<1>7. SkipInv'
  BY <1>1, <1>3 DEF IInv, SkipInv, RunsOn
<1> QED
  BY <1>3, <1>6, <1>7 DEF IInv

LEMMA CheckKeeps == IInv /\ Check => IInv'
<1> SUFFICES ASSUME IInv, Check PROVE IInv'
  OBVIOUS
<1> DEFINE p == ExpireTimer(o)
<1>1. UNCHANGED <<now, gateVars>> /\ first /\ UNCHANGED <<device, clk, runs, come>>
      /\ fill > 0 /\ fill' = fill - 1
  BY DEF Check, deviceVars
<1>2. Fine(p) /\ p.expire # 0 /\ Fine(o)
  BY OIsFine, ExpireKept
<1>3. Fine(NoTime(p)) /\ Same(p, NoTime(p))
  BY <1>2, NoTimeKept
<1>4. Fine(Read(p)) /\ Same(p, Read(p))
  BY <1>2, OIsFine, ReadKept
<1>5. Fine(Less(Read(p))) /\ Same(p, Less(Read(p)))
  BY <1>4, LessKept DEF Same
<1> DEFINE late == [Less(Read(p)) EXCEPT !.expire = 0]
<1>6. InRange(late) /\ late.syncstc = Less(Read(p)).syncstc
  <2> DEFINE q == Less(Read(p))
  <2>1. Fine(q) /\ q \in Fields /\ now \in Nat
    BY <1>5, OIsFine DEF Fine, InRange
  <2> HIDE DEF q
  <2> DEFINE r == [q EXCEPT !.expire = 0]
  <2>2. r \in Fields
    BY <2>1, SetNumber DEF Numbers
  <2>3. /\ r.err = q.err /\ r.min = q.min /\ r.current = q.current
        /\ r.previous = q.previous /\ r.expire = 0 /\ r.syncstc = q.syncstc
    BY <2>1 DEF Fields
  <2> HIDE DEF r
  <2>4. InRange(r)
    BY <2>1, <2>2, <2>3 DEF Fine, InRange
  <2> QED
    BY <2>3, <2>4 DEF q, r
<1>7. \/ Played(o)
      \/ Played([o EXCEPT !.off = 0])
      \/ Played(p)
      \/ ~timerexpired(p) /\ Skipped(NoTime(p))
      \/ ~timerexpired(p) /\ Skipped(Read(p))
      \/ Played(late)
      \/ ~timerexpired(p) /\ Skipped(Less(Read(p)))
  BY Zenon DEF Check, Compared
<1> HIDE DEF late
<1> DEFINE n == NoTime(p)
           r == Read(p)
           l == Less(Read(p))
<1>8. InRange(o)' /\ RefusalInv' /\ SkipInv'
  <2> HIDE DEF p
  <2>1. CASE Played(o)
    BY <1>1, <1>2, <2>1, PlayedKept DEF Fine
  <2>2. CASE Played([o EXCEPT !.off = 0])
    <3>1. Fine([o EXCEPT !.off = 0])
      BY <1>2, FreeNumber
    <3> QED
      BY <1>1, <2>2, <3>1, PlayedKept DEF Fine, RunsOn
  <2>3. CASE Played(p)
    BY <1>1, <1>2, <2>3, PlayedKept DEF Fine, RunsOn
  <2>4. CASE ~timerexpired(p) /\ Skipped(NoTime(p))
    <3>1. NoTime(p).expire # 0 /\ ~timerexpired(NoTime(p))
      BY <1>2, <1>3, <2>4 DEF Same, timerexpired
    <3> QED
      BY <1>1, <1>3, <2>4, <3>1, SkippedKept
  <2>5. CASE ~timerexpired(p) /\ Skipped(Read(p))
    <3>1. Read(p).expire # 0 /\ ~timerexpired(Read(p))
      BY <1>2, <1>4, <2>5 DEF Same, timerexpired
    <3> QED
      BY <1>1, <1>4, <2>5, <3>1, SkippedKept
  <2>6. CASE Played(late)
    <3>1. o.syncstc # 0 => late.syncstc = o.syncstc
      BY <1>5, <1>6 DEF Fine, RunsOn
    <3> QED
      BY <1>1, <1>6, <2>6, <3>1, PlayedKept
  <2>7. CASE ~timerexpired(p) /\ Skipped(Less(Read(p)))
    <3>1. Less(Read(p)).expire # 0 /\ ~timerexpired(Less(Read(p)))
      BY <1>2, <1>5, <2>7 DEF Same, timerexpired
    <3> QED
      BY <1>1, <1>5, <2>7, <3>1, SkippedKept
  <2> QED
    BY <1>7, <2>1, <2>2, <2>3, <2>4, <2>5, <2>6, <2>7
<1>9. steady' \in BOOLEAN /\ first' \in BOOLEAN
  <2>1. steady' = runs \/ steady' = steady
    BY Zenon DEF Check, Truth, Unread
  <2>2. first' = FALSE \/ first' = first
    BY <1>7, Zenon DEF Played, Skipped
  <2> QED
    BY <2>1, <2>2 DEF IInv, ClockInv
<1>10. ClockInv'
  BY <1>1, <1>9 DEF IInv, ClockInv
<1> QED
  BY <1>8, <1>10 DEF IInv

LEMMA OthersKeep == IInv /\ (Lead \/ Restart \/ Clear) => IInv'
<1> SUFFICES ASSUME IInv, Lead \/ Restart \/ Clear PROVE IInv'
  OBVIOUS
<1>1. CASE Lead
  <2> USE <1>1 DEF deviceVars, gateVars, skipVars
  <2>1. o \in Fields /\ now \in Nat
    BY TimeAssumption DEF IInv, InRange, ClockInv
  <2>2. o' = [o EXCEPT !.expire = 0, !.err = 0, !.min = 200, !.Synching = FALSE]
    BY DEF Lead
  <2>3. /\ o'.err = 0 /\ o'.min = 200 /\ o'.current = o.current
        /\ o'.previous = o.previous /\ o'.expire = 0 /\ o'.syncstc = o.syncstc
    BY <2>1, <2>2 DEF Fields
  <2>4. o' \in Fields
    <3> DEFINE q == [o EXCEPT !.expire = 0]
               r == [q EXCEPT !.err = 0]
               t == [r EXCEPT !.min = 200]
               u == [t EXCEPT !.Synching = FALSE]
    <3>1. o' = u
      BY <2>2
    <3>2. q \in Fields
      BY <2>1, SetNumber DEF Numbers
    <3> HIDE DEF q
    <3>3. r \in Fields
      BY <3>2, SetNumber DEF Numbers
    <3> HIDE DEF r
    <3>4. t \in Fields
      BY <3>3, SetNumber DEF Numbers
    <3> HIDE DEF t
    <3>5. u \in Fields
      BY <3>4, SetFlag DEF Flags
    <3> QED
      BY <3>1, <3>5
  <2>5. UNCHANGED <<now, clk, device, runs, steady, first, come>>
    BY DEF Lead
  <2>6. fill' \in Nat
    BY DEF Lead, IInv, ClockInv
  <2>7. ClockInv'
    BY <2>5, <2>6 DEF IInv, ClockInv
  <2>8. InRange(o)'
    BY <2>1, <2>3, <2>4, <2>5 DEF IInv, InRange
  <2>9. RefusalInv' /\ SkipInv'
    BY <2>1, <2>3, <2>5 DEF Lead, IInv, RefusalInv, SkipInv
  <2> QED
    BY <2>7, <2>8, <2>9 DEF IInv
<1>2. CASE Restart \/ Clear
  <2> USE TimeAssumption
  <2>1. Cleared /\ fill' \in {fill, 0}
    BY <1>2 DEF Restart, Clear
  <2>2. o' = Reset /\ Reset \in Fields
    BY <2>1 DEF Cleared, Reset, Fields
  <2>3. UNCHANGED <<now, device, clk, runs, come, steady>> /\ first' = TRUE /\ now \in Nat
    BY <2>1 DEF Cleared, deviceVars, IInv, ClockInv
  <2>4. ClockInv'
    BY <2>1, <2>3 DEF IInv, ClockInv
  <2>5. InRange(o)'
    BY <2>2, <2>3 DEF Reset, InRange
  <2>6. RefusalInv' /\ SkipInv'
    BY <2>1, <2>3 DEF Cleared, RefusalInv, SkipInv
  <2> QED
    BY <2>4, <2>5, <2>6 DEF IInv
<1> QED
  BY <1>1, <1>2

LEMMA StepIInv == IInv /\ [Next]_vars => IInv'
<1> SUFFICES ASSUME IInv, [Next]_vars PROVE IInv'
  OBVIOUS
<1>1. CASE UNCHANGED vars
  BY <1>1
  DEF vars, IInv, ClockInv, InRange, RefusalInv, SkipInv, deviceVars, gateVars, skipVars
<1>2. CASE Next
  BY <1>2, EnvironmentKeeps, PacketKeeps, CheckKeeps, OthersKeep DEF Next
<1> QED
  BY <1>1, <1>2

LEMMA IInvTypes == IInv => TypeOK
BY DEF IInv, ClockInv, InRange, Fields, TypeOK

LEMMA IInvWaits == IInv => WaitsEnd
BY DEF IInv, RefusalInv, SkipInv, WaitsEnd

-----------------------------------------------------------------------------
(* The AC3 scanner.                                                          *)

Ac3Places == /\ stream \in Ac3Streams
             /\ tail \in 0..Len(stream) /\ buf \in 0..tail /\ out \in 0..tail
             /\ turn \in {"idle", "count", "frame"}
Ac3Told == ret \in BOOLEAN
Ac3Scanned(word) == [sync : {word}, pay : Seq(Ac3Byte), size : Nat,
                     rate : {0, 32, 44, 48}]
Ac3Scan == /\ s \in Ac3Scanned(s.sync)
           /\ Len(s.pay) + 2 <= (IF s.size > 6 THEN s.size ELSE 6)
Ac3Counter == c \in [sync : {c.sync}, bfound : Nat, fsize : Nat]

\* Nothing that is still to come, or that is in the payload, is of a frame
\* before the last one played.
Ac3Order == /\ last \in Nat /\ heard \in Seq(Nat)
            /\ heard # << >> => heard[Len(heard)] = last
            /\ Ac3!NeverBack
            /\ \A k \in 1..Len(s.pay) : last <= s.pay[k].f
            /\ \A k \in out + 1..Len(stream) : last <= stream[k].f
            /\ \A j \in 1..Len(s.pay), k \in out + 1..Len(stream) :
                  s.pay[j].f <= stream[k].f
Ac3Inv == Ac3Places /\ Ac3Told /\ Ac3Scan /\ Ac3Counter /\ Ac3Order

LEMMA Ac3Sent ==
  ASSUME NEW sent \in Ac3Streams
  PROVE  /\ sent \in Seq(Ac3Byte) /\ Len(sent) \in Nat
         /\ \A k \in 1..Len(sent) : sent[k] \in Ac3Byte /\ sent[k].f \in Nat
         /\ \A j, k \in 1..Len(sent) : j <= k => sent[j].f <= sent[k].f
<1>1. sent \in Seq(Ac3Byte)
  BY StreamAssumption
<1>2. \A k \in 1..Len(sent) : sent[k] \in Ac3Byte
  BY <1>1
<1>3. \A j, k \in 1..Len(sent) : j <= k => sent[j].f <= sent[k].f
  BY OrderAssumption
<1> QED
  BY <1>1, <1>2, <1>3, SMTT(30) DEF Ac3Byte

LEMMA Ac3InitInv == Ac3!Init => Ac3Inv
<1> SUFFICES ASSUME Ac3!Init PROVE Ac3Inv
  OBVIOUS
<1> USE DEF Ac3!Init, Ac3!ScanReset, Ac3!CountReset, Ac3!None
<1>1. Ac3Places
  BY Ac3Sent DEF Ac3Places
<1>2. \A k \in 1..Len(stream) : stream[k].f \in Nat
  BY Ac3Sent
<1>3. Ac3Told
  BY Zenon DEF Ac3Told
<1>4. Ac3Scan
  BY DEF Ac3Scan, Ac3Scanned
<1>5. Ac3Counter
  BY DEF Ac3Counter
<1>6. Ac3Order
  BY <1>2 DEF Ac3Order, Ac3!NeverBack
<1> QED
  BY <1>1, <1>3, <1>4, <1>5, <1>6 DEF Ac3Inv

LEMMA Ac3FeedKeeps == Ac3Inv /\ Ac3!Feed => Ac3Inv'
<1> SUFFICES ASSUME Ac3Inv, Ac3!Feed PROVE Ac3Inv'
  OBVIOUS
<1> USE DEF Ac3Inv, Ac3!Feed, Ac3!frameVars
<1>1. Ac3Places'
  <2>1. Len(stream) \in Nat /\ out \in Nat
    BY Ac3Sent DEF Ac3Places
  <2>2. PICK n \in Nat : tail' = IF out + n < Len(stream) THEN out + n ELSE Len(stream)
    BY PieceAssumption
  <2> QED
    BY <2>1, <2>2 DEF Ac3Places
<1>2. Ac3Scan' /\ Ac3Counter'
  BY DEF Ac3Scan, Ac3Counter
<1>3. Ac3Order'
  BY DEF Ac3Order, Ac3!NeverBack
<1>4. Ac3Told'
  BY Zenon DEF Ac3Told
<1> QED
  BY <1>1, <1>2, <1>3, <1>4

LEMMA Ac3ClearKeeps == Ac3Inv /\ Ac3!Clear => Ac3Inv'
<1> SUFFICES ASSUME Ac3Inv, Ac3!Clear PROVE Ac3Inv'
  OBVIOUS
<1> USE DEF Ac3!Clear, Ac3!Refeed, Ac3!ScanReset, Ac3!CountReset, Ac3!None
<1>1. Ac3Places'
  BY Ac3Sent DEF Ac3Inv, Ac3Places
<1>2. \A k \in 1..Len(stream') : stream'[k].f \in Nat
  BY Ac3Sent
<1>6. Ac3Told'
  BY Zenon DEF Ac3Told
<1>3. Ac3Scan'
  BY DEF Ac3Scan, Ac3Scanned
<1>4. Ac3Counter'
  BY DEF Ac3Counter
<1>5. Ac3Order'
  BY <1>2 DEF Ac3Order, Ac3!NeverBack
<1> QED
  BY <1>1, <1>3, <1>4, <1>5, <1>6 DEF Ac3Inv

LEMMA Ac3CountKeeps == Ac3Inv /\ Ac3!Count => Ac3Inv'
<1> SUFFICES ASSUME Ac3Inv, Ac3!Count PROVE Ac3Inv'
  OBVIOUS
<1>1. UNCHANGED <<stream, tail, out, s, last, heard>>
  BY Zenon DEF Ac3!Count, Ac3!CountSync, Ac3!CountFound, Ac3!CountSkip, Ac3!CountSize,
         Ac3!CountBody, Ac3!CountCross, Ac3!CountOut, Ac3!Counting, Ac3!frameVars
<1>2. Ac3Scan' /\ Ac3Order'
  BY <1>1 DEF Ac3Inv, Ac3Scan, Ac3Order, Ac3!NeverBack
<1>11. Ac3Told'
  BY Zenon
  DEF Ac3Inv, Ac3Told, Ac3!Count, Ac3!CountSync, Ac3!CountFound, Ac3!CountSkip,
      Ac3!CountSize, Ac3!CountBody, Ac3!CountCross, Ac3!CountOut, Ac3!countVars
<1> USE DEF Ac3Inv, Ac3!Counting, Ac3!frameVars
<1>3. Len(stream) \in Nat /\ \A k \in 1..Len(stream) : stream[k] \in Ac3Byte
  BY Ac3Sent DEF Ac3Places
<1>4. ASSUME Ac3!CountSync PROVE Ac3Places' /\ Ac3Counter'
  BY <1>3, <1>4 DEF Ac3!CountSync, Ac3Places, Ac3Counter
<1>5. ASSUME Ac3!CountFound PROVE Ac3Places' /\ Ac3Counter'
  BY <1>3, <1>5 DEF Ac3!CountFound, Ac3Places, Ac3Counter
<1>6. ASSUME Ac3!CountSkip PROVE Ac3Places' /\ Ac3Counter'
  BY <1>3, <1>6 DEF Ac3!CountSkip, Ac3Places, Ac3Counter
<1>7. ASSUME Ac3!CountSize PROVE Ac3Places' /\ Ac3Counter'
  <2>1. buf + 1 \in 1..Len(stream)
    BY <1>3, <1>7 DEF Ac3!CountSize, Ac3Places
  <2>2. Ac3!SizeOf(Ac3!NextByte) \in Nat
    BY <1>3, <2>1 DEF Ac3!NextByte, Ac3!SizeOf, Ac3Byte
  <2>3. Ac3Places'
    BY <1>3, <1>7 DEF Ac3!CountSize, Ac3Places
  <2>4. PICK n \in Nat : c' = [c EXCEPT !.bfound = 5, !.fsize = n]
    BY <1>7, <2>2, PieceAssumption, Zenon DEF Ac3!CountSize
  <2>5. Ac3Counter'
    BY <2>4 DEF Ac3Counter
  <2> QED
    BY <2>3, <2>5
<1>8. ASSUME Ac3!CountBody PROVE Ac3Places' /\ Ac3Counter'
  <2>1. buf \in Nat /\ tail \in Nat /\ c.fsize \in Nat /\ c.bfound \in Nat
    BY <1>3 DEF Ac3Places, Ac3Counter
  <2>2. PICK n \in Nat : n <= tail - buf /\ buf' = buf + n
                         /\ c' = [c EXCEPT !.bfound = @ + n]
    BY <1>8, <2>1, SMTT(30) DEF Ac3!CountBody
  <2>3. UNCHANGED turn
    BY <1>8 DEF Ac3!CountBody
  <2>4. Ac3Places'
    BY <1>1, <1>3, <2>1, <2>2, <2>3 DEF Ac3Places
  <2>5. Ac3Counter'
    BY <2>1, <2>2 DEF Ac3Counter
  <2> QED
    BY <2>4, <2>5
<1>9. ASSUME Ac3!CountCross PROVE Ac3Places' /\ Ac3Counter'
  <2>1. c' = [c EXCEPT !.bfound = 0, !.sync = Ac3!None] /\ UNCHANGED <<turn, buf>>
    BY <1>9 DEF Ac3!CountCross
  <2> QED
    BY <1>1, <1>3, <2>1 DEF Ac3Places, Ac3Counter
<1>10. ASSUME Ac3!CountOut PROVE Ac3Places' /\ Ac3Counter'
  BY <1>3, <1>10 DEF Ac3!CountOut, Ac3Places, Ac3Counter, Ac3!countVars
<1> QED
  BY <1>2, <1>4, <1>5, <1>6, <1>7, <1>8, <1>9, <1>10, <1>11 DEF Ac3!Count

LEMMA Later ==
  ASSUME NEW from \in Nat, NEW to \in Nat, from <= to, NEW n \in Nat
  PROVE  \A k \in to + 1..n : k \in from + 1..n
OBVIOUS

\* What a step of Frame() does to the order of the frames: nothing when the
\* payload is dropped or gets the next bytes of the stream.
LEMMA Ac3Dropped ==
  ASSUME Ac3Inv, s'.pay = << >>, UNCHANGED <<stream, last, heard>>,
         out' \in out..Len(stream)
  PROVE  Ac3Order'
<1>1. out \in Nat /\ Len(stream) \in Nat
  BY Ac3Sent DEF Ac3Inv, Ac3Places
<1>2. out' \in Nat /\ out <= out'
  BY <1>1
<1>3. \A k \in out' + 1..Len(stream) : k \in out + 1..Len(stream)
  BY <1>1, <1>2, Later
<1>4. \A k \in out' + 1..Len(stream) : last <= stream[k].f
  BY <1>3 DEF Ac3Inv, Ac3Order
<1>5. \A k \in 1..Len(s'.pay) : FALSE
  OBVIOUS
<1>6. /\ last \in Nat /\ heard \in Seq(Nat)
      /\ heard # << >> => heard[Len(heard)] = last
  BY DEF Ac3Inv, Ac3Order
<1>7. Ac3!NeverBack'
  BY DEF Ac3Inv, Ac3Order, Ac3!NeverBack
<1> QED
  BY <1>4, <1>5, <1>6, <1>7 DEF Ac3Order

LEMMA Ac3Taken ==
  ASSUME Ac3Inv, NEW n \in Nat, out + n <= Len(stream), out' = out + n,
         Len(s'.pay) = Len(s.pay) + n,
         \A k \in 1..Len(s.pay) : s'.pay[k] = s.pay[k],
         \A k \in 1..n : s'.pay[Len(s.pay) + k] = stream[out + k],
         UNCHANGED <<stream, last, heard>>
  PROVE  Ac3Order'
<1> DEFINE m == Len(s.pay)
<1>1. out \in Nat /\ Len(stream) \in Nat
  BY Ac3Sent DEF Ac3Inv, Ac3Places
<1>2. m \in Nat
  BY DEF Ac3Inv, Ac3Scan
<1>3. \A k \in 1..Len(s'.pay) : (k \in 1..m /\ s'.pay[k] = s.pay[k])
                             \/ (k - m \in 1..n /\ s'.pay[k] = stream[out + (k - m)])
  <2> SUFFICES ASSUME NEW k \in 1..Len(s'.pay), k \notin 1..m
               PROVE  k - m \in 1..n /\ s'.pay[k] = stream[out + (k - m)]
    OBVIOUS
  <2>1. k - m \in 1..n /\ m + (k - m) = k
    BY <1>2
  <2> QED
    BY <2>1
<1>4. \A k \in 1..n : out + k \in out + 1..Len(stream) /\ out + k \in 1..Len(stream)
  BY <1>1
<1>5. \A k \in out' + 1..Len(stream) : k \in out + 1..Len(stream) /\ k \in 1..Len(stream)
  BY <1>1
<1>6. \A k \in 1..Len(s'.pay) : last <= s'.pay[k].f
  BY <1>3, <1>4 DEF Ac3Inv, Ac3Order
<1>7. \A j, k \in 1..Len(stream) : j <= k => stream[j].f <= stream[k].f
  BY Ac3Sent DEF Ac3Inv, Ac3Places
<1>8. \A j \in 1..Len(s'.pay), k \in out' + 1..Len(stream) : s'.pay[j].f <= stream[k].f
  <2> SUFFICES ASSUME NEW j \in 1..Len(s'.pay), NEW k \in out' + 1..Len(stream)
               PROVE  s'.pay[j].f <= stream[k].f
    OBVIOUS
  <2>1. CASE j \in 1..m /\ s'.pay[j] = s.pay[j]
    BY <1>5, <2>1 DEF Ac3Inv, Ac3Order
  <2>2. CASE j - m \in 1..n /\ s'.pay[j] = stream[out + (j - m)]
    <3>1. out + (j - m) \in 1..Len(stream) /\ k \in 1..Len(stream)
      BY <1>4, <1>5, <2>2
    <3> DEFINE i == j - m
    <3>2. i \in 1..n
      BY <2>2
    <3> HIDE DEF i
    <3>3. out + i <= k
      BY <1>1, <3>2
    <3>4. out + (j - m) <= k
      BY <3>3 DEF i
    <3> QED
      BY <1>7, <2>2, <3>1, <3>4
  <2> QED
    BY <1>3, <2>1, <2>2
<1> QED
  BY <1>5, <1>6, <1>8 DEF Ac3Inv, Ac3Order, Ac3!NeverBack

\* A burst more: of the frame in the payload, or the last one again.
LEMMA Ac3Heard ==
  ASSUME Ac3Inv, s'.pay = << >>, UNCHANGED <<stream, out>>,
         heard' = Append(heard, last'),
         \/ last' = last
         \/ Len(s.pay) > 0 /\ last' = s.pay[1].f
  PROVE  Ac3Order'
<1>1. out \in Nat /\ Len(stream) \in Nat /\ last \in Nat /\ heard \in Seq(Nat)
  BY Ac3Sent DEF Ac3Inv, Ac3Places, Ac3Order
<1>2. /\ last' \in Nat /\ last <= last'
      /\ \A k \in out + 1..Len(stream) : last' <= stream[k].f
  <2>1. CASE last' = last
    BY <1>1, <2>1 DEF Ac3Inv, Ac3Order
  <2>2. CASE Len(s.pay) > 0 /\ last' = s.pay[1].f
    <3>1. 1 \in 1..Len(s.pay) /\ s.pay[1] \in Ac3Byte
      <4>1. s.pay \in Seq(Ac3Byte) /\ Len(s.pay) \in Nat
        BY DEF Ac3Inv, Ac3Scan, Ac3Scanned
      <4> QED
        BY <2>2, <4>1
    <3>2. s.pay[1].f \in Nat
      BY <3>1 DEF Ac3Byte
    <3> QED
      BY <2>2, <3>1, <3>2 DEF Ac3Inv, Ac3Order
  <2> QED
    BY <2>1, <2>2
<1>3. heard' \in Seq(Nat) /\ Len(heard') = Len(heard) + 1 /\ heard'[Len(heard')] = last'
      /\ \A k \in 1..Len(heard) : heard'[k] = heard[k]
  BY <1>1, <1>2
<1>4. Ac3!NeverBack'
  <2> SUFFICES ASSUME NEW k \in 1..Len(heard') - 1 PROVE heard'[k] <= heard'[k + 1]
    BY DEF Ac3!NeverBack
  <2>1. k \in 1..Len(heard)
    BY <1>1, <1>3
  <2>2. CASE k = Len(heard)
    <3>1. heard # << >> /\ heard'[k] = last /\ heard'[k + 1] = last'
      BY <1>1, <1>3, <2>1, <2>2 DEF Ac3Inv, Ac3Order
    <3> QED
      BY <1>2, <3>1
  <2>3. CASE k # Len(heard)
    <3>1. k \in 1..Len(heard) - 1 /\ k + 1 \in 1..Len(heard)
      BY <1>1, <2>1, <2>3
    <3>2. heard[k] <= heard[k + 1]
      BY <3>1 DEF Ac3Inv, Ac3Order, Ac3!NeverBack
    <3> QED
      BY <1>3, <2>1, <3>1, <3>2
  <2> QED
    BY <2>2, <2>3
<1> QED
  BY <1>1, <1>2, <1>3, <1>4 DEF Ac3Order

\* The records Frame() leaves in `s'.
LEMMA Ac3PutPay ==
  ASSUME NEW pay \in Seq(Ac3Byte), s \in Ac3Scanned(s.sync), s' = [s EXCEPT !.pay = pay]
  PROVE  s' \in Ac3Scanned(s'.sync) /\ s'.pay = pay /\ s'.size = s.size
BY DEF Ac3Scanned

LEMMA Ac3PutHead ==
  ASSUME NEW size \in Nat, NEW rate \in {0, 32, 44, 48}, s \in Ac3Scanned(s.sync),
         s' = [s EXCEPT !.size = size, !.rate = rate]
  PROVE  s' \in Ac3Scanned(s'.sync) /\ s'.pay = s.pay /\ s'.size = size
BY DEF Ac3Scanned

LEMMA Ac3Resync ==
  ASSUME NEW size \in Nat, NEW rate \in {0, 32, 44, 48}, s \in Ac3Scanned(s.sync),
         \/ s' = [Ac3!Resync EXCEPT !.size = size]
         \/ s' = [Ac3!Resync EXCEPT !.rate = rate] /\ s.size = size
  PROVE  s' \in Ac3Scanned(s'.sync) /\ s'.pay = << >> /\ s'.size = size
<1>1. << >> \in Seq(Ac3Byte)
  OBVIOUS
<1>2. PICK pay \in Seq(Ac3Byte) : pay = << >>
  BY <1>1
<1>3. Ac3!Resync = [s EXCEPT !.sync = Ac3!None, !.pay = pay]
  BY <1>2 DEF Ac3!Resync
<1>4. CASE s' = [Ac3!Resync EXCEPT !.size = size]
  BY <1>2, <1>3, <1>4 DEF Ac3Scanned
<1>5. CASE s' = [Ac3!Resync EXCEPT !.rate = rate] /\ s.size = size
  BY <1>2, <1>3, <1>5 DEF Ac3Scanned
<1> QED
  BY <1>4, <1>5

LEMMA Ac3FrameKeeps == Ac3Inv /\ Ac3!Frame => Ac3Inv'
<1> SUFFICES ASSUME Ac3Inv, Ac3!Frame PROVE Ac3Inv'
  OBVIOUS
<1> DEFINE Kept == Ac3Places' /\ Ac3Scan' /\ Ac3Order'
           m == Len(s.pay)
<1>1. UNCHANGED <<stream, tail, buf, c, ret>>
  BY DEF Ac3!Frame, Ac3!FrameSync, Ac3!FrameHead, Ac3!FrameParse, Ac3!FrameRate,
         Ac3!FrameBody, Ac3!FramePlay, Ac3!FrameCrc, Ac3!FrameOut, Ac3!Framing,
         Ac3!countVars
<1>2. Ac3Told' /\ Ac3Counter'
  <2>1. Ac3Told'
    BY Zenon, <1>1 DEF Ac3Inv, Ac3Told
  <2> QED
    BY <1>1, <2>1 DEF Ac3Inv, Ac3Counter
<1>3. /\ Len(stream) \in Nat /\ \A k \in 1..Len(stream) : stream[k] \in Ac3Byte
      /\ tail \in 0..Len(stream) /\ buf \in 0..tail /\ out \in 0..tail
      /\ turn \in {"idle", "count", "frame"}
  BY Ac3Sent DEF Ac3Inv, Ac3Places
<1>4. /\ s \in Ac3Scanned(s.sync) /\ s.pay \in Seq(Ac3Byte) /\ s.size \in Nat
      /\ s.rate \in {0, 32, 44, 48} /\ m \in Nat
      /\ m + 2 <= (IF s.size > 6 THEN s.size ELSE 6)
  BY DEF Ac3Inv, Ac3Scan, Ac3Scanned
\* The places, when turn is left alone or Frame() returns.
<1>5. ASSUME out' \in out..tail, turn' \in {turn, "idle"} PROVE Ac3Places'
  BY <1>1, <1>3, <1>5 DEF Ac3Inv, Ac3Places
<1>6. ASSUME Ac3!FrameSync PROVE Kept
  <2>1. UNCHANGED <<turn, last, heard>> /\ out' = out + 1 /\ out < tail
        /\ s' = [s EXCEPT !.sync = <<@[2], stream[out + 1].v>>]
    BY <1>6 DEF Ac3!FrameSync
  <2>2. s'.pay = s.pay /\ Ac3Scan'
    BY <1>4, <2>1 DEF Ac3Scan, Ac3Scanned
  <2>3. Ac3Order'
    <3>1. \A k \in out + 2..Len(stream) : k \in out + 1..Len(stream)
      BY <1>3
    <3> QED
      BY <1>1, <1>3, <2>1, <2>2, <3>1, SMTT(30) DEF Ac3Inv, Ac3Order, Ac3!NeverBack
  <2> QED
    BY <1>3, <1>5, <2>1, <2>2, <2>3
<1>7. ASSUME Ac3!FrameHead PROVE Kept
  <2>1. UNCHANGED <<turn, last, heard>> /\ out' = out + 1 /\ out < tail /\ m + 2 < 6
        /\ s' = [s EXCEPT !.pay = Append(@, stream[out + 1])]
    BY <1>7 DEF Ac3!FrameHead, Ac3!Pos
  <2>2. stream[out + 1] \in Ac3Byte
    BY <1>3, <2>1
  <2>3. s'.pay = Append(s.pay, stream[out + 1]) /\ s.pay \in Seq(Ac3Byte)
    BY <1>4, <2>1
  <2>4. s'.pay \in Seq(Ac3Byte) /\ Len(s'.pay) = m + 1 /\ s'.pay[m + 1] = stream[out + 1]
        /\ \A k \in 1..m : s'.pay[k] = s.pay[k]
    BY <2>2, <2>3
  <2>5. Ac3Scan'
    <3>1. s' = [s EXCEPT !.pay = s'.pay]
      BY <2>1, <2>3
    <3>2. s' \in Ac3Scanned(s'.sync) /\ s'.size = s.size
      BY <1>4, <2>4, <3>1, Ac3PutPay
    <3> QED
      BY <1>4, <2>1, <2>4, <3>2 DEF Ac3Scan
  <2>6. Ac3Order'
    <3>1. \A k \in 1..1 : s'.pay[m + k] = stream[out + k]
      BY <2>4
    <3> QED
      BY <1>1, <1>3, <2>1, <2>4, <3>1, Ac3Taken, SMTT(30)
  <2> QED
    BY <1>3, <1>5, <2>1, <2>5, <2>6
<1>8. ASSUME Ac3!FrameParse PROVE Kept
  <2>1. UNCHANGED <<turn, out, last, heard>> /\ m >= 4
    BY <1>4, <1>8 DEF Ac3!FrameParse, Ac3!HeadKnown, Ac3!Pos
  <2>2. s.pay[3] \in Ac3Byte
    BY <1>4, <2>1
  <2>3. Ac3!SizeOf(s.pay[3]) \in Nat /\ Ac3!FreqOf(s.pay[3]) \in {0, 32, 44, 48}
    BY <2>2 DEF Ac3!SizeOf, Ac3!FreqOf, Ac3Byte
  <2>4. CASE s' = [Ac3!Resync EXCEPT !.rate = Ac3!FreqOf(s.pay[3])]
    <3>1. s'.pay = << >> /\ Ac3Scan'
      <4>1. s' \in Ac3Scanned(s'.sync) /\ s'.pay = << >> /\ s'.size = s.size
        BY <1>4, <2>3, <2>4, Ac3Resync
      <4> QED
        BY <1>4, <4>1 DEF Ac3Scan
    <3> QED
      BY <1>1, <1>3, <1>5, <2>1, <3>1, Ac3Dropped
  <2>5. CASE s' = [s EXCEPT !.size = Ac3!SizeOf(s.pay[3]), !.rate = Ac3!FreqOf(s.pay[3])]
    <3>1. s.size = 0
      BY <1>8 DEF Ac3!FrameParse
    <3>2. s'.pay = s.pay /\ Ac3Scan'
      <4>1. /\ s' \in Ac3Scanned(s'.sync) /\ s'.pay = s.pay
            /\ s'.size = Ac3!SizeOf(s.pay[3])
        BY <1>4, <2>3, <2>5, Ac3PutHead, Zenon
      <4> QED
        BY <1>4, <2>3, <3>1, <4>1 DEF Ac3Scan
    <3>3. Ac3Order'
      BY <1>1, <2>1, <3>2 DEF Ac3Inv, Ac3Order, Ac3!NeverBack
    <3> QED
      BY <1>3, <1>5, <2>1, <3>2, <3>3
  <2> QED
    BY <1>8, <2>4, <2>5 DEF Ac3!FrameParse
<1>9. ASSUME s' = [Ac3!Resync EXCEPT !.size = 0] PROVE s'.pay = << >> /\ Ac3Scan'
  <2>1. s' \in Ac3Scanned(s'.sync) /\ s'.pay = << >> /\ s'.size = 0
    BY <1>4, <1>9, Ac3Resync
  <2> QED
    BY <2>1 DEF Ac3Scan
<1>10. ASSUME Ac3!FrameRate PROVE Kept
  BY <1>1, <1>3, <1>5, <1>9, <1>10, Ac3Dropped DEF Ac3!FrameRate
<1>11. ASSUME Ac3!FrameBody PROVE Kept
  <2> DEFINE n == IF s.size - (m + 2) < tail - out THEN s.size - (m + 2) ELSE tail - out
             more == SubSeq(stream, out + 1, out + n)
  <2>1. UNCHANGED <<turn, last, heard>> /\ out' = out + n /\ out < tail /\ m + 2 < s.size
        /\ s' = [s EXCEPT !.pay = @ \o more]
    BY <1>11 DEF Ac3!FrameBody, Ac3!Pos
  <2>2. n \in Nat /\ out + n <= tail /\ m + 2 + n <= s.size
    <3>1. m \in Nat /\ s.size \in Nat /\ out \in Nat /\ tail \in Nat
      BY <1>3, <1>4
    <3> QED
      BY <2>1, <3>1, SMTT(30)
  <2> HIDE DEF n
  <2>3. stream \in Seq(Ac3Byte)
    BY Ac3Sent DEF Ac3Inv, Ac3Places
  <2>4. /\ more \in Seq(Ac3Byte) /\ Len(more) = n
        /\ \A k \in 1..n : more[k] = stream[out + k]
    BY <1>3, <2>2, <2>3
  <2> HIDE DEF more
  <2>5. s.pay \in Seq(Ac3Byte) /\ s'.pay = s.pay \o more
    BY <1>4, <2>1
  <2>6. s'.pay \in Seq(Ac3Byte) /\ Len(s'.pay) = m + n
        /\ (\A k \in 1..m : s'.pay[k] = s.pay[k])
        /\ \A k \in 1..n : s'.pay[m + k] = stream[out + k]
    <3>1. m \in Nat /\ n \in Nat
      BY <1>4, <2>2
    <3>2. s'.pay \in Seq(Ac3Byte) /\ Len(s'.pay) = m + n
      BY <2>4, <2>5
    <3>3. \A k \in 1..m : s'.pay[k] = s.pay[k]
      BY <2>4, <2>5, <3>1
    <3>4. \A k \in 1..n : s'.pay[m + k] = more[k]
      BY <2>4, <2>5, <3>1
    <3> QED
      BY <2>4, <3>2, <3>3, <3>4
  <2>7. Ac3Scan'
    <3>1. s' = [s EXCEPT !.pay = s'.pay]
      BY <2>1, <2>5
    <3>2. s' \in Ac3Scanned(s'.sync) /\ s'.size = s.size
      BY <1>4, <2>6, <3>1, Ac3PutPay
    <3> QED
      BY <1>4, <2>1, <2>2, <2>6, <3>2 DEF Ac3Scan
  <2>8. Ac3Order'
    <3>1. out + n <= Len(stream)
      BY <1>3, <2>2
    <3> QED
      BY <1>1, <2>1, <2>2, <2>6, <3>1, Ac3Taken
  <2> QED
    BY <1>3, <1>5, <2>1, <2>2, <2>7, <2>8
<1>12. ASSUME Ac3!FramePlay PROVE Kept
  <2>1. m > 0
    BY <1>4, <1>12 DEF Ac3!FramePlay, Ac3!Fits, Ac3!HeadKnown, Ac3!Pos
  <2>2. s'.pay = << >> /\ Ac3Scan'
    BY <1>9, <1>12 DEF Ac3!FramePlay
  <2>3. UNCHANGED <<turn, out>> /\ last' = s.pay[1].f /\ heard' = Append(heard, last')
    BY <1>12 DEF Ac3!FramePlay
  <2> QED
    BY <1>1, <1>3, <1>5, <2>1, <2>2, <2>3, Ac3Heard
<1>13. ASSUME Ac3!FrameCrc PROVE Kept
  <2>1. s'.pay = << >> /\ Ac3Scan' /\ last' = last
    BY <1>9, <1>13 DEF Ac3!FrameCrc
  <2>2. CASE heard' = Append(heard, last) /\ UNCHANGED <<turn, out>>
    BY <1>1, <1>3, <1>5, <2>1, <2>2, Ac3Heard
  <2>3. CASE out' = tail /\ turn' = "idle" /\ UNCHANGED heard
    BY <1>1, <1>3, <1>5, <2>1, <2>3, Ac3Dropped
  <2> QED
    BY <1>13, <2>2, <2>3 DEF Ac3!FrameCrc
<1>14. ASSUME Ac3!FrameOut PROVE Kept
  <2>1. UNCHANGED <<out, s, last, heard>> /\ turn' = "idle"
    BY <1>14 DEF Ac3!FrameOut, Ac3!frameVars
  <2>2. Ac3Scan' /\ Ac3Order'
    BY <1>1, <2>1 DEF Ac3Inv, Ac3Scan, Ac3Order, Ac3!NeverBack
  <2> QED
    BY <1>3, <1>5, <2>1, <2>2
<1>15. Kept
  BY <1>6, <1>7, <1>8, <1>10, <1>11, <1>12, <1>13, <1>14 DEF Ac3!Frame
<1> QED
  BY <1>2, <1>15 DEF Ac3Inv

LEMMA Ac3Keeps == Ac3Inv /\ Ac3!Next => Ac3Inv'
BY Ac3FeedKeeps, Ac3ClearKeeps, Ac3CountKeeps, Ac3FrameKeeps DEF Ac3!Next

LEMMA Ac3Types == Ac3Inv => Ac3!TypeOK
<1> SUFFICES ASSUME Ac3Inv PROVE Ac3!TypeOK
  OBVIOUS
<1>1. s.size \in Nat /\ s.rate \in Ac3!Rates \cup {0} /\ Len(s.pay) \in Nat
  BY DEF Ac3Inv, Ac3Scan, Ac3Scanned, Ac3!Rates
<1>2. Ac3!Pos \in 2..(IF s.size > 6 THEN s.size ELSE 6)
  BY <1>1 DEF Ac3Inv, Ac3Scan, Ac3!Pos
<1>3. c.bfound \in Nat /\ c.fsize \in Nat /\ last \in Nat
  BY DEF Ac3Inv, Ac3Counter, Ac3Order
<1> QED
  BY <1>1, <1>2, <1>3 DEF Ac3Inv, Ac3Places, Ac3Told, Ac3!TypeOK

-----------------------------------------------------------------------------
(* The DTS scanner.                                                          *)

\* Frame() only returns at the end of the piece, where Count() was before it.
DtsPlaces == /\ stream \in DtsStreams
             /\ tail \in 0..Len(stream) /\ buf \in 0..tail /\ out \in 0..tail
             /\ turn \in {"idle", "count", "frame"}
             /\ turn = "idle" => out = tail
DtsInfo == [rate : Nat, burst : 0..Dts!SPDIF_BURST_SIZE]
DtsScanned(word) == [sync : {word}, pay : Seq(DtsByte), size : Nat, info : DtsInfo]
DtsScan == /\ s \in DtsScanned(s.sync)
           /\ Len(s.pay) + 4 <= (IF s.size > 10 THEN s.size ELSE 10)
DtsCounter == c \in [sync : {c.sync}, bfound : Nat, fsize : Nat]
DtsInv == DtsPlaces /\ DtsScan /\ DtsCounter

LEMMA DtsSent ==
  ASSUME NEW sent \in DtsStreams
  PROVE  /\ sent \in Seq(DtsByte) /\ Len(sent) \in Nat
         /\ \A k \in 1..Len(sent) : sent[k] \in DtsByte
BY StreamAssumption

LEMMA BurstSize == Dts!SPDIF_BURST_SIZE \in Nat
BY DEF Dts!SPDIF_BURST_SIZE

LEMMA DtsInitInv == Dts!Init => DtsInv
<1> SUFFICES ASSUME Dts!Init PROVE DtsInv
  OBVIOUS
<1> USE DEF Dts!Init, Dts!ScanReset, Dts!CountReset, Dts!NoInfo
<1>1. DtsPlaces
  BY DtsSent DEF DtsPlaces
<1>2. DtsScan
  BY BurstSize DEF DtsScan, DtsScanned, DtsInfo
<1>3. DtsCounter
  BY DEF DtsCounter
<1> QED
  BY <1>1, <1>2, <1>3 DEF DtsInv

LEMMA DtsFeedKeeps == DtsInv /\ Dts!Feed => DtsInv'
<1> SUFFICES ASSUME DtsInv, Dts!Feed PROVE DtsInv'
  OBVIOUS
<1> USE DEF DtsInv, Dts!Feed
<1>1. DtsPlaces'
  <2>1. /\ Len(stream) \in Nat /\ out \in Nat /\ buf \in Nat /\ tail \in Nat
        /\ buf <= tail /\ out = tail
    BY DtsSent DEF DtsPlaces
  <2>2. PICK n \in Nat : tail' = IF out + n < Len(stream) THEN out + n ELSE Len(stream)
    BY PieceAssumption DEF Dts!Least
  <2> QED
    BY <2>1, <2>2 DEF DtsPlaces
<1>2. DtsScan' /\ DtsCounter'
  BY DEF DtsScan, DtsCounter
<1> QED
  BY <1>1, <1>2

LEMMA DtsClearKeeps == DtsInv /\ Dts!Clear => DtsInv'
<1> SUFFICES ASSUME DtsInv, Dts!Clear PROVE DtsInv'
  OBVIOUS
<1> USE DEF Dts!Clear, Dts!Refeed, Dts!ScanReset, Dts!CountReset, Dts!NoInfo
<1>1. DtsPlaces'
  BY DtsSent DEF DtsInv, DtsPlaces
<1>2. DtsScan'
  BY BurstSize DEF DtsScan, DtsScanned, DtsInfo
<1>3. DtsCounter'
  BY DEF DtsCounter
<1> QED
  BY <1>1, <1>2, <1>3 DEF DtsInv

LEMMA DtsCountKeeps == DtsInv /\ Dts!Count => DtsInv'
<1> SUFFICES ASSUME DtsInv, Dts!Count PROVE DtsInv'
  OBVIOUS
<1> DEFINE Kept == DtsPlaces' /\ DtsCounter'
<1>1. UNCHANGED <<stream, tail, out, s>> /\ turn = "count"
  BY DEF Dts!Count, Dts!CountSync, Dts!CountFound, Dts!CountHead, Dts!CountBody,
         Dts!CountCross, Dts!CountOut, Dts!Counting
<1>2. DtsScan'
  BY <1>1 DEF DtsInv, DtsScan
<1>3. /\ Len(stream) \in Nat /\ \A k \in 1..Len(stream) : stream[k] \in DtsByte
      /\ tail \in 0..Len(stream) /\ buf \in 0..tail /\ out \in 0..tail
  BY DtsSent DEF DtsInv, DtsPlaces
<1>4. /\ c \in [sync : {c.sync}, bfound : Nat, fsize : Nat]
      /\ c.bfound \in Nat /\ c.fsize \in Nat
  BY DEF DtsInv, DtsCounter
<1>5. ASSUME buf' \in buf..tail, turn' \in {"count", "frame"} PROVE DtsPlaces'
  BY <1>1, <1>3, <1>5 DEF DtsInv, DtsPlaces
<1>6. ASSUME Dts!CountSync PROVE Kept
  <2>1. buf' = buf + 1 /\ buf < tail /\ UNCHANGED turn
        /\ c' = [c EXCEPT !.sync = Append(Tail(@), stream[buf'].v)]
    BY <1>6 DEF Dts!CountSync
  <2>2. DtsCounter'
    BY <1>4, <2>1 DEF DtsCounter
  <2> QED
    BY <1>1, <1>3, <1>5, <2>1, <2>2
<1>7. ASSUME Dts!CountFound PROVE Kept
  <2>1. UNCHANGED <<turn, buf>> /\ c' = [c EXCEPT !.bfound = 4]
    BY <1>7 DEF Dts!CountFound
  <2>2. DtsCounter'
    BY <1>4, <2>1 DEF DtsCounter
  <2> QED
    BY <1>1, <1>3, <1>5, <2>1, <2>2
<1>8. ASSUME Dts!CountHead PROVE Kept
  <2> DEFINE size == IF c.bfound = 7 THEN Dts!SizeOf(stream[buf']) ELSE c.fsize
  <2>1. buf' = buf + 1 /\ buf < tail /\ UNCHANGED turn
        /\ c' = [c EXCEPT !.bfound = @ + 1, !.fsize = size]
    BY <1>8 DEF Dts!CountHead
  <2>2. stream[buf'] \in DtsByte
    BY <1>3, <2>1
  <2>3. size \in Nat
    BY <1>4, <2>2 DEF Dts!SizeOf, DtsByte
  <2> HIDE DEF size
  <2>4. c.bfound + 1 \in Nat
    BY <1>4
  <2>5. DtsCounter'
    BY <1>4, <2>1, <2>3, <2>4 DEF DtsCounter
  <2> QED
    BY <1>1, <1>3, <1>5, <2>1, <2>5
<1>9. ASSUME Dts!CountBody PROVE Kept
  <2> DEFINE n == Dts!Least(c.fsize - c.bfound, tail - buf)
  <2>1. buf' = buf + n /\ UNCHANGED turn /\ c' = [c EXCEPT !.bfound = @ + n]
        /\ c.bfound < c.fsize /\ buf < tail
    BY <1>9 DEF Dts!CountBody
  <2>2. n \in Nat /\ buf + n <= tail
    BY <1>3, <1>4, <2>1 DEF Dts!Least
  <2> HIDE DEF n
  <2>3. DtsCounter'
    BY <1>4, <2>1, <2>2 DEF DtsCounter
  <2> QED
    BY <1>1, <1>3, <1>5, <2>1, <2>2, <2>3
<1>10. ASSUME Dts!CountCross PROVE Kept
  <2>1. UNCHANGED <<turn, buf>> /\ c' = [c EXCEPT !.bfound = 0, !.sync = Dts!None]
    BY <1>10 DEF Dts!CountCross
  <2>2. DtsCounter'
    BY <1>4, <2>1 DEF DtsCounter
  <2> QED
    BY <1>1, <1>3, <1>5, <2>1, <2>2
<1>11. ASSUME Dts!CountOut PROVE Kept
  <2>1. UNCHANGED <<buf, c>> /\ turn' = "frame"
    BY <1>11 DEF Dts!CountOut
  <2>2. DtsCounter'
    BY <2>1 DEF DtsInv, DtsCounter
  <2> QED
    BY <1>1, <1>3, <1>5, <2>1, <2>2
<1>12. Kept
  BY <1>6, <1>7, <1>8, <1>9, <1>10, <1>11 DEF Dts!Count
<1> QED
  BY <1>2, <1>12 DEF DtsInv

\* The records Frame() leaves in `s'.
LEMMA DtsPutPay ==
  ASSUME NEW pay \in Seq(DtsByte), s \in DtsScanned(s.sync), s' = [s EXCEPT !.pay = pay]
  PROVE  s' \in DtsScanned(s'.sync) /\ s'.pay = pay /\ s'.size = s.size
BY DEF DtsScanned

LEMMA DtsPutHead ==
  ASSUME NEW size \in Nat, NEW info \in DtsInfo, s \in DtsScanned(s.sync),
         s' = [s EXCEPT !.size = size, !.info = info]
  PROVE  s' \in DtsScanned(s'.sync) /\ s'.pay = s.pay /\ s'.size = size
BY DEF DtsScanned

LEMMA DtsResync ==
  ASSUME NEW size \in Nat, s \in DtsScanned(s.sync),
         \/ s' = [Dts!Resync EXCEPT !.size = size]
         \/ s' = Dts!Resync /\ s.size = size
  PROVE  s' \in DtsScanned(s'.sync) /\ s'.pay = << >> /\ s'.size = size
<1>1. << >> \in Seq(DtsByte)
  OBVIOUS
<1>2. PICK pay \in Seq(DtsByte) : pay = << >>
  BY <1>1
<1>3. Dts!Resync = [s EXCEPT !.sync = Dts!None, !.pay = pay]
  BY <1>2 DEF Dts!Resync
<1>4. CASE s' = [Dts!Resync EXCEPT !.size = size]
  BY <1>2, <1>3, <1>4 DEF DtsScanned
<1>5. CASE s' = Dts!Resync /\ s.size = size
  BY <1>2, <1>3, <1>5 DEF DtsScanned
<1> QED
  BY <1>4, <1>5

LEMMA DtsFrameKeeps == DtsInv /\ Dts!Frame => DtsInv'
<1> SUFFICES ASSUME DtsInv, Dts!Frame PROVE DtsInv'
  OBVIOUS
<1> DEFINE Kept == DtsPlaces' /\ DtsScan'
           m == Len(s.pay)
<1>1. UNCHANGED <<stream, tail, buf, c>> /\ turn = "frame"
  BY DEF Dts!Frame, Dts!FrameSync, Dts!FrameHead, Dts!FrameParse, Dts!FrameMisfit,
         Dts!FrameBody, Dts!FramePlay, Dts!FrameOut, Dts!Framing
<1>2. DtsCounter'
  BY <1>1 DEF DtsInv, DtsCounter
<1>3. /\ Len(stream) \in Nat /\ \A k \in 1..Len(stream) : stream[k] \in DtsByte
      /\ tail \in 0..Len(stream) /\ buf \in 0..tail /\ out \in 0..tail
  BY DtsSent DEF DtsInv, DtsPlaces
<1>4. /\ s \in DtsScanned(s.sync) /\ s.pay \in Seq(DtsByte) /\ s.size \in Nat
      /\ m \in Nat /\ m + 4 <= (IF s.size > 10 THEN s.size ELSE 10)
  BY DEF DtsInv, DtsScan, DtsScanned
<1>5. ASSUME out' \in out..tail, turn' = "frame" PROVE DtsPlaces'
  BY <1>1, <1>3, <1>5 DEF DtsInv, DtsPlaces
<1>6. ASSUME Dts!FrameSync PROVE Kept
  <2>1. UNCHANGED turn /\ out' = out + 1 /\ out < tail
        /\ s' = [s EXCEPT !.sync = Append(Tail(@), stream[out'].v)]
    BY <1>6 DEF Dts!FrameSync
  <2>2. DtsScan'
    BY <1>4, <2>1 DEF DtsScan, DtsScanned
  <2> QED
    BY <1>1, <1>3, <1>5, <2>1, <2>2
<1>7. ASSUME Dts!FrameHead PROVE Kept
  <2>1. UNCHANGED turn /\ out' = out + 1 /\ out < tail /\ m + 4 < 10
        /\ s' = [s EXCEPT !.pay = Append(@, stream[out'])]
    BY <1>7 DEF Dts!FrameHead, Dts!Pos
  <2> DEFINE pay == Append(s.pay, stream[out'])
  <2>2. stream[out'] \in DtsByte
    BY <1>3, <2>1
  <2>3. pay \in Seq(DtsByte) /\ Len(pay) = m + 1 /\ s' = [s EXCEPT !.pay = pay]
    BY <1>4, <2>1, <2>2
  <2> HIDE DEF pay
  <2>4. s' \in DtsScanned(s'.sync) /\ s'.pay = pay /\ s'.size = s.size
    BY <1>4, <2>3, DtsPutPay
  <2>5. DtsScan'
    BY <1>4, <2>1, <2>3, <2>4 DEF DtsScan
  <2> QED
    BY <1>1, <1>3, <1>5, <2>1, <2>5
<1>8. ASSUME Dts!FrameParse PROVE Kept
  <2>1. UNCHANGED <<turn, out>> /\ m >= 6 /\ s.size = 0
        /\ s' = [s EXCEPT !.size = Dts!SizeOf(s.pay[4]), !.info = Dts!InfoOf(s.pay[5])]
    BY <1>4, <1>8 DEF Dts!FrameParse, Dts!HeadKnown, Dts!Pos
  <2>2. s.pay[4] \in DtsByte /\ s.pay[5] \in DtsByte
    BY <1>4, <2>1
  <2>3. Dts!SizeOf(s.pay[4]) \in Nat
    BY <2>2 DEF Dts!SizeOf, DtsByte
  <2>4. Dts!InfoOf(s.pay[5]) \in DtsInfo
    <3>1. s.pay[5].r \in Nat /\ s.pay[5].burst \in Nat
      BY <2>2 DEF DtsByte
    <3> DEFINE burst == Dts!Least(s.pay[5].burst, Dts!SPDIF_BURST_SIZE)
    <3>2. burst \in 0..Dts!SPDIF_BURST_SIZE
      BY <3>1, BurstSize DEF Dts!Least
    <3>3. Dts!InfoOf(s.pay[5]) = [rate |-> s.pay[5].r, burst |-> burst]
      BY DEF Dts!InfoOf
    <3> HIDE DEF burst
    <3> QED
      BY <3>1, <3>2, <3>3 DEF DtsInfo
  <2>5. s' \in DtsScanned(s'.sync) /\ s'.pay = s.pay /\ s'.size = Dts!SizeOf(s.pay[4])
    BY <1>4, <2>1, <2>3, <2>4, DtsPutHead, Zenon
  <2>6. DtsScan'
    BY <1>4, <2>1, <2>3, <2>5 DEF DtsScan
  <2> QED
    BY <1>1, <1>3, <1>5, <2>1, <2>6
<1>9. ASSUME s' = Dts!Resync \/ s' = [Dts!Resync EXCEPT !.size = 0] PROVE DtsScan'
  <2>1. s' \in DtsScanned(s'.sync) /\ s'.pay = << >> /\ s'.size \in Nat
    BY <1>4, <1>9, DtsResync
  <2> QED
    BY <2>1 DEF DtsScan
<1>10. ASSUME Dts!FrameMisfit \/ Dts!FramePlay PROVE Kept
  <2>1. UNCHANGED <<turn, out>>
    BY <1>10 DEF Dts!FrameMisfit, Dts!FramePlay
  <2>2. DtsScan'
    BY <1>9, <1>10 DEF Dts!FrameMisfit, Dts!FramePlay
  <2> QED
    BY <1>1, <1>3, <1>5, <2>1, <2>2
<1>11. ASSUME Dts!FrameBody PROVE Kept
  <2>1. UNCHANGED turn /\ out < tail /\ m + 4 < s.size
        /\ out' = Dts!Least(out + s.size - (m + 4), tail)
        /\ s' = [s EXCEPT !.pay = @ \o SubSeq(stream, out + 1, out')]
    BY <1>11 DEF Dts!FrameBody, Dts!Pos
  <2> DEFINE n == out' - out
             more == SubSeq(stream, out + 1, out')
             pay == s.pay \o more
  <2>2. n \in Nat /\ out' = out + n /\ out' <= tail /\ m + 4 + n <= s.size
    <3>1. m \in Nat /\ s.size \in Nat /\ out \in Nat /\ tail \in Nat
      BY <1>3, <1>4
    <3> DEFINE all == out + s.size - (m + 4)
    <3>2. out < tail /\ m + 4 < s.size /\ out' = Dts!Least(all, tail)
      BY <2>1
    <3> HIDE DEF m
    <3>3. all \in Nat /\ out < all
      BY <3>1, <3>2
    <3>4. out' \in Nat /\ out < out' /\ out' <= tail /\ out' <= all
      <4> HIDE DEF all
      <4> QED
        BY <3>1, <3>2, <3>3 DEF Dts!Least
    <3>5. all + m + 4 = out + s.size
      BY <3>1
    <3> HIDE DEF all
    <3>6. m + 4 + (out' - out) <= s.size
      BY <3>1, <3>3, <3>4, <3>5
    <3>7. out' - out \in Nat /\ out' = out + (out' - out)
      <4>1. out <= out'
        BY <3>1, <3>4
      <4> QED
        BY <3>1, <3>4, <4>1, Difference
    <3> QED
      BY <3>4, <3>6, <3>7
  <2> HIDE DEF n
  <2>3. stream \in Seq(DtsByte)
    BY DtsSent DEF DtsInv, DtsPlaces
  <2>4. more \in Seq(DtsByte) /\ Len(more) = n
    <3>1. more = SubSeq(stream, out + 1, out + n) /\ out + n <= Len(stream)
      BY <1>3, <2>2
    <3> QED
      BY <1>3, <2>2, <2>3, <3>1
  <2>5. s' = [s EXCEPT !.pay = pay]
    BY <2>1
  <2> HIDE DEF more
  <2>6. pay \in Seq(DtsByte) /\ Len(pay) = m + n
    BY <1>4, <2>4
  <2> HIDE DEF pay
  <2>7. s' \in DtsScanned(s'.sync) /\ s'.pay = pay /\ s'.size = s.size
    BY <1>4, <2>5, <2>6, DtsPutPay
  <2>8. DtsScan'
    <3>1. Len(s'.pay) + 4 <= s'.size /\ s'.size \in Nat
      BY <1>4, <2>2, <2>6, <2>7
    <3> QED
      BY <2>7, <3>1 DEF DtsScan
  <2> QED
    BY <1>1, <1>3, <1>5, <2>1, <2>2, <2>8
<1>12. ASSUME Dts!FrameOut PROVE Kept
  <2>1. UNCHANGED <<out, s>> /\ turn' = "idle" /\ out >= tail
    BY <1>12 DEF Dts!FrameOut
  <2>2. DtsScan'
    BY <2>1 DEF DtsInv, DtsScan
  <2>3. DtsPlaces'
    BY <1>1, <1>3, <2>1 DEF DtsInv, DtsPlaces
  <2> QED
    BY <2>2, <2>3
<1>13. Kept
  BY <1>6, <1>7, <1>8, <1>10, <1>11, <1>12 DEF Dts!Frame
<1> QED
  BY <1>2, <1>13 DEF DtsInv

LEMMA DtsKeeps == DtsInv /\ Dts!Next => DtsInv'
BY DtsFeedKeeps, DtsClearKeeps, DtsCountKeeps, DtsFrameKeeps DEF Dts!Next

LEMMA DtsTypes == DtsInv => Dts!TypeOK
<1> SUFFICES ASSUME DtsInv PROVE Dts!TypeOK
  OBVIOUS
<1>1. s.size \in Nat /\ s.info \in DtsInfo /\ Len(s.pay) \in Nat
  BY DEF DtsInv, DtsScan, DtsScanned
<1>2. Dts!Pos \in 4..(IF s.size > 10 THEN s.size ELSE 10)
  BY <1>1 DEF DtsInv, DtsScan, Dts!Pos
<1>3. s.info.burst \in 0..Dts!SPDIF_BURST_SIZE
  BY <1>1 DEF DtsInfo
<1>4. c.bfound \in Nat /\ c.fsize \in Nat
  BY DEF DtsInv, DtsCounter
<1> QED
  BY <1>1, <1>2, <1>3, <1>4 DEF DtsInv, DtsPlaces, Dts!TypeOK

-----------------------------------------------------------------------------
(* The Mpeg audio scanner.                                                   *)

Mp2Places == /\ stream \in Mp2Streams
             /\ tail \in 0..Len(stream) /\ buf \in 0..tail /\ out \in 0..tail
             /\ turn \in {"idle", "count", "frame"}
Mp2Flags == /\ spdif \in BOOLEAN /\ running \in BOOLEAN
            /\ rest \in BOOLEAN /\ ret \in BOOLEAN
Mp2Scanned(word) == [sync : {word}, pay : Seq(Mp2Byte), size : Nat, rate : Nat,
                     guard : Seq(Mp2Byte)]
Mp2Scan == /\ s \in Mp2Scanned(s.sync)
           /\ Len(s.pay) + 2 <= (IF s.size > 3 THEN s.size ELSE 3)
           /\ Len(s.guard) <= MAD_BUFFER_GUARD
Mp2Kept == obuf \in Seq(Mp2Byte) /\ Len(obuf) <= MAD_BUFFER_GUARD
Mp2Counter == /\ c \in [sync : {c.sync}, bfound : Nat, fsize : Nat, guard : Nat]
              /\ c.guard <= MAD_BUFFER_GUARD
Mp2Inv == Mp2Places /\ Mp2Flags /\ Mp2Scan /\ Mp2Kept /\ Mp2Counter

LEMMA Mp2Sent ==
  ASSUME NEW sent \in Mp2Streams
  PROVE  /\ sent \in Seq(Mp2Byte) /\ Len(sent) \in Nat
         /\ \A k \in 1..Len(sent) : sent[k] \in Mp2Byte
BY StreamAssumption

LEMMA Mp2SizeOf == \A b \in Mp2Byte : Mp2!SizeOf(b) \in Nat /\ b.r \in Nat
BY DEF Mp2!SizeOf, Mp2Byte

\* The records Frame() leaves in `s'.
LEMMA Mp2Nothing == \E none \in Seq(Mp2Byte) : none = << >> /\ Len(none) = 0
<1>1. << >> \in Seq(Mp2Byte) /\ Len(<< >>) = 0
  OBVIOUS
<1> QED
  BY <1>1

LEMMA Mp2ResetScan == s' = Mp2!ScanReset => Mp2Scan'
<1> SUFFICES ASSUME s' = Mp2!ScanReset PROVE Mp2Scan'
  OBVIOUS
<1>1. PICK none \in Seq(Mp2Byte) : none = << >> /\ Len(none) = 0
  BY Mp2Nothing
<1>2. s' = [sync |-> Mp2!None, pay |-> none, size |-> 0, rate |-> 0, guard |-> none]
  BY <1>1 DEF Mp2!ScanReset
<1>3. s' \in Mp2Scanned(s'.sync)
  BY <1>2 DEF Mp2Scanned
<1>4. s'.pay = none /\ s'.size = 0 /\ s'.guard = none
  BY <1>2
<1> QED
  BY <1>1, <1>3, <1>4, GuardAssumption DEF Mp2Scan

LEMMA Mp2PutPay ==
  ASSUME Mp2Scan, NEW pay \in Seq(Mp2Byte), s' = [s EXCEPT !.pay = pay],
         Len(pay) + 2 <= (IF s.size > 3 THEN s.size ELSE 3)
  PROVE  Mp2Scan'
<1>1. s' \in Mp2Scanned(s'.sync) /\ s'.pay = pay /\ s'.size = s.size /\ s'.guard = s.guard
  BY DEF Mp2Scan, Mp2Scanned
<1> QED
  BY <1>1 DEF Mp2Scan

LEMMA Mp2PutGuard ==
  ASSUME Mp2Scan, NEW guard \in Seq(Mp2Byte), s' = [s EXCEPT !.guard = guard],
         Len(guard) <= MAD_BUFFER_GUARD
  PROVE  Mp2Scan'
<1>1. s' \in Mp2Scanned(s'.sync) /\ s'.pay = s.pay /\ s'.size = s.size /\ s'.guard = guard
  BY DEF Mp2Scan, Mp2Scanned
<1> QED
  BY <1>1 DEF Mp2Scan

LEMMA Mp2PutHead ==
  ASSUME Mp2Scan, NEW size \in Nat, NEW rate \in Nat, s.size = 0,
         s' = [s EXCEPT !.size = size, !.rate = rate]
  PROVE  Mp2Scan'
<1>1. s' \in Mp2Scanned(s'.sync) /\ s'.pay = s.pay /\ s'.size = size /\ s'.guard = s.guard
  BY DEF Mp2Scan, Mp2Scanned
<1>2. Len(s.pay) \in Nat
  BY DEF Mp2Scan, Mp2Scanned
<1> QED
  BY <1>1, <1>2 DEF Mp2Scan

LEMMA Mp2PutSync ==
  ASSUME Mp2Scan, NEW word, s' = [s EXCEPT !.sync = word]
  PROVE  Mp2Scan'
<1>1. /\ s' \in Mp2Scanned(s'.sync)
      /\ s'.pay = s.pay /\ s'.size = s.size /\ s'.guard = s.guard
  BY DEF Mp2Scan, Mp2Scanned
<1> QED
  BY <1>1 DEF Mp2Scan

LEMMA Mp2ResyncScan ==
  ASSUME Mp2Scan, s' = Mp2!Resync \/ s' = [Mp2!Resync EXCEPT !.size = 0]
  PROVE  Mp2Scan'
<1>1. PICK none \in Seq(Mp2Byte) : none = << >> /\ Len(none) = 0
  BY Mp2Nothing
<1>2. Mp2!Resync = [s EXCEPT !.sync = Mp2!None, !.pay = none]
  BY <1>1 DEF Mp2!Resync
<1>3. s \in Mp2Scanned(s.sync)
  BY DEF Mp2Scan
<1>4. s' \in Mp2Scanned(s'.sync) /\ s'.pay = none /\ s'.guard = s.guard /\ s'.size \in Nat
  <2>1. CASE s' = Mp2!Resync
    BY <1>2, <1>3, <2>1 DEF Mp2Scanned
  <2>2. CASE s' = [Mp2!Resync EXCEPT !.size = 0]
    BY <1>2, <1>3, <2>2 DEF Mp2Scanned
  <2> QED
    BY <2>1, <2>2
<1> QED
  BY <1>1, <1>4 DEF Mp2Scan

-----------------------------------------------------------------------------
LEMMA Mp2InitInv == Mp2!Init => Mp2Inv
<1> SUFFICES ASSUME Mp2!Init PROVE Mp2Inv
  OBVIOUS
<1> USE DEF Mp2!Init
<1>1. Mp2Places
  BY Mp2Sent DEF Mp2Places
<1>2. Mp2Flags
  BY Zenon DEF Mp2Flags
<1>3. Mp2Scan
  <2>1. PICK none \in Seq(Mp2Byte) : none = << >> /\ Len(none) = 0
    BY Mp2Nothing
  <2>2. s = [sync |-> Mp2!None, pay |-> none, size |-> 0, rate |-> 0, guard |-> none]
    BY <2>1 DEF Mp2!ScanReset
  <2>3. s \in Mp2Scanned(s.sync)
    BY <2>2 DEF Mp2Scanned
  <2>4. s.pay = none /\ s.size = 0 /\ s.guard = none
    BY <2>2
  <2> QED
    BY <2>1, <2>3, <2>4, GuardAssumption DEF Mp2Scan
<1>4. Mp2Kept
  BY GuardAssumption DEF Mp2Kept
<1>5. Mp2Counter
  BY GuardAssumption DEF Mp2Counter, Mp2!CountReset
<1> QED
  BY <1>1, <1>2, <1>3, <1>4, <1>5 DEF Mp2Inv

LEMMA Mp2FeedKeeps == Mp2Inv /\ Mp2!Feed => Mp2Inv'
<1> SUFFICES ASSUME Mp2Inv, Mp2!Feed PROVE Mp2Inv'
  OBVIOUS
<1> USE DEF Mp2Inv, Mp2!Feed, Mp2!frameVars, Mp2!madVars
<1>1. Mp2Places'
  <2>1. Len(stream) \in Nat /\ out \in Nat /\ out < Len(stream)
    BY Mp2Sent DEF Mp2Places
  <2>2. PICK n \in Nat : tail' = IF out + n < Len(stream) THEN out + n ELSE Len(stream)
    BY PieceAssumption DEF Mp2!Least
  <2> QED
    BY <2>1, <2>2 DEF Mp2Places
<1>2. Mp2Flags'
  BY Zenon DEF Mp2Flags
<1>3. Mp2Scan' /\ Mp2Kept' /\ Mp2Counter'
  BY DEF Mp2Scan, Mp2Kept, Mp2Counter
<1> QED
  BY <1>1, <1>2, <1>3

LEMMA Mp2ClearKeeps == Mp2Inv /\ Mp2!Clear => Mp2Inv'
<1> SUFFICES ASSUME Mp2Inv, Mp2!Clear PROVE Mp2Inv'
  OBVIOUS
<1> USE DEF Mp2!Clear, Mp2!Refeed
<1>1. Mp2Places'
  BY Mp2Sent DEF Mp2Inv, Mp2Places
<1>2. Mp2Flags'
  BY Zenon DEF Mp2Flags
<1>3. Mp2Scan'
  BY Mp2ResetScan
<1>4. Mp2Kept'
  BY GuardAssumption DEF Mp2Kept
<1>5. Mp2Counter'
  BY GuardAssumption DEF Mp2Counter, Mp2!CountReset
<1> QED
  BY <1>1, <1>2, <1>3, <1>4, <1>5 DEF Mp2Inv

LEMMA Mp2CountKeeps == Mp2Inv /\ Mp2!Count => Mp2Inv'
<1> SUFFICES ASSUME Mp2Inv, Mp2!Count PROVE Mp2Inv'
  OBVIOUS
<1> DEFINE Kept == Mp2Places' /\ Mp2Counter'
<1>1. UNCHANGED <<stream, spdif, tail, out, s, obuf, running, rest>> /\ turn = "count"
  BY DEF Mp2!Count, Mp2!CountSync, Mp2!CountFound, Mp2!CountHead, Mp2!CountBody,
         Mp2!CountCross, Mp2!CountOut, Mp2!Counting, Mp2!frameVars, Mp2!madVars
<1>2. Mp2Scan' /\ Mp2Kept'
  BY <1>1 DEF Mp2Inv, Mp2Scan, Mp2Kept
<1>3. Mp2Flags'
  <2>1. ret' \in BOOLEAN
    BY Zenon
    DEF Mp2!Count, Mp2!CountSync, Mp2!CountFound, Mp2!CountHead, Mp2!CountBody,
        Mp2!CountCross, Mp2!CountOut, Mp2!countVars, Mp2Inv, Mp2Flags
  <2> QED
    BY <1>1, <2>1, Zenon DEF Mp2Inv, Mp2Flags
<1>4. /\ Len(stream) \in Nat /\ \A k \in 1..Len(stream) : stream[k] \in Mp2Byte
      /\ tail \in 0..Len(stream) /\ buf \in 0..tail /\ out \in 0..tail
  BY Mp2Sent DEF Mp2Inv, Mp2Places
<1>5. /\ c \in [sync : {c.sync}, bfound : Nat, fsize : Nat, guard : Nat]
      /\ c.bfound \in Nat /\ c.fsize \in Nat /\ c.guard \in Nat
      /\ c.guard <= MAD_BUFFER_GUARD
  BY DEF Mp2Inv, Mp2Counter
<1>6. ASSUME buf' \in buf..tail, turn' \in {"count", "frame"} PROVE Mp2Places'
  BY <1>1, <1>4, <1>6 DEF Mp2Inv, Mp2Places
<1>7. ASSUME Mp2!CountSync PROVE Kept
  <2> DEFINE word == <<c.sync[2], stream[buf'].v>>
  <2>1. buf' = buf + 1 /\ buf < tail /\ UNCHANGED turn /\ c' = [c EXCEPT !.sync = word]
    BY <1>7 DEF Mp2!CountSync
  <2> HIDE DEF word
  <2>2. Mp2Counter'
    BY <1>5, <2>1 DEF Mp2Counter
  <2> QED
    BY <1>1, <1>4, <1>6, <2>1, <2>2
<1>8. ASSUME Mp2!CountFound PROVE Kept
  <2> DEFINE guard == IF c.guard = MAD_BUFFER_GUARD THEN c.guard - 2 ELSE 0
  <2>1. UNCHANGED <<turn, buf>> /\ c' = [c EXCEPT !.bfound = 2, !.guard = guard]
    BY <1>8 DEF Mp2!CountFound
  <2>2. guard \in Nat /\ guard <= MAD_BUFFER_GUARD
    BY <1>5, GuardAssumption
  <2> HIDE DEF guard
  <2>3. Mp2Counter'
    BY <1>5, <2>1, <2>2 DEF Mp2Counter
  <2> QED
    BY <1>1, <1>4, <1>6, <2>1, <2>3
<1>9. ASSUME Mp2!CountHead PROVE Kept
  <2> DEFINE size == Mp2!SizeOf(stream[buf + 1])
             guard == IF c.guard # 0 /\ c.guard = MAD_BUFFER_GUARD - 2
                      THEN c.guard - 1 ELSE 0
  <2>1. buf < tail /\ UNCHANGED turn
        /\ \/ c' = [c EXCEPT !.bfound = 3, !.guard = guard, !.fsize = size]
              /\ buf' = buf + 1
           \/ c' = [c EXCEPT !.bfound = 0, !.guard = guard, !.sync = Mp2!None]
              /\ buf' = buf
    BY <1>9 DEF Mp2!CountHead
  <2>2. size \in Nat
    BY <1>4, <2>1, Mp2SizeOf
  <2>3. guard \in Nat /\ guard <= MAD_BUFFER_GUARD
    BY <1>5, GuardAssumption
  <2> HIDE DEF size, guard
  <2>4. CASE c' = [c EXCEPT !.bfound = 3, !.guard = guard, !.fsize = size]
    <3>1. Mp2Counter'
      BY <1>5, <2>2, <2>3, <2>4 DEF Mp2Counter
    <3> QED
      BY <1>1, <1>4, <1>6, <2>1, <3>1
  <2>5. CASE c' = [c EXCEPT !.bfound = 0, !.guard = guard, !.sync = Mp2!None]
    <3>1. Mp2Counter'
      BY <1>5, <2>3, <2>5 DEF Mp2Counter
    <3> QED
      BY <1>1, <1>4, <1>6, <2>1, <3>1
  <2> QED
    BY <2>1, <2>4, <2>5
<1>10. ASSUME Mp2!CountBody PROVE Kept
  <2> DEFINE n == Mp2!Least(c.fsize - c.bfound, tail - buf)
             guard == c.guard - Mp2!Least(n, c.guard)
             found == c.bfound + n
  <2>1. buf' = buf + n /\ UNCHANGED turn
        /\ c' = [c EXCEPT !.bfound = found, !.guard = guard]
        /\ c.bfound < c.fsize /\ buf < tail
    BY <1>10 DEF Mp2!CountBody
  <2>2. n \in Nat /\ buf + n <= tail
    BY <1>4, <1>5, <2>1 DEF Mp2!Least
  <2> HIDE DEF n
  <2>3. guard \in Nat /\ guard <= MAD_BUFFER_GUARD /\ found \in Nat
    BY <1>5, <2>2, GuardAssumption DEF Mp2!Least
  <2> HIDE DEF guard, found
  <2>4. Mp2Counter'
    BY <1>5, <2>1, <2>3 DEF Mp2Counter
  <2> QED
    BY <1>1, <1>4, <1>6, <2>1, <2>2, <2>4
<1>11. ASSUME Mp2!CountCross PROVE Kept
  <2> DEFINE guard == IF spdif THEN c.guard ELSE MAD_BUFFER_GUARD
  <2>1. UNCHANGED <<turn, buf>>
        /\ c' = [c EXCEPT !.bfound = 0, !.sync = Mp2!None, !.guard = guard]
    BY <1>11 DEF Mp2!CountCross
  <2>2. guard \in Nat /\ guard <= MAD_BUFFER_GUARD
    BY <1>5, GuardAssumption
  <2> HIDE DEF guard
  <2>3. Mp2Counter'
    BY <1>5, <2>1, <2>2 DEF Mp2Counter
  <2> QED
    BY <1>1, <1>4, <1>6, <2>1, <2>3
<1>12. ASSUME Mp2!CountOut PROVE Kept
  <2>1. UNCHANGED <<buf, c>> /\ turn' = "frame"
    BY <1>12 DEF Mp2!CountOut, Mp2!countVars
  <2>2. Mp2Counter'
    BY <2>1 DEF Mp2Inv, Mp2Counter
  <2> QED
    BY <1>1, <1>4, <1>6, <2>1, <2>2
<1>13. Kept
  BY <1>7, <1>8, <1>9, <1>10, <1>11, <1>12 DEF Mp2!Count
<1> QED
  BY <1>2, <1>3, <1>13 DEF Mp2Inv

LEMMA Mp2FrameKeeps == Mp2Inv /\ Mp2!Frame => Mp2Inv'
<1> SUFFICES ASSUME Mp2Inv, Mp2!Frame PROVE Mp2Inv'
  OBVIOUS
<1> DEFINE Steady == UNCHANGED <<running, rest>>
           Kept == Mp2Places' /\ Mp2Scan' /\ Mp2Kept'
           m == Len(s.pay)
           g == Len(s.guard)
<1>1. UNCHANGED <<stream, spdif, tail, buf, c, ret>> /\ turn = "frame"
  BY DEF Mp2!Frame, Mp2!FrameNew, Mp2!FrameSync, Mp2!FrameHead, Mp2!FrameParse,
         Mp2!FrameRate, Mp2!FrameBody, Mp2!FramePlay, Mp2!FrameGuard, Mp2!StreamFails,
         Mp2!Decode, Mp2!FrameOut, Mp2!Framing, Mp2!countVars
<1>2. Mp2Counter'
  BY <1>1 DEF Mp2Inv, Mp2Counter
<1>3. Mp2Flags'
  <2>1. CASE Steady
    BY <1>1, <2>1, Zenon DEF Mp2Inv, Mp2Flags
  <2>2. CASE Mp2!Decode
    <3>1. running' \in BOOLEAN
      BY <2>2, Zenon DEF Mp2!Decode
    <3>2. rest' \in BOOLEAN
      BY <2>2, Zenon DEF Mp2!Decode
    <3> QED
      BY <1>1, <3>1, <3>2, Zenon DEF Mp2Inv, Mp2Flags
  <2> QED
    BY <2>1, <2>2
    DEF Mp2!Frame, Mp2!FrameNew, Mp2!FrameSync, Mp2!FrameHead, Mp2!FrameParse,
        Mp2!FrameRate, Mp2!FrameBody, Mp2!FramePlay, Mp2!FrameGuard, Mp2!StreamFails,
        Mp2!FrameOut, Mp2!frameVars, Mp2!madVars
<1>4. /\ stream \in Seq(Mp2Byte) /\ Len(stream) \in Nat
      /\ \A k \in 1..Len(stream) : stream[k] \in Mp2Byte
      /\ tail \in 0..Len(stream) /\ buf \in 0..tail /\ out \in 0..tail
  BY Mp2Sent DEF Mp2Inv, Mp2Places
<1>5. /\ Mp2Scan /\ s.pay \in Seq(Mp2Byte) /\ s.size \in Nat /\ s.guard \in Seq(Mp2Byte)
      /\ m \in Nat /\ m + 2 <= (IF s.size > 3 THEN s.size ELSE 3)
      /\ g \in Nat /\ g <= MAD_BUFFER_GUARD
  BY DEF Mp2Inv, Mp2Scan, Mp2Scanned
<1>6. obuf \in Seq(Mp2Byte) /\ Len(obuf) \in Nat /\ Len(obuf) <= MAD_BUFFER_GUARD
  BY DEF Mp2Inv, Mp2Kept
<1>7. ASSUME out' \in out..tail, turn' \in {"frame", "idle"} PROVE Mp2Places'
  BY <1>1, <1>4, <1>7 DEF Mp2Inv, Mp2Places
<1>8. ASSUME UNCHANGED obuf PROVE Mp2Kept'
  BY <1>8 DEF Mp2Inv, Mp2Kept
<1>9. ASSUME Mp2!More, Mp2!Consumed
      PROVE  Mp2!NextByte \in Mp2Byte /\ out' \in out..tail /\ Mp2Kept'
  <2>1. CASE obuf # << >>
    <3>1. obuf[1] \in Mp2Byte
      BY <1>6, <2>1
    <3>2. Tail(obuf) \in Seq(Mp2Byte) /\ Len(Tail(obuf)) = Len(obuf) - 1
      BY <1>6, <2>1
    <3>3. obuf' = Tail(obuf) /\ out' = out /\ Mp2!NextByte = obuf[1]
      BY <1>9, <2>1 DEF Mp2!Consumed, Mp2!NextByte
    <3>4. Len(obuf') <= MAD_BUFFER_GUARD
      BY <1>6, <3>2, <3>3, GuardAssumption
    <3>5. Mp2Kept'
      BY <3>2, <3>3, <3>4 DEF Mp2Kept
    <3> QED
      BY <1>4, <3>1, <3>3, <3>5
  <2>2. CASE obuf = << >>
    BY <1>4, <1>8, <1>9, <2>2 DEF Mp2!More, Mp2!Consumed, Mp2!NextByte
  <2> QED
    BY <2>1, <2>2
<1>10. ASSUME Mp2!FrameNew PROVE Kept
  <2>1. UNCHANGED <<turn, out>> /\ obuf' = s.guard /\ s' = [s EXCEPT !.guard = << >>]
    BY <1>10 DEF Mp2!FrameNew
  <2>2. PICK none \in Seq(Mp2Byte) : none = << >> /\ Len(none) = 0
    BY Mp2Nothing
  <2>3. Mp2Scan'
    <3>1. s' = [s EXCEPT !.guard = none] /\ Len(none) <= MAD_BUFFER_GUARD
      BY <2>1, <2>2, GuardAssumption
    <3> QED
      BY <1>5, <2>2, <3>1, Mp2PutGuard
  <2>4. Mp2Kept'
    BY <1>5, <2>1 DEF Mp2Kept
  <2> QED
    BY <1>1, <1>4, <1>7, <2>1, <2>3, <2>4
<1>11. ASSUME Mp2!FrameSync PROVE Kept
  <2> DEFINE word == <<s.sync[2], Mp2!NextByte.v>>
  <2>1. UNCHANGED turn /\ s' = [s EXCEPT !.sync = word] /\ Mp2!More /\ Mp2!Consumed
    BY <1>11 DEF Mp2!FrameSync
  <2> HIDE DEF word
  <2>2. Mp2Scan'
    BY <1>5, <2>1, Mp2PutSync
  <2> QED
    BY <1>1, <1>7, <1>9, <2>1, <2>2
<1>12. ASSUME Mp2!FrameHead PROVE Kept
  <2> DEFINE pay == Append(s.pay, Mp2!NextByte)
  <2>1. UNCHANGED turn /\ s' = [s EXCEPT !.pay = pay] /\ Mp2!More /\ Mp2!Consumed
        /\ m + 2 < 3
    BY <1>12 DEF Mp2!FrameHead, Mp2!Pos
  <2>2. pay \in Seq(Mp2Byte) /\ Len(pay) = m + 1
    BY <1>5, <1>9, <2>1
  <2> HIDE DEF pay
  <2>3. Len(pay) + 2 <= (IF s.size > 3 THEN s.size ELSE 3)
    BY <1>5, <2>1, <2>2
  <2>4. Mp2Scan'
    BY <1>5, <2>1, <2>2, <2>3, Mp2PutPay
  <2> QED
    BY <1>1, <1>7, <1>9, <2>1, <2>4
<1>13. ASSUME Mp2!FrameParse PROVE Kept
  <2> DEFINE b == s.pay[1]
  <2>1. UNCHANGED <<turn, out, obuf>> /\ m + 2 >= 3 /\ s.size = 0
        /\ s' = IF Mp2!SizeOf(b) = 0 THEN Mp2!Resync
                ELSE [s EXCEPT !.size = Mp2!SizeOf(b), !.rate = b.r]
    BY <1>13 DEF Mp2!FrameParse, Mp2!HeadKnown, Mp2!Pos
  <2>2. b \in Mp2Byte
    BY <1>5, <2>1
  <2> HIDE DEF b
  <2>3. Mp2!SizeOf(b) \in Nat /\ b.r \in Nat
    BY <2>2, Mp2SizeOf
  <2>4. Mp2Scan'
    <3>1. CASE Mp2!SizeOf(b) = 0
      BY <1>5, <2>1, <3>1, Mp2ResyncScan
    <3>2. CASE Mp2!SizeOf(b) # 0
      BY <1>5, <2>1, <2>3, <3>2, Mp2PutHead, Zenon
    <3> QED
      BY <3>1, <3>2
  <2> QED
    BY <1>1, <1>4, <1>7, <1>8, <2>1, <2>4
<1>14. ASSUME Mp2!FrameRate \/ Mp2!FramePlay PROVE Kept
  <2>1. UNCHANGED <<turn, out, obuf>> /\ s' = [Mp2!Resync EXCEPT !.size = 0]
    BY <1>14 DEF Mp2!FrameRate, Mp2!FramePlay
  <2>2. Mp2Scan'
    BY <1>5, <2>1, Mp2ResyncScan
  <2> QED
    BY <1>1, <1>4, <1>7, <1>8, <2>1, <2>2
<1>15. ASSUME Mp2!FrameBody PROVE Kept
  <2> DEFINE from == IF obuf # << >> THEN obuf ELSE SubSeq(stream, out + 1, tail)
             n == Mp2!Least(s.size - (m + 2), Len(from))
             part == SubSeq(from, 1, n)
             pay == s.pay \o part
  <2>1. UNCHANGED turn /\ m + 2 < s.size /\ Mp2!More /\ s' = [s EXCEPT !.pay = pay]
    BY <1>15 DEF Mp2!FrameBody, Mp2!Pos
  <2>2. IF obuf # << >> THEN obuf' = SubSeq(obuf, n + 1, Len(obuf)) /\ out' = out
                       ELSE out' = out + n /\ obuf' = obuf
    BY <1>15 DEF Mp2!FrameBody, Mp2!Pos
  <2>3. from \in Seq(Mp2Byte) /\ Len(from) \in Nat
        /\ (obuf = << >> => Len(from) = tail - out)
    <3>1. CASE obuf # << >>
      BY <1>6, <3>1
    <3>2. CASE obuf = << >>
      BY <1>4, <3>2
    <3> QED
      BY <3>1, <3>2
  <2>4. n \in Nat /\ n <= Len(from) /\ m + 2 + n <= s.size
    <3> DEFINE len == Len(from)
    <3>1. len \in Nat /\ n = Mp2!Least(s.size - (m + 2), len)
      BY <2>3
    <3>2. m \in Nat /\ s.size \in Nat /\ m + 2 < s.size
      BY <1>5, <2>1
    <3> HIDE DEF len, m, n
    <3>3. n \in Nat /\ n <= len /\ n <= s.size - (m + 2)
      BY <3>1, <3>2 DEF Mp2!Least
    <3>4. m + 2 + n <= s.size
      BY <3>2, <3>3
    <3> QED
      BY <3>3, <3>4 DEF len
  <2>5. part \in Seq(Mp2Byte) /\ Len(part) = n
    <3> HIDE DEF n, from
    <3> QED
      BY <2>3, <2>4
  <2>6. pay \in Seq(Mp2Byte) /\ Len(pay) = m + n
    <3> HIDE DEF n, part
    <3> QED
      BY <1>5, <2>4, <2>5
  <2>7. Mp2Scan'
    <3> HIDE DEF pay, n, m
    <3>1. Len(pay) + 2 <= (IF s.size > 3 THEN s.size ELSE 3)
      BY <1>5, <2>1, <2>4, <2>6
    <3> QED
      BY <1>5, <2>1, <2>6, <3>1, Mp2PutPay
  <2>8. Mp2Kept' /\ out' \in out..tail
    <3>1. CASE obuf # << >>
      <4>1. obuf' = SubSeq(obuf, n + 1, Len(obuf)) /\ n <= Len(obuf) /\ out' = out
        BY <2>2, <2>4, <3>1
      <4> HIDE DEF n
      <4>2. obuf' \in Seq(Mp2Byte) /\ Len(obuf') = Len(obuf) - n
        BY <1>6, <2>4, <4>1
      <4>3. Len(obuf') <= MAD_BUFFER_GUARD
        BY <1>6, <2>4, <4>2, GuardAssumption
      <4>4. Mp2Kept'
        BY <4>2, <4>3 DEF Mp2Kept
      <4> QED
        BY <1>4, <4>1, <4>4
    <3>2. CASE obuf = << >>
      <4>1. out' = out + n /\ UNCHANGED obuf /\ n <= tail - out
        BY <2>2, <2>3, <2>4, <3>2
      <4> HIDE DEF n
      <4> QED
        BY <1>4, <1>8, <2>4, <4>1
    <3> QED
      BY <3>1, <3>2
  <2> QED
    BY <1>1, <1>7, <2>1, <2>7, <2>8
<1>16. ASSUME Mp2!FrameGuard PROVE Kept
  <2> DEFINE all == out + MAD_BUFFER_GUARD - g
             part == SubSeq(stream, out + 1, out')
             guard == s.guard \o part
             n == out' - out
  <2>1. UNCHANGED <<turn, obuf>> /\ g # MAD_BUFFER_GUARD /\ out < tail
        /\ out' = Mp2!Least(all, tail) /\ s' = [s EXCEPT !.guard = guard]
    BY <1>16 DEF Mp2!FrameGuard, Mp2!GuardFull
  <2>2. all \in Nat /\ out < all /\ all + g = out + MAD_BUFFER_GUARD
    <3> HIDE DEF g
    <3> QED
      BY <1>4, <1>5, <2>1, GuardAssumption, SMTT(30)
  <2>3. out' \in Nat /\ out < out' /\ out' <= tail /\ out' <= all
    <3> HIDE DEF all
    <3> QED
      BY <1>4, <2>1, <2>2 DEF Mp2!Least
  <2>4. n \in Nat /\ g + n <= MAD_BUFFER_GUARD /\ out' = out + n
    <3> HIDE DEF g, all
    <3>1. out <= out' /\ out \in Nat
      BY <1>4, <2>3
    <3>2. n \in Nat /\ out' = out + n
      BY <2>3, <3>1, Difference
    <3> HIDE DEF n
    <3> QED
      BY <1>4, <1>5, <2>2, <2>3, <3>2, GuardAssumption
  <2> HIDE DEF n
  <2>5. part \in Seq(Mp2Byte) /\ Len(part) = n
    <3>1. part = SubSeq(stream, out + 1, out + n) /\ out + n <= Len(stream)
      BY <1>4, <2>3, <2>4
    <3> QED
      BY <1>4, <2>4, <3>1
  <2> HIDE DEF part
  <2>6. guard \in Seq(Mp2Byte) /\ Len(guard) = g + n
    <3>1. s.guard \in Seq(Mp2Byte)
      BY <1>5
    <3>2. guard \in Seq(Mp2Byte) /\ Len(guard) = g + Len(part)
      BY <2>5, <3>1, Joined
    <3> QED
      BY <2>5, <3>2
  <2> HIDE DEF guard
  <2>7. Mp2Scan'
    BY <1>5, <2>1, <2>4, <2>6, Mp2PutGuard
  <2>8. out' \in out..tail
    BY <1>4, <2>3
  <2> QED
    BY <1>1, <1>7, <1>8, <2>1, <2>7, <2>8
<1>17. ASSUME s' = Mp2!Finished PROVE Mp2Scan'
  <2>1. CASE running
    BY <1>5, <1>17, <2>1, Mp2ResyncScan DEF Mp2!Finished
  <2>2. CASE ~running
    BY <1>17, <2>2, Mp2ResetScan DEF Mp2!Finished
  <2> QED
    BY <2>1, <2>2
<1>18. ASSUME Mp2!StreamFails PROVE Kept
  <2>1. UNCHANGED <<turn, out, obuf>> /\ s' = Mp2!Finished
    BY <1>18 DEF Mp2!StreamFails
  <2> QED
    BY <1>1, <1>4, <1>7, <1>8, <1>17, <2>1
<1>19. ASSUME Mp2!Decode PROVE Kept
  <2>1. UNCHANGED obuf /\ s' = Mp2!Finished
    BY <1>19 DEF Mp2!Decode
  <2>2. UNCHANGED <<turn, out>> \/ (turn' = "idle" /\ out' = tail)
    BY <1>19 DEF Mp2!Decode, Mp2!Again
  <2> QED
    BY <1>1, <1>4, <1>7, <1>8, <1>17, <2>1, <2>2
<1>20. ASSUME Mp2!FrameOut PROVE Kept
  <2>1. UNCHANGED <<out, s, obuf>> /\ turn' = "idle"
    BY <1>20 DEF Mp2!FrameOut, Mp2!frameVars
  <2>2. Mp2Scan'
    BY <2>1 DEF Mp2Inv, Mp2Scan
  <2> QED
    BY <1>4, <1>7, <1>8, <2>1, <2>2
<1>21. Kept
  BY <1>10, <1>11, <1>12, <1>13, <1>14, <1>15, <1>16, <1>18, <1>19, <1>20 DEF Mp2!Frame
<1> QED
  BY <1>2, <1>3, <1>21 DEF Mp2Inv

LEMMA Mp2Keeps == Mp2Inv /\ Mp2!Next => Mp2Inv'
BY Mp2FeedKeeps, Mp2ClearKeeps, Mp2CountKeeps, Mp2FrameKeeps DEF Mp2!Next

LEMMA Mp2Types == Mp2Inv => Mp2!TypeOK
<1> SUFFICES ASSUME Mp2Inv PROVE Mp2!TypeOK
  OBVIOUS
<1>1. s.size \in Nat /\ Len(s.pay) \in Nat
  BY DEF Mp2Inv, Mp2Scan, Mp2Scanned
<1>2. Mp2!Pos \in 2..(IF s.size > 3 THEN s.size ELSE 3)
  BY <1>1 DEF Mp2Inv, Mp2Scan, Mp2!Pos
<1>3. c.bfound \in Nat /\ c.guard \in 0..MAD_BUFFER_GUARD
  BY GuardAssumption DEF Mp2Inv, Mp2Counter
<1>4. {running, rest, ret} \subseteq BOOLEAN /\ spdif \in BOOLEAN
  BY Zenon DEF Mp2Inv, Mp2Flags
<1> QED
  BY <1>2, <1>3, <1>4 DEF Mp2Inv, Mp2Places, Mp2Scan, Mp2Kept, Mp2!TypeOK

-----------------------------------------------------------------------------
(* The AC3 counter and scanner on their stream: Count() runs ahead over a    *)
(* piece and Frame() follows it, and both see the same frames.               *)

\* Y are the places of sync words: h is the first one from b on.  A list of
\* heads: each is the first one from the end E of the frame before.
Found(Y, b, h) == h \in Y /\ b <= h /\ \A j \in b..h - 1 : j \notin Y
From(E, H, n) == IF n = 0 THEN 0 ELSE E[H[n]]
Heads(Y, E, H) == /\ H \in Seq(Nat)
                  /\ \A k \in 1..Len(H) : Found(Y, From(E, H, k - 1), H[k])

\* Behind which bytes sync words stand, data that look like one included; the
\* size told there, and the end it gives; what HeadsFit asks of them.
Ac3Y(w) == {j \in 0..Len(w) - 2 : <<w[j + 1].v, w[j + 2].v>> = Ac3!Magic}
Ac3Z(w, j) == Ac3!SizeOf(w[j + 5])
Ac3E(w) == [j \in Nat |-> j + Ac3Z(w, j)]
Ac3Fit(w) == \A j \in Ac3Y(w) : j + 5 <= Len(w) => Ac3Z(w, j) > 5
Ac3Own(w) == \A j \in Ac3Y(w) : j + 5 <= Len(w) => Ac3!FreqOf(w[j + 5]) = Rate

\* A sync word is looked for since b, and p bytes are read.
Ac3Seek(w, b, p, sync) ==
    /\ b \in 0..p
    /\ sync = <<IF b <= p - 2 THEN w[p - 1].v ELSE "ff",
                IF b <= p - 1 THEN w[p].v ELSE "ff">>
    /\ \A j \in b..p - 2 : j \notin Ac3Y(w)

\* The counter x with p bytes read is in the frame behind h, or behind it; it
\* has crossed the first n of the heads H it has found.
Ac3InFrame(w, h, p, x) ==
    /\ p = h + (IF x.bfound = 0 THEN 2 ELSE x.bfound) /\ x.bfound # 1
    /\ x.bfound >= 5 => x.fsize = Ac3Z(w, h) /\ x.bfound <= x.fsize
Ac3CountOK(w, H, p, x, n) ==
    /\ n \in Nat
    /\ \A k \in 1..n : H[k] + 5 <= p /\ Ac3E(w)[H[k]] <= p
    /\ IF x.sync = Ac3!Magic
       THEN Len(H) = n + 1 /\ Ac3InFrame(w, H[n + 1], p, x)
       ELSE Len(H) = n /\ x.bfound = 0 /\ Ac3Seek(w, From(Ac3E(w), H, n), p, x.sync)

\* A payload is a piece of the stream, behind its place b.
Slice(pay, w, b) == \A k \in 1..Len(pay) : pay[k] = w[b + k]
\* The scanner y with p bytes read has the payload of the frame behind h; it
\* has done with the first n heads the counter has found.
Ac3Taking(w, h, p, y) ==
    /\ p = h + 2 + Len(y.pay) /\ Slice(y.pay, w, h + 2)
    /\ y.size # 0 => /\ Len(y.pay) >= 4 /\ y.size = Ac3Z(w, h)
                     /\ y.rate = Ac3!FreqOf(w[h + 5])
Ac3ScanOK(w, H, p, y, n) ==
    IF y.sync = Ac3!Magic
    THEN n < Len(H) /\ Ac3Taking(w, H[n + 1], p, y)
    ELSE y.pay = << >> /\ y.size = 0 /\ n <= Len(H) /\ Ac3Seek(w, From(Ac3E(w), H, n), p, y.sync)

\* Frame() need not read on.  Counter and scanner take turns on a piece, and
\* follow the same heads.
Ac3Done(y) == y.sync = Ac3!Magic /\ Len(y.pay) >= 4 /\ (y.size = 0 \/ Len(y.pay) + 2 >= y.size)
Ac3Turns == /\ out <= buf /\ Len(heard) <= crossed
            /\ turn # "count" => buf = tail /\ (c.bfound >= 5 => c.bfound < c.fsize)
            /\ turn = "idle" => out = tail /\ crossed = Len(heard) /\ ~Ac3Done(s)
            /\ turn # "idle" /\ crossed > Len(heard) => ret
            /\ heard # << >> => last # 0
Ac3Agrees(H) == Heads(Ac3Y(stream), Ac3E(stream), H) /\ Ac3CountOK(stream, H, buf, c, crossed)
             /\ Ac3ScanOK(stream, H, out, s, Len(heard)) /\ Ac3Turns

LEMMA Ac3SeekNew ==
  ASSUME NEW w, NEW b \in Nat
  PROVE  Ac3Seek(w, b, b, Ac3!None)
BY DEF Ac3Seek, Ac3!None

LEMMA Ac3SeekOn ==
  ASSUME NEW w \in Seq(Ac3Byte), NEW b \in Nat, NEW p \in Nat, p < Len(w),
         NEW sync, Ac3Seek(w, b, p, sync),
         NEW next, next = <<sync[2], w[p + 1].v>>
  PROVE  /\ next = Ac3!Magic => Found(Ac3Y(w), b, p - 1)
         /\ next # Ac3!Magic => Ac3Seek(w, b, p + 1, next)
<1>1. b <= p /\ \A j \in b..p - 2 : j \notin Ac3Y(w)
  BY DEF Ac3Seek
<1>2. next = <<IF b <= p - 1 THEN w[p].v ELSE "ff", w[p + 1].v>>
  BY DEF Ac3Seek
<1>3. next = <<IF b <= p + 1 - 2 THEN w[p + 1 - 1].v ELSE "ff",
               IF b <= p + 1 - 1 THEN w[p + 1].v ELSE "ff">>
  BY <1>1, <1>2
<1>4. next = Ac3!Magic <=> b <= p - 1 /\ <<w[p].v, w[p + 1].v>> = Ac3!Magic
  BY <1>2 DEF Ac3!Magic
<1>5. ASSUME next = Ac3!Magic PROVE Found(Ac3Y(w), b, p - 1)
  <2>1. p - 1 \in 0..Len(w) - 2 /\ p - 1 + 1 = p /\ p - 1 + 2 = p + 1
    BY <1>4, <1>5
  <2>2. p - 1 \in Ac3Y(w)
    BY <1>4, <1>5, <2>1 DEF Ac3Y
  <2> QED
    BY <1>1, <1>4, <1>5, <2>2 DEF Found
<1>6. ASSUME next # Ac3!Magic PROVE Ac3Seek(w, b, p + 1, next)
  <2>1. \A j \in b..p - 1 : j \notin Ac3Y(w)
    <3> SUFFICES ASSUME NEW j \in b..p - 1, j \in Ac3Y(w) PROVE FALSE
      OBVIOUS
    <3>1. j = p - 1
      BY <1>1
    <3>2. j + 1 = p /\ j + 2 = p + 1
      BY <3>1
    <3>3. <<w[j + 1].v, w[j + 2].v>> = Ac3!Magic
      BY DEF Ac3Y
    <3> QED
      BY <1>4, <1>6, <3>1, <3>2, <3>3
  <2>2. (p + 1) - 2 = p - 1 /\ b <= p + 1
    BY <1>1
  <2> QED
    BY <1>3, <2>1, <2>2 DEF Ac3Seek
<1> QED
  BY <1>5, <1>6

Ac3Count(x) == x \in [sync : {x.sync}, bfound : Nat, fsize : Nat]

LEMMA Ac3MoreHeads ==
  ASSUME NEW Y, NEW E, NEW H, Heads(Y, E, H), NEW h \in Nat,
         Found(Y, From(E, H, Len(H)), h)
  PROVE  LET G == Append(H, h)
         IN Heads(Y, E, G) /\ Len(G) = Len(H) + 1 /\ G[Len(H) + 1] = h
            /\ \A k \in 1..Len(H) : G[k] = H[k]
<1> DEFINE G == Append(H, h)
<1>1. H \in Seq(Nat) /\ Len(H) \in Nat
  BY DEF Heads
<1>2. G \in Seq(Nat) /\ Len(G) = Len(H) + 1 /\ G[Len(H) + 1] = h
  BY <1>1
<1>3. \A k \in 1..Len(H) : G[k] = H[k]
  BY <1>1
<1> HIDE DEF G
<1>4. \A k \in 0..Len(H) : From(E, G, k) = From(E, H, k)
  BY <1>1, <1>3 DEF From
<1>5. \A k \in 1..Len(G) : Found(Y, From(E, G, k - 1), G[k])
  <2> SUFFICES ASSUME NEW k \in 1..Len(G) PROVE Found(Y, From(E, G, k - 1), G[k])
    OBVIOUS
  <2>1. k - 1 \in 0..Len(H)
    BY <1>1, <1>2
  <2>2. CASE k \in 1..Len(H)
    BY <1>3, <1>4, <2>1, <2>2 DEF Heads
  <2>3. CASE k = Len(H) + 1
    BY <1>1, <1>2, <1>4, <2>1, <2>3
  <2> QED
    BY <1>1, <1>2, <2>2, <2>3
<1>6. Heads(Y, E, G)
  BY <1>2, <1>5 DEF Heads
<1> QED
  BY <1>2, <1>3, <1>6 DEF G

\* What the counter has found stays, and grows.
Grows(H, G) == Len(H) <= Len(G) /\ \A k \in 1..Len(H) : G[k] = H[k]

LEMMA Ac3ZNat ==
  ASSUME NEW w \in Seq(Ac3Byte), NEW h \in Nat, h + 5 <= Len(w)
  PROVE  Ac3Z(w, h) \in Nat /\ Ac3E(w)[h] = h + Ac3Z(w, h)
<1>1. h + 5 \in 1..Len(w)
  OBVIOUS
<1>2. w[h + 5] \in Ac3Byte
  BY <1>1
<1> QED
  BY <1>2 DEF Ac3Z, Ac3E, Ac3Byte, Ac3!SizeOf

LEMMA Ac3TickSync ==
  ASSUME NEW w \in Seq(Ac3Byte), NEW H, Heads(Ac3Y(w), Ac3E(w), H), NEW p \in Nat, p < Len(w),
         NEW x, Ac3Count(x), NEW n, Ac3CountOK(w, H, p, x, n), x.sync # Ac3!Magic
  PROVE  LET y == [x EXCEPT !.sync = <<@[2], w[p + 1].v>>]
         IN \E G : /\ Heads(Ac3Y(w), Ac3E(w), G) /\ Ac3CountOK(w, G, p + 1, y, n)
                   /\ Grows(H, G)
<1> DEFINE next == <<x.sync[2], w[p + 1].v>>
           y == [x EXCEPT !.sync = <<@[2], w[p + 1].v>>]
           b == From(Ac3E(w), H, n)
<1>1. n \in Nat /\ Len(H) = n /\ x.bfound = 0 /\ Ac3Seek(w, b, p, x.sync)
      /\ H \in Seq(Nat) /\ \A k \in 1..n : H[k] + 5 <= p /\ Ac3E(w)[H[k]] <= p
  BY DEF Ac3CountOK, Heads
<1>2. b \in Nat /\ b <= p
  BY <1>1 DEF Ac3Seek
<1>3. y.sync = next /\ y.bfound = 0
  BY <1>1 DEF Ac3Count
<1>4. /\ next = Ac3!Magic => Found(Ac3Y(w), b, p - 1)
      /\ next # Ac3!Magic => Ac3Seek(w, b, p + 1, next)
  <2> HIDE DEF b
  <2> QED
    BY <1>1, <1>2, Ac3SeekOn
<1>5. \A k \in 1..n : H[k] \in Nat
  BY <1>1
<1> HIDE DEF next, y
<1>6. ASSUME next = Ac3!Magic
      PROVE  \E G : /\ Heads(Ac3Y(w), Ac3E(w), G) /\ Ac3CountOK(w, G, p + 1, y, n)
                    /\ Grows(H, G)
  <2> DEFINE G == Append(H, p - 1)
  <2>1. p - 1 \in Nat
    BY <1>2, <1>4, <1>6 DEF Found
  <2>2. Found(Ac3Y(w), From(Ac3E(w), H, Len(H)), p - 1)
    BY <1>1, <1>4, <1>6
  <2>3. Heads(Ac3Y(w), Ac3E(w), G) /\ Len(G) = n + 1 /\ G[n + 1] = p - 1
        /\ \A k \in 1..n : G[k] = H[k]
    BY <1>1, <2>1, <2>2, Ac3MoreHeads
  <2> HIDE DEF G
  <2>4. Ac3InFrame(w, p - 1, p + 1, y)
    BY <1>3 DEF Ac3InFrame
  <2>5. \A k \in 1..n : G[k] + 5 <= p + 1 /\ Ac3E(w)[G[k]] <= p + 1
    <3> SUFFICES ASSUME NEW k \in 1..n PROVE G[k] + 5 <= p + 1 /\ Ac3E(w)[G[k]] <= p + 1
      OBVIOUS
    <3>1. H[k] + 5 <= p /\ Ac3E(w)[H[k]] <= p /\ H[k] \in Nat /\ G[k] = H[k]
      BY <1>1, <1>5, <2>3
    <3>2. H[k] + 5 <= Len(w)
      BY <3>1
    <3>3. Ac3E(w)[H[k]] \in Nat
      BY <3>1, <3>2, Ac3ZNat
    <3> QED
      BY <3>1, <3>3
  <2>6. Ac3CountOK(w, G, p + 1, y, n)
    BY <1>1, <1>3, <1>6, <2>3, <2>4, <2>5 DEF Ac3CountOK
  <2>7. Grows(H, G)
    BY <1>1, <2>3 DEF Grows
  <2> QED
    BY <2>3, <2>6, <2>7
<1>7. ASSUME next # Ac3!Magic
      PROVE  \E G : /\ Heads(Ac3Y(w), Ac3E(w), G) /\ Ac3CountOK(w, G, p + 1, y, n)
                    /\ Grows(H, G)
  <2>1. \A k \in 1..n : H[k] + 5 <= p + 1 /\ Ac3E(w)[H[k]] <= p + 1
    <3> SUFFICES ASSUME NEW k \in 1..n PROVE H[k] + 5 <= p + 1 /\ Ac3E(w)[H[k]] <= p + 1
      OBVIOUS
    <3>1. H[k] + 5 <= p /\ Ac3E(w)[H[k]] <= p /\ H[k] \in Nat
      BY <1>1, <1>5
    <3>2. H[k] + 5 <= Len(w)
      BY <3>1
    <3>3. Ac3E(w)[H[k]] \in Nat
      BY <3>1, <3>2, Ac3ZNat
    <3> QED
      BY <3>1, <3>3
  <2>2. Ac3CountOK(w, H, p + 1, y, n)
    BY <1>1, <1>3, <1>4, <1>7, <2>1 DEF Ac3CountOK
  <2> QED
    BY <1>1, <2>2 DEF Grows
<1> QED
  BY <1>6, <1>7 DEF y

LEMMA Ac3TickOther ==
  ASSUME NEW w \in Seq(Ac3Byte), Ac3Fit(w), NEW H, Heads(Ac3Y(w), Ac3E(w), H),
         NEW p \in Nat, p <= Len(w),
         NEW x, Ac3Count(x), NEW n, Ac3CountOK(w, H, p, x, n), x.sync = Ac3!Magic
  PROVE  /\ n \in Nat /\ Len(H) = n + 1 /\ H[n + 1] \in Ac3Y(w) /\ H[n + 1] \in Nat
         /\ p = H[n + 1] + (IF x.bfound = 0 THEN 2 ELSE x.bfound)
         /\ x.bfound # 1
         /\ x.bfound >= 5 =>
              /\ x.fsize = Ac3Z(w, H[n + 1]) /\ x.bfound <= x.fsize
         /\ p > H[n + 1] + 4 =>
              /\ Ac3Z(w, H[n + 1]) \in Nat /\ Ac3Z(w, H[n + 1]) > 5
              /\ Ac3E(w)[H[n + 1]] = H[n + 1] + Ac3Z(w, H[n + 1])
<1> DEFINE h == H[n + 1]
<1>1. n \in Nat /\ Len(H) = n + 1 /\ Ac3InFrame(w, h, p, x)
  BY DEF Ac3CountOK
<1>2. h \in Nat /\ h \in Ac3Y(w)
  <2>1. n + 1 \in 1..Len(H) /\ H \in Seq(Nat)
    BY <1>1 DEF Heads
  <2> QED
    BY <2>1 DEF Heads, Found
<1> HIDE DEF h
<1>3. ASSUME p > h + 4
      PROVE  /\ Ac3Z(w, h) \in Nat /\ Ac3Z(w, h) > 5
             /\ Ac3E(w)[h] = h + Ac3Z(w, h)
  <2>1. h + 5 <= Len(w)
    BY <1>2, <1>3
  <2> QED
    BY <1>2, <2>1, Ac3ZNat DEF Ac3Fit
<1>4. x.bfound \in Nat
  BY DEF Ac3Count
<1> QED
  BY <1>1, <1>2, <1>3, <1>4 DEF Ac3InFrame, h

\* The counter goes on in a frame, or over its end.
LEMMA Ac3TickIn ==
  ASSUME NEW w \in Seq(Ac3Byte), NEW H, Heads(Ac3Y(w), Ac3E(w), H), NEW p \in Nat, NEW q \in Nat,
         p <= q, q <= Len(w), NEW x, NEW n, Ac3CountOK(w, H, p, x, n), x.sync = Ac3!Magic,
         NEW y, y.sync = Ac3!Magic, Ac3InFrame(w, H[n + 1], q, y)
  PROVE  Ac3CountOK(w, H, q, y, n)
<1>1. n \in Nat /\ Len(H) = n + 1 /\ H \in Seq(Nat)
  BY DEF Ac3CountOK, Heads
<1>2. \A k \in 1..n : H[k] + 5 <= q /\ Ac3E(w)[H[k]] <= q
  <2> SUFFICES ASSUME NEW k \in 1..n PROVE H[k] + 5 <= q /\ Ac3E(w)[H[k]] <= q
    OBVIOUS
  <2>1. H[k] + 5 <= p /\ Ac3E(w)[H[k]] <= p /\ H[k] \in Nat
    BY <1>1 DEF Ac3CountOK
  <2>2. H[k] + 5 <= Len(w)
    BY <2>1
  <2>3. Ac3E(w)[H[k]] \in Nat
    BY <2>1, <2>2, Ac3ZNat
  <2> QED
    BY <2>1, <2>3
<1> QED
  BY <1>1, <1>2 DEF Ac3CountOK

LEMMA Ac3TickCross ==
  ASSUME NEW w \in Seq(Ac3Byte), Ac3Fit(w), NEW H, Heads(Ac3Y(w), Ac3E(w), H),
         NEW p \in Nat, p <= Len(w),
         NEW x, Ac3Count(x), NEW n, Ac3CountOK(w, H, p, x, n), x.sync = Ac3!Magic,
         x.bfound >= 5, x.bfound >= x.fsize
  PROVE  Ac3CountOK(w, H, p, [x EXCEPT !.bfound = 0, !.sync = Ac3!None], n + 1)
<1> DEFINE y == [x EXCEPT !.bfound = 0, !.sync = Ac3!None]
           h == H[n + 1]
<1>1. /\ n \in Nat /\ Len(H) = n + 1 /\ h \in Nat
      /\ p = h + (IF x.bfound = 0 THEN 2 ELSE x.bfound)
      /\ x.fsize = Ac3Z(w, h) /\ x.bfound <= x.fsize
      /\ p > h + 4 => Ac3Z(w, h) \in Nat /\ Ac3Z(w, h) > 5 /\ Ac3E(w)[h] = h + Ac3Z(w, h)
  BY Ac3TickOther
<1>2. x.bfound \in Nat /\ y.sync = Ac3!None /\ y.bfound = 0 /\ y.sync # Ac3!Magic
  BY DEF Ac3Count, Ac3!None, Ac3!Magic
<1>3. p = Ac3E(w)[h] /\ h + 5 <= p
  <2> HIDE DEF h
  <2> QED
    BY <1>1, <1>2
<1>4. From(Ac3E(w), H, n + 1) = p
  BY <1>1, <1>3 DEF From
<1>5. Ac3Seek(w, p, p, Ac3!None)
  BY Ac3SeekNew
<1>6. \A k \in 1..n + 1 : H[k] + 5 <= p /\ Ac3E(w)[H[k]] <= p
  <2> SUFFICES ASSUME NEW k \in 1..n + 1 PROVE H[k] + 5 <= p /\ Ac3E(w)[H[k]] <= p
    OBVIOUS
  <2>1. CASE k \in 1..n
    BY <2>1 DEF Ac3CountOK
  <2>2. CASE k = n + 1
    BY <1>3, <2>2
  <2> QED
    BY <1>1, <2>1, <2>2
<1> HIDE DEF y
<1>7. Ac3CountOK(w, H, p, y, n + 1)
  BY <1>1, <1>2, <1>4, <1>5, <1>6 DEF Ac3CountOK
<1> QED
  BY <1>7 DEF y

\* The scanner against what the counter has found.
LEMMA Ac3ScanGrows ==
  ASSUME NEW w, NEW H, NEW G, Grows(H, G), H \in Seq(Nat), G \in Seq(Nat),
         NEW p, NEW y, NEW n \in Nat, Ac3ScanOK(w, H, p, y, n)
  PROVE  Ac3ScanOK(w, G, p, y, n)
<1>1. Len(H) \in Nat /\ Len(G) \in Nat /\ Len(H) <= Len(G)
  BY DEF Grows
<1>2. CASE y.sync = Ac3!Magic
  <2>1. n < Len(H) /\ Ac3Taking(w, H[n + 1], p, y)
    BY <1>2 DEF Ac3ScanOK
  <2>2. n < Len(G) /\ n + 1 \in 1..Len(H)
    BY <1>1, <2>1
  <2>3. G[n + 1] = H[n + 1]
    BY <2>2 DEF Grows
  <2> QED
    BY <1>2, <2>1, <2>2, <2>3 DEF Ac3ScanOK
<1>3. CASE y.sync # Ac3!Magic
  <2>1. n <= Len(H)
    BY <1>3 DEF Ac3ScanOK
  <2>2. n <= Len(G) /\ (n = 0 \/ n \in 1..Len(H))
    BY <1>1, <2>1
  <2>3. From(Ac3E(w), G, n) = From(Ac3E(w), H, n)
    BY <2>2 DEF Grows, From
  <2> QED
    BY <1>3, <2>2, <2>3 DEF Ac3ScanOK
<1> QED
  BY <1>2, <1>3

LEMMA SameFound ==
  ASSUME NEW Y \in SUBSET Nat, NEW b \in Nat, NEW h, NEW g, Found(Y, b, h), Found(Y, b, g)
  PROVE  h = g
<1>1. h \in Nat /\ g \in Nat /\ b <= h /\ b <= g
  BY DEF Found
<1>2. ASSUME h < g PROVE FALSE
  <2>1. h \in b..g - 1
    BY <1>1, <1>2
  <2> QED
    BY <2>1 DEF Found
<1>3. ASSUME g < h PROVE FALSE
  <2>1. g \in b..h - 1
    BY <1>1, <1>3
  <2> QED
    BY <2>1 DEF Found
<1> QED
  BY <1>1, <1>2, <1>3

LEMMA Ac3YNat == ASSUME NEW w \in Seq(Ac3Byte) PROVE Ac3Y(w) \in SUBSET Nat
BY DEF Ac3Y

LEMMA Ac3ScanSync ==
  ASSUME NEW w \in Seq(Ac3Byte), NEW H, Heads(Ac3Y(w), Ac3E(w), H), NEW q \in Nat, q <= Len(w),
         NEW x, NEW m, Ac3CountOK(w, H, q, x, m),
         NEW p \in Nat, p < q, NEW n \in Nat, n <= m, NEW y, Ac3ScanOK(w, H, p, y, n),
         y.sync # Ac3!Magic,
         NEW z, z.sync = <<y.sync[2], w[p + 1].v>>, z.pay = y.pay, z.size = y.size
  PROVE  Ac3ScanOK(w, H, p + 1, z, n)
<1> DEFINE b == From(Ac3E(w), H, n)
<1>1. /\ y.pay = << >> /\ y.size = 0 /\ n <= Len(H) /\ Ac3Seek(w, b, p, y.sync)
      /\ m \in Nat /\ Len(H) \in Nat /\ H \in Seq(Nat)
  BY DEF Ac3ScanOK, Ac3CountOK, Heads
<1>2. b \in Nat
  BY <1>1 DEF Ac3Seek
<1> HIDE DEF b
<1>3. /\ z.sync = Ac3!Magic => Found(Ac3Y(w), b, p - 1)
      /\ z.sync # Ac3!Magic => Ac3Seek(w, b, p + 1, z.sync)
  <2>1. p < Len(w) /\ Ac3Seek(w, b, p, y.sync)
    BY <1>1
  <2> QED
    BY <1>2, <2>1, Ac3SeekOn
<1>4. ASSUME z.sync = Ac3!Magic PROVE n < Len(H) /\ H[n + 1] = p - 1
  <2>1. CASE n < Len(H)
    <3>1. n + 1 \in 1..Len(H) /\ (n + 1) - 1 = n
      BY <1>1, <2>1
    <3>2. Found(Ac3Y(w), b, H[n + 1])
      BY <3>1 DEF Heads, b
    <3> QED
      BY <1>2, <1>3, <1>4, <2>1, <3>2, SameFound, Ac3YNat
  <2>2. CASE n = Len(H)
    <3>1. m = n /\ Ac3Seek(w, b, q, x.sync)
      BY <1>1, <2>2 DEF Ac3CountOK, b
    <3>2. p - 1 \in b..q - 2 /\ p - 1 \in Ac3Y(w)
      BY <1>2, <1>3, <1>4 DEF Found
    <3> QED
      BY <3>1, <3>2 DEF Ac3Seek
  <2> QED
    BY <1>1, <2>1, <2>2
<1>5. CASE z.sync = Ac3!Magic
  <2>1. p + 1 = p - 1 + 2 + Len(z.pay) /\ z.size = 0 /\ Slice(z.pay, w, p - 1 + 2)
    BY <1>1 DEF Slice
  <2>2. Ac3Taking(w, p - 1, p + 1, z)
    BY <2>1 DEF Ac3Taking
  <2> QED
    BY <1>4, <1>5, <2>2 DEF Ac3ScanOK
<1>6. CASE z.sync # Ac3!Magic
  BY <1>1, <1>3, <1>6 DEF Ac3ScanOK, b
<1> QED
  BY <1>5, <1>6

LEMMA SubSeqOf ==
  ASSUME NEW S, NEW w \in Seq(S), NEW p \in Nat, NEW d \in Nat, p + d <= Len(w)
  PROVE  /\ SubSeq(w, p + 1, p + d) \in Seq(S) /\ Len(SubSeq(w, p + 1, p + d)) = d
         /\ \A k \in 1..d : SubSeq(w, p + 1, p + d)[k] = w[p + k]
<1>1. Len(w) \in Nat
  OBVIOUS
<1>2. p + 1 \in Nat /\ p + d \in Nat /\ p + d - (p + 1) + 1 = d
  OBVIOUS
<1>3. \A k \in p + 1..p + d : k \in 1..Len(w)
  BY <1>1
<1> QED
  BY <1>1, <1>2, <1>3, SMTT(30)

LEMMA Longer ==
  ASSUME NEW S, NEW w \in Seq(S), NEW e \in Seq(S)
  PROVE  /\ w \o e \in Seq(S) /\ Len(w \o e) = Len(w) + Len(e)
         /\ \A k \in 1..Len(w) : (w \o e)[k] = w[k]
         /\ \A k \in 1..Len(e) : (w \o e)[Len(w) + k] = e[k]
OBVIOUS

LEMMA Behind ==
  ASSUME NEW m \in Nat, NEW d \in Nat, NEW b \in Nat, NEW k \in 1..m + d, k \notin 1..m
  PROVE  \E j \in 1..d : k = m + j /\ b + m + j = b + k
<1>1. k - m \in 1..d /\ k = m + (k - m)
  OBVIOUS
<1>2. b + m + (k - m) = b + k
  OBVIOUS
<1> QED
  BY <1>1, <1>2

\* A payload that takes the next d bytes of the stream.
Taken(pay, more, w, p, d) ==
    /\ Len(more) = Len(pay) + d /\ \A k \in 1..Len(pay) : more[k] = pay[k]
    /\ \A k \in 1..d : more[Len(pay) + k] = w[p + k]

LEMMA SliceTakes ==
  ASSUME NEW w, NEW d \in Nat, NEW b \in Nat, NEW pay, NEW more, Len(pay) \in Nat,
         Slice(pay, w, b), Taken(pay, more, w, b + Len(pay), d)
  PROVE  Slice(more, w, b)
<1> DEFINE m == Len(pay)
<1>1. m \in Nat /\ Len(more) = m + d
  BY DEF Taken
<1> SUFFICES ASSUME NEW k \in 1..m + d PROVE more[k] = w[b + k]
  BY <1>1 DEF Slice
<1>2. CASE k \in 1..m
  BY <1>2 DEF Slice, Taken
<1>3. CASE k \notin 1..m
  <2> HIDE DEF m
  <2>1. PICK j \in 1..d : k = m + j /\ b + m + j = b + k
    BY <1>1, <1>3, Behind
  <2>2. more[m + j] = w[b + m + j]
    BY DEF Taken, m
  <2> QED
    BY <2>1, <2>2
<1> QED
  BY <1>2, <1>3

LEMMA Ac3TakingOn ==
  ASSUME NEW w, NEW h \in Nat, NEW p \in Nat, NEW d \in Nat, NEW y, Len(y.pay) \in Nat,
         Ac3Taking(w, h, p, y), NEW z, z.size = y.size, z.rate = y.rate,
         Taken(y.pay, z.pay, w, p, d)
  PROVE  Ac3Taking(w, h, p + d, z)
<1> DEFINE b == h + 2
           m == Len(y.pay)
<1>1. b \in Nat /\ m \in Nat
  OBVIOUS
<1>2. p = b + m
  BY <1>1 DEF Ac3Taking
<1>3. Slice(y.pay, w, b)
  BY DEF Ac3Taking
<1>4. Len(z.pay) = m + d
  BY DEF Taken
<1>5. p + d = b + (m + d) /\ (m >= 4 => m + d >= 4)
  <2> HIDE DEF b, m
  <2> QED
    BY <1>1, <1>2
<1>6. Slice(z.pay, w, b)
  BY <1>1, <1>2, <1>3, SliceTakes
<1> QED
  BY <1>4, <1>5, <1>6 DEF Ac3Taking

LEMMA Ac3ScanTake ==
  ASSUME NEW w \in Seq(Ac3Byte), NEW H, NEW p \in Nat, NEW d \in Nat,
         NEW n, NEW y, Ac3ScanOK(w, H, p, y, n), y.sync = Ac3!Magic,
         Len(y.pay) \in Nat, H[n + 1] \in Nat,
         NEW z, z.sync = y.sync, z.size = y.size, z.rate = y.rate,
         Taken(y.pay, z.pay, w, p, d)
  PROVE  Ac3ScanOK(w, H, p + d, z, n)
<1>1. n < Len(H) /\ Ac3Taking(w, H[n + 1], p, y)
  BY DEF Ac3ScanOK
<1>2. Ac3Taking(w, H[n + 1], p + d, z)
  BY <1>1, Ac3TakingOn
<1> QED
  BY <1>1, <1>2 DEF Ac3ScanOK

LEMMA TakesPiece ==
  ASSUME NEW S, NEW w \in Seq(S), NEW pay \in Seq(S), NEW p \in Nat, NEW d \in Nat,
         p + d <= Len(w)
  PROVE  Taken(pay, pay \o SubSeq(w, p + 1, p + d), w, p, d)
<1> DEFINE more == SubSeq(w, p + 1, p + d)
<1>1. /\ more \in Seq(S) /\ Len(more) = d
      /\ \A k \in 1..d : more[k] = w[p + k]
  BY SubSeqOf
<1> HIDE DEF more
<1>2. more \in Seq(S)
  BY <1>1
<1>3. /\ Len(pay \o more) = Len(pay) + Len(more)
      /\ \A k \in 1..Len(pay) : (pay \o more)[k] = pay[k]
      /\ \A k \in 1..Len(more) : (pay \o more)[Len(pay) + k] = more[k]
  BY <1>2, Longer
<1>4. Taken(pay, pay \o more, w, p, d)
  BY <1>1, <1>3 DEF Taken
<1> QED
  BY <1>4 DEF more

LEMMA TakesByte ==
  ASSUME NEW S, NEW w, NEW pay \in Seq(S), NEW p \in Nat, w[p + 1] \in S
  PROVE  Taken(pay, Append(pay, w[p + 1]), w, p, 1)
BY DEF Taken

LEMMA HeadPlace ==
  ASSUME NEW Y \in SUBSET Nat, NEW E, NEW H, Heads(Y, E, H), NEW n \in Nat, n < Len(H)
  PROVE  /\ H[n + 1] \in Nat /\ H[n + 1] \in Y
         /\ n + 1 \in 1..Len(H) /\ Found(Y, From(E, H, n), H[n + 1])
<1>1. H \in Seq(Nat) /\ Len(H) \in Nat
  BY DEF Heads
<1>2. n + 1 \in 1..Len(H) /\ (n + 1) - 1 = n
  BY <1>1
<1>3. Found(Y, From(E, H, n), H[n + 1])
  BY <1>2 DEF Heads
<1> QED
  BY <1>1, <1>2, <1>3 DEF Found

\* What the scanner knows of the frame it is in.
LEMMA Ac3InTaking ==
  ASSUME NEW w \in Seq(Ac3Byte), Ac3Fit(w), Ac3Own(w), NEW H, Heads(Ac3Y(w), Ac3E(w), H),
         NEW p \in Nat, p <= Len(w), NEW n \in Nat, NEW y, Len(y.pay) \in Nat,
         Ac3ScanOK(w, H, p, y, n), y.sync = Ac3!Magic
  PROVE  /\ n < Len(H) /\ H[n + 1] \in Nat /\ H[n + 1] \in Ac3Y(w)
         /\ p = H[n + 1] + 2 + Len(y.pay)
         /\ Slice(y.pay, w, H[n + 1] + 2)
         /\ y.size # 0 => Len(y.pay) >= 4 /\ y.size = Ac3Z(w, H[n + 1]) /\ y.rate = Rate
         /\ Len(y.pay) >= 3 =>
              /\ Ac3Z(w, H[n + 1]) \in Nat /\ Ac3Z(w, H[n + 1]) > 5
              /\ Ac3E(w)[H[n + 1]] = H[n + 1] + Ac3Z(w, H[n + 1])
              /\ Ac3!FreqOf(w[H[n + 1] + 5]) = Rate
<1> DEFINE h == H[n + 1]
           l == Len(y.pay)
<1>1. n < Len(H) /\ Ac3Taking(w, h, p, y) /\ l \in Nat
  BY DEF Ac3ScanOK
<1>2. h \in Nat /\ h \in Ac3Y(w)
  BY <1>1, HeadPlace, Ac3YNat
<1>3. /\ p = h + 2 + l /\ Slice(y.pay, w, h + 2)
      /\ y.size # 0 => l >= 4 /\ y.size = Ac3Z(w, h) /\ y.rate = Ac3!FreqOf(w[h + 5])
  BY <1>1 DEF Ac3Taking
<1> HIDE DEF h, l
<1>4. ASSUME l >= 3
      PROVE  /\ Ac3Z(w, h) \in Nat /\ Ac3Z(w, h) > 5
             /\ Ac3E(w)[h] = h + Ac3Z(w, h) /\ Ac3!FreqOf(w[h + 5]) = Rate
  <2>1. h + 5 <= Len(w)
    BY <1>1, <1>2, <1>3, <1>4
  <2> QED
    BY <1>2, <2>1, Ac3ZNat DEF Ac3Fit, Ac3Own
<1>5. y.size # 0 => l >= 3
  BY <1>1, <1>3
<1> QED
  BY <1>1, <1>2, <1>3, <1>4, <1>5 DEF h, l

\* Behind a frame the scanner looks for the next one.
LEMMA Ac3ScanNext ==
  ASSUME NEW w \in Seq(Ac3Byte), Ac3Fit(w), Ac3Own(w), NEW H, Heads(Ac3Y(w), Ac3E(w), H),
         NEW p \in Nat, p <= Len(w), NEW n \in Nat, NEW y, Len(y.pay) \in Nat,
         Ac3ScanOK(w, H, p, y, n), y.sync = Ac3!Magic,
         y.size # 0, Len(y.pay) + 2 = y.size,
         NEW z, z.sync = Ac3!None, z.pay = << >>, z.size = 0
  PROVE  p = Ac3E(w)[H[n + 1]] /\ Ac3ScanOK(w, H, p, z, n + 1)
<1> DEFINE h == H[n + 1]
<1>1. /\ n < Len(H) /\ h \in Nat /\ p = h + 2 + Len(y.pay) /\ y.size = Ac3Z(w, h)
      /\ Ac3E(w)[h] = h + Ac3Z(w, h)
  BY Ac3InTaking
<1>2. H \in Seq(Nat) /\ Len(H) \in Nat
  BY DEF Heads
<1>3. p = Ac3E(w)[h]
  <2> DEFINE l == Len(y.pay)
  <2>1. l \in Nat /\ l + 2 = Ac3Z(w, h) /\ p = h + 2 + l /\ h \in Nat
        /\ Ac3E(w)[h] = h + Ac3Z(w, h)
    BY <1>1
  <2> HIDE DEF h, l
  <2>2. h + 2 + l = h + (l + 2)
    BY <2>1
  <2> QED
    BY <2>1, <2>2
<1>4. From(Ac3E(w), H, n + 1) = p /\ n + 1 <= Len(H)
  BY <1>1, <1>2, <1>3 DEF From
<1>5. Ac3Seek(w, p, p, Ac3!None) /\ Ac3!None # Ac3!Magic
  BY Ac3SeekNew DEF Ac3!None, Ac3!Magic
<1> QED
  BY <1>3, <1>4, <1>5 DEF Ac3ScanOK

\* What the scanner has passed the counter has crossed.
LEMMA Ac3Passed ==
  ASSUME NEW w \in Seq(Ac3Byte), Ac3Fit(w), NEW H, Heads(Ac3Y(w), Ac3E(w), H),
         NEW q \in Nat, q <= Len(w), NEW x, Ac3Count(x), NEW m, Ac3CountOK(w, H, q, x, m),
         x.bfound >= 5 => x.bfound < x.fsize,
         NEW n \in Nat, n < Len(H), H[n + 1] + 5 <= q, Ac3E(w)[H[n + 1]] <= q
  PROVE  n + 1 <= m
<1> DEFINE h == H[n + 1]
<1>1. H \in Seq(Nat) /\ Len(H) \in Nat /\ h \in Nat /\ m \in Nat
  <2>1. h \in Nat
    BY HeadPlace, Ac3YNat
  <2>2. H \in Seq(Nat) /\ m \in Nat
    BY DEF Heads, Ac3CountOK
  <2> QED
    BY <2>1, <2>2
<1>2. CASE x.sync # Ac3!Magic
  BY <1>1, <1>2 DEF Ac3CountOK
<1>3. CASE x.sync = Ac3!Magic /\ n = m
  <2> DEFINE g == x.bfound
             z == Ac3Z(w, h)
             e == Ac3E(w)[h]
  <2>1. /\ q = h + (IF g = 0 THEN 2 ELSE g)
        /\ g >= 5 => x.fsize = z /\ g <= x.fsize
        /\ q > h + 4 => z \in Nat /\ e = h + z
    BY <1>3, Ac3TickOther
  <2>2. g \in Nat
    BY DEF Ac3Count
  <2>3. h + 5 <= q /\ e <= q /\ (g >= 5 => g < x.fsize)
    OBVIOUS
  <2>4. h \in Nat
    BY <1>1
  <2> HIDE DEF g, z, e, h
  <2>5. g >= 5 /\ q = h + g
    BY <2>1, <2>2, <2>3, <2>4
  <2>6. x.fsize = z /\ z \in Nat /\ e = h + z
    BY <2>1, <2>2, <2>4, <2>5
  <2> QED
    BY <2>2, <2>3, <2>4, <2>5, <2>6
<1>4. CASE x.sync = Ac3!Magic /\ n # m
  <2>1. Len(H) = m + 1
    BY <1>4 DEF Ac3CountOK
  <2> QED
    BY <1>1, <1>4, <2>1
<1> QED
  BY <1>2, <1>3, <1>4

\* At the end of the piece both are as far.
LEMMA Ac3Level ==
  ASSUME NEW w \in Seq(Ac3Byte), Ac3Fit(w), Ac3Own(w), NEW H, Heads(Ac3Y(w), Ac3E(w), H),
         NEW q \in Nat, q <= Len(w), NEW x, NEW m, Ac3CountOK(w, H, q, x, m),
         NEW n \in Nat, n <= m, NEW y, Len(y.pay) \in Nat, y.size \in Nat,
         Ac3ScanOK(w, H, q, y, n), ~Ac3Done(y)
  PROVE  n = m
<1> SUFFICES ASSUME n < m PROVE FALSE
  BY DEF Ac3CountOK
<1> DEFINE h == H[n + 1]
<1>1. H \in Seq(Nat) /\ Len(H) \in Nat /\ m \in Nat /\ m <= Len(H)
  BY DEF Heads, Ac3CountOK
<1>2. n + 1 \in 1..m /\ n < Len(H)
  BY <1>1
<1>3. h + 5 <= q /\ Ac3E(w)[h] <= q
  BY <1>2 DEF Ac3CountOK
<1>4. h \in Nat /\ h \in Ac3Y(w) /\ Found(Ac3Y(w), From(Ac3E(w), H, n), h)
  BY <1>2, HeadPlace, Ac3YNat
<1>5. CASE y.sync = Ac3!Magic
  <2> DEFINE l == Len(y.pay)
  <2>1. /\ q = h + 2 + l /\ l \in Nat
        /\ y.size # 0 => y.size = Ac3Z(w, h)
        /\ l >= 3 => /\ Ac3Z(w, h) \in Nat /\ Ac3Z(w, h) > 5
                     /\ Ac3E(w)[h] = h + Ac3Z(w, h)
    BY <1>5, Ac3InTaking
  <2>2. l >= 4 /\ l + 2 >= Ac3Z(w, h)
    <3> HIDE DEF h, l
    <3>1. l >= 3
      BY <1>3, <1>4, <2>1
    <3> QED
      BY <1>3, <1>4, <2>1, <3>1
  <2> QED
    BY <1>5, <2>1, <2>2 DEF Ac3Done
<1>6. CASE y.sync # Ac3!Magic
  <2>1. Ac3Seek(w, From(Ac3E(w), H, n), q, y.sync)
    BY <1>6 DEF Ac3ScanOK
  <2>2. From(Ac3E(w), H, n) \in Nat
    BY <2>1 DEF Ac3Seek
  <2> DEFINE b == From(Ac3E(w), H, n)
  <2> HIDE DEF h, b
  <2>3. b \in Nat /\ b <= h
    BY <1>4, <2>2 DEF b, Found
  <2>4. h \in b..q - 2
    BY <1>3, <1>4, <2>3
  <2> QED
    BY <1>4, <2>1, <2>4 DEF Ac3Seek, b
<1> QED
  BY <1>5, <1>6

LEMMA Ac3Fresh ==
  ASSUME NEW w
  PROVE  /\ Heads(Ac3Y(w), Ac3E(w), << >>)
         /\ Ac3CountOK(w, << >>, 0, Ac3!CountReset, 0)
         /\ Ac3ScanOK(w, << >>, 0, Ac3!ScanReset, 0)
<1>1. Ac3Seek(w, 0, 0, Ac3!None) /\ Ac3!None # Ac3!Magic
  BY Ac3SeekNew DEF Ac3!None, Ac3!Magic
<1>2. Heads(Ac3Y(w), Ac3E(w), << >>)
  BY DEF Heads
<1>3. Ac3CountOK(w, << >>, 0, Ac3!CountReset, 0)
  BY <1>1 DEF Ac3CountOK, Ac3!CountReset, From
<1>4. Ac3ScanOK(w, << >>, 0, Ac3!ScanReset, 0)
  BY <1>1 DEF Ac3ScanOK, Ac3!ScanReset, From
<1> QED
  BY <1>2, <1>3, <1>4

Ac3Agree == Ac3!HeadsFit /\ Ac3!Sound(1) => \E H : Ac3Agrees(H)

LEMMA Ac3FreshAgrees ==
  ASSUME stream \in Ac3Streams, buf = 0, out = 0, turn = "idle", tail = 0, crossed = 0,
         heard = << >>, c = Ac3!CountReset, s = Ac3!ScanReset
  PROVE  Ac3Agrees(<< >>)
<1>1. Heads(Ac3Y(stream), Ac3E(stream), << >>) /\ Ac3CountOK(stream, << >>, buf, c, crossed)
      /\ Ac3ScanOK(stream, << >>, out, s, Len(heard))
  BY Ac3Fresh
<1>2. Ac3Turns
  BY DEF Ac3Turns, Ac3Done, Ac3!CountReset, Ac3!ScanReset, Ac3!None, Ac3!Magic
<1> QED
  BY <1>1, <1>2 DEF Ac3Agrees

LEMMA Ac3InitAgree == Ac3!Init => Ac3Agree
BY Ac3FreshAgrees DEF Ac3!Init, Ac3Agree

LEMMA Ac3ClearAgree == Ac3!Clear /\ turn = "idle" => Ac3Agree'
<1> SUFFICES ASSUME Ac3!Clear, turn = "idle" PROVE Ac3Agrees(<< >>)'
  BY DEF Ac3Agree
<1>1. /\ stream' \in Ac3Streams /\ buf' = 0 /\ out' = 0 /\ turn' = "idle" /\ tail' = 0
      /\ crossed' = 0 /\ heard' = << >> /\ c' = Ac3!CountReset /\ s' = Ac3!ScanReset
  BY DEF Ac3!Clear, Ac3!Refeed
<1>2. /\ Heads(Ac3Y(stream'), Ac3E(stream'), << >>)
      /\ Ac3CountOK(stream', << >>, buf', c', crossed')
      /\ Ac3ScanOK(stream', << >>, out', s', Len(heard'))
  BY <1>1, Ac3Fresh
<1>3. Ac3Turns'
  BY <1>1 DEF Ac3Turns, Ac3Done, Ac3!CountReset, Ac3!ScanReset, Ac3!None, Ac3!Magic
<1> QED
  BY <1>2, <1>3 DEF Ac3Agrees

LEMMA Ac3FeedAgree ==
  ASSUME Ac3Inv, NEW H, Ac3Agrees(H), Ac3!Feed PROVE Ac3Agrees(H)'
<1>1. /\ UNCHANGED <<stream, out, s, last, heard, c, crossed>> /\ turn = "idle"
      /\ turn' = "count" /\ buf' = out
  BY DEF Ac3!Feed, Ac3!frameVars
<1>2. buf' = buf /\ buf \in Nat
  BY <1>1, Ac3Sent DEF Ac3Agrees, Ac3Turns, Ac3Inv, Ac3Places
<1>3. Len(heard) \in Nat
  BY DEF Ac3Inv, Ac3Order
<1>4. Ac3Turns'
  BY <1>1, <1>2, <1>3 DEF Ac3Agrees, Ac3Turns
<1> QED
  BY <1>1, <1>2, <1>4 DEF Ac3Agrees

\* The stream of which the scanners agree.
LEMMA Ac3StreamFits == Ac3Inv /\ Ac3!HeadsFit => Ac3Fit(stream) /\ Ac3Own(stream)
<1> SUFFICES ASSUME Ac3Inv, Ac3!HeadsFit, NEW j \in Ac3Y(stream), j + 5 <= Len(stream)
             PROVE  Ac3!FreqOf(stream[j + 5]) = Rate /\ Ac3Z(stream, j) > 5
  BY DEF Ac3Fit, Ac3Own
<1>1. Len(stream) \in Nat
  BY Ac3Sent DEF Ac3Inv, Ac3Places
<1>2. j \in Ac3!Starts /\ Ac3!SyncAt(j)
  BY <1>1 DEF Ac3Y, Ac3!Starts, Ac3!SyncAt
<1> QED
  BY <1>2 DEF Ac3!HeadsFit, Ac3!Code, Ac3Z

LEMMA Ac3Begins ==
  ASSUME Ac3Inv, Ac3!Sound(1)
  PROVE  /\ 0 \in Ac3Y(stream) /\ Ac3Z(stream, 0) \in Nat
         /\ \A k \in 1..Ac3Z(stream, 0) : stream[k].f = 1 /\ stream[k].i = k - 1 /\ stream[k].ok
<1>1. stream \in Seq(Ac3Byte) /\ Len(stream) \in Nat
      /\ (\A k \in 1..Len(stream) : stream[k] \in Ac3Byte)
      /\ \A j, k \in 1..Len(stream) : j <= k => stream[j].f <= stream[k].f
  BY Ac3Sent DEF Ac3Inv, Ac3Places
<1>2. PICK j \in 0..Len(stream) - 5 :
         /\ Ac3Z(stream, j) > 5 /\ Ac3!Places(1) = j + 1..j + Ac3Z(stream, j)
         /\ \A k \in Ac3!Places(1) : stream[k].i = k - j - 1 /\ stream[k].ok
         /\ <<stream[j + 1].v, stream[j + 2].v>> = Ac3!Magic
  BY DEF Ac3!Sound, Ac3!WholeAt, Ac3!Starts, Ac3!Code, Ac3!SyncAt, Ac3Z
<1>3. j \in Nat /\ j + 5 <= Len(stream) /\ Len(stream) >= 5 /\ 1 \in 1..Len(stream)
      /\ j + 1 \in 1..Len(stream)
  BY <1>1
<1>4. Ac3Z(stream, j) \in Nat
  BY <1>1, <1>3, Ac3ZNat
<1>5. j + 1 \in Ac3!Places(1)
  <2> DEFINE z == Ac3Z(stream, j)
  <2>1. z \in Nat /\ z > 5
    BY <1>2, <1>4
  <2> HIDE DEF z
  <2>2. j + 1 \in j + 1..j + z
    BY <1>3, <2>1
  <2> QED
    BY <1>2, <2>2 DEF z
<1>6. stream[j + 1].f = 1
  BY <1>5 DEF Ac3!Places
<1>7. stream[1].f = 1
  <2>1. stream[1].f <= stream[j + 1].f
    BY <1>1, <1>3
  <2>2. stream[1].f \in Nat \ {0}
    BY <1>1, <1>3 DEF Ac3Byte
  <2> QED
    BY <1>6, <2>1, <2>2
<1>8. j = 0
  <2>1. 1 \in Ac3!Places(1)
    BY <1>3, <1>7 DEF Ac3!Places
  <2>2. 1 \in j + 1..j + Ac3Z(stream, j)
    BY <1>2, <2>1
  <2> QED
    BY <1>3, <2>2
<1>9. 0 \in Ac3Y(stream)
  BY <1>1, <1>2, <1>3, <1>8 DEF Ac3Y
<1>10. \A k \in 1..Ac3Z(stream, 0) : stream[k].f = 1 /\ stream[k].i = k - 1 /\ stream[k].ok
  <2> SUFFICES ASSUME NEW k \in 1..Ac3Z(stream, 0)
               PROVE  stream[k].f = 1 /\ stream[k].i = k - 1 /\ stream[k].ok
    OBVIOUS
  <2>1. k \in 0 + 1..0 + Ac3Z(stream, 0)
    BY <1>4, <1>8
  <2>2. k \in Ac3!Places(1)
    BY <1>2, <1>8, <2>1
  <2>3. stream[k].i = k - 0 - 1 /\ stream[k].ok
    BY <1>2, <1>8, <2>2
  <2> QED
    BY <2>2, <2>3 DEF Ac3!Places
<1> QED
  BY <1>4, <1>8, <1>9, <1>10

\* A step of Count(): within a frame, over its end, or the return.
Ac3Step(H) == \/ turn' = turn /\ crossed' = crossed /\ ret' = ret
              \/ /\ turn' = turn /\ crossed' = crossed + 1 /\ ret'
                 /\ Len(H) = crossed + 1
                 /\ buf' = buf /\ Ac3E(stream)[H[crossed + 1]] = buf
              \/ /\ turn' = "frame" /\ UNCHANGED <<buf, c, crossed, ret>> /\ buf = tail
                 /\ c.bfound >= 5 => c.bfound < c.fsize

LEMMA Ac3CountStep ==
  ASSUME Ac3Inv, Ac3Fit(stream), NEW H, Heads(Ac3Y(stream), Ac3E(stream), H),
         Ac3CountOK(stream, H, buf, c, crossed), Ac3!Count
  PROVE  \E G : /\ Heads(Ac3Y(stream), Ac3E(stream), G)
                /\ Ac3CountOK(stream, G, buf', c', crossed')
                /\ Grows(H, G) /\ buf' \in buf..tail /\ Ac3Step(G)
<1> DEFINE w == stream
           h == H[crossed + 1]
           OK(G) == Heads(Ac3Y(w), Ac3E(w), G) /\ Ac3CountOK(w, G, buf', c', crossed')
                    /\ Grows(H, G) /\ buf' \in buf..tail
<1>1. /\ UNCHANGED <<stream, tail, out, s, last, heard>> /\ turn = "count"
      /\ turn' \in {"count", "frame"}
  BY Zenon DEF Ac3!Count, Ac3!CountSync, Ac3!CountFound, Ac3!CountSkip, Ac3!CountSize,
         Ac3!CountBody, Ac3!CountCross, Ac3!CountOut, Ac3!Counting, Ac3!frameVars
<1>2. /\ w \in Seq(Ac3Byte) /\ Len(w) \in Nat /\ buf \in Nat /\ out \in Nat /\ tail \in Nat
      /\ buf <= tail /\ tail <= Len(w) /\ \A k \in 1..Len(w) : w[k] \in Ac3Byte
  BY Ac3Sent DEF Ac3Inv, Ac3Places
<1>3. Ac3Count(c) /\ c.bfound \in Nat /\ c.fsize \in Nat
  BY DEF Ac3Inv, Ac3Counter, Ac3Count
<1>4. /\ Heads(Ac3Y(w), Ac3E(w), H) /\ Ac3CountOK(w, H, buf, c, crossed)
      /\ crossed \in Nat /\ H \in Seq(Nat)
  BY DEF Heads, Ac3CountOK
<1>6. Grows(H, H)
  BY <1>4 DEF Grows
\* The counter in a frame.
<1>7. ASSUME c.sync = Ac3!Magic
      PROVE  /\ Len(H) = crossed + 1 /\ h \in Nat
             /\ buf = h + (IF c.bfound = 0 THEN 2 ELSE c.bfound) /\ c.bfound # 1
             /\ c.bfound >= 5 => c.fsize = Ac3Z(w, h) /\ c.bfound <= c.fsize
             /\ buf > h + 4 => Ac3Z(w, h) \in Nat /\ Ac3Z(w, h) > 5 /\ Ac3E(w)[h] = h + Ac3Z(w, h)
  <2>1. buf <= Len(w)
    BY <1>2
  <2> QED
    BY <1>2, <1>3, <1>4, <1>7, <2>1, Ac3TickOther
<1>8. ASSUME c.sync # Ac3!Magic PROVE c.bfound = 0
  BY <1>4, <1>8 DEF Ac3CountOK
<1>9. ASSUME c.sync = Ac3!Magic, c'.sync = Ac3!Magic, buf' \in buf..tail, crossed' = crossed,
             Ac3InFrame(w, h, buf', c')
      PROVE  OK(H)
  <2>1. buf' \in Nat /\ buf <= buf' /\ buf' <= Len(w)
    BY <1>2, <1>9
  <2> QED
    BY <1>2, <1>4, <1>6, <1>9, <2>1, Ac3TickIn
<1> HIDE DEF h
<1>11. CASE Ac3!CountSync
  <2>1. /\ c.sync # Ac3!Magic /\ buf < tail /\ buf' = buf + 1 /\ UNCHANGED <<turn, ret, crossed>>
        /\ c' = [c EXCEPT !.sync = <<@[2], w[buf + 1].v>>]
    BY <1>11 DEF Ac3!CountSync, Ac3!NextByte
  <2>2. \E G : OK(G)
    <3>1. buf < Len(w) /\ buf' \in buf..tail
      BY <1>2, <2>1
    <3> QED
      BY <1>2, <1>3, <1>4, <2>1, <3>1, Ac3TickSync
  <2> QED
    BY <2>1, <2>2 DEF Ac3Step
<1>12. CASE Ac3!CountFound
  <2>1. /\ c.sync = Ac3!Magic /\ c.bfound < 2 /\ UNCHANGED <<buf, turn, ret, crossed>>
        /\ c' = [c EXCEPT !.bfound = 2]
    BY <1>12 DEF Ac3!CountFound
  <2>2. c'.bfound = 2 /\ c'.sync = Ac3!Magic
    BY <1>3, <2>1 DEF Ac3Count
  <2>3. Ac3InFrame(w, h, buf', c')
    BY <1>3, <1>7, <2>1, <2>2 DEF Ac3InFrame
  <2>4. buf' \in buf..tail
    BY <1>2, <2>1
  <2> QED
    BY <1>9, <2>1, <2>2, <2>3, <2>4 DEF Ac3Step
<1>13. CASE Ac3!CountSkip
  <2>1. /\ c.bfound \in {2, 3} /\ buf < tail /\ buf' = buf + 1 /\ UNCHANGED <<turn, ret, crossed>>
        /\ c' = [c EXCEPT !.bfound = @ + 1]
    BY <1>13 DEF Ac3!CountSkip
  <2>2. c.sync = Ac3!Magic
    BY <1>8, <2>1
  <2>3. c'.bfound = c.bfound + 1 /\ c'.sync = Ac3!Magic
    BY <1>3, <2>1, <2>2 DEF Ac3Count
  <2>4. Ac3InFrame(w, h, buf', c')
    BY <1>3, <1>7, <2>1, <2>2, <2>3 DEF Ac3InFrame
  <2>5. buf' \in buf..tail
    BY <1>2, <2>1
  <2> QED
    BY <1>9, <2>1, <2>2, <2>3, <2>4, <2>5 DEF Ac3Step
<1>14. CASE Ac3!CountSize
  <2>1. /\ c.bfound = 4 /\ buf < tail /\ buf' = buf + 1 /\ UNCHANGED <<turn, ret, crossed>>
    BY <1>14 DEF Ac3!CountSize
  <2>2. c.sync = Ac3!Magic
    BY <1>8, <2>1
  <2>3. h \in Nat /\ buf = h + 4 /\ h + 5 <= Len(w) /\ buf + 1 = h + 5
    BY <1>2, <1>7, <2>1, <2>2
  <2>4. /\ Ac3!FreqOf(w[h + 5]) # 0 /\ Ac3Z(w, h) \in Nat /\ Ac3Z(w, h) > 5
    <3>1. h \in Ac3Y(w)
      BY <1>2, <1>3, <1>4, <2>2, Ac3TickOther DEF h
    <3>2. Ac3Z(w, h) \in Nat /\ Ac3Z(w, h) > 5
      BY <1>2, <2>3, <3>1, Ac3ZNat DEF Ac3Fit
    <3> QED
      BY <3>2 DEF Ac3Z, Ac3!SizeOf
  <2>5. c' = [c EXCEPT !.bfound = 5, !.fsize = Ac3Z(w, h)]
    BY <1>14, <2>3, <2>4 DEF Ac3!CountSize, Ac3!NextByte, Ac3Z
  <2>6. c'.bfound = 5 /\ c'.fsize = Ac3Z(w, h) /\ c'.sync = Ac3!Magic
    BY <1>3, <2>2, <2>5 DEF Ac3Count
  <2>7. Ac3InFrame(w, h, buf', c')
    BY <2>1, <2>3, <2>4, <2>6 DEF Ac3InFrame
  <2>8. buf' \in buf..tail
    BY <1>2, <2>1
  <2> QED
    BY <1>9, <2>1, <2>2, <2>6, <2>7, <2>8 DEF Ac3Step
<1>15. CASE Ac3!CountBody
  <2> DEFINE n == IF c.fsize - c.bfound < tail - buf
                  THEN c.fsize - c.bfound ELSE tail - buf
  <2>1. /\ c.bfound >= 5 /\ c.bfound < c.fsize /\ buf < tail /\ UNCHANGED <<turn, ret, crossed>>
        /\ c' = [c EXCEPT !.bfound = @ + n] /\ buf' = buf + n
    BY <1>15 DEF Ac3!CountBody
  <2>2. n \in Nat /\ buf + n <= tail /\ c.bfound + n <= c.fsize
    BY <1>2, <1>3, <2>1, SMTT(30)
  <2> HIDE DEF n
  <2>3. c.sync = Ac3!Magic
    BY <1>8, <2>1
  <2>4. c'.bfound = c.bfound + n /\ c'.fsize = c.fsize /\ c'.sync = Ac3!Magic
    BY <1>3, <2>1, <2>3 DEF Ac3Count
  <2>5. buf = h + c.bfound /\ h \in Nat /\ c.fsize = Ac3Z(w, h)
    BY <1>3, <1>7, <2>1, <2>3
  <2>6. Ac3InFrame(w, h, buf', c')
    <3>1. c'.bfound >= 5 /\ buf' = h + c'.bfound /\ c'.bfound <= c'.fsize
      BY <1>3, <2>1, <2>2, <2>4, <2>5
    <3> QED
      BY <1>3, <2>2, <2>4, <2>5, <3>1 DEF Ac3InFrame
  <2>7. buf' \in buf..tail
    BY <1>2, <2>1, <2>2
  <2> QED
    BY <1>9, <2>1, <2>3, <2>4, <2>6, <2>7 DEF Ac3Step
<1>16. CASE Ac3!CountCross
  <2>1. /\ c.bfound >= 5 /\ c.bfound >= c.fsize /\ UNCHANGED <<buf, turn>>
        /\ c' = [c EXCEPT !.bfound = 0, !.sync = Ac3!None]
        /\ ret' = TRUE /\ crossed' = crossed + 1
    BY <1>16 DEF Ac3!CountCross
  <2>2. c.sync = Ac3!Magic
    BY <1>8, <2>1
  <2>3. OK(H)
    <3>1. buf <= Len(w) /\ buf' \in buf..tail
      BY <1>2, <2>1
    <3> QED
      BY <1>2, <1>3, <1>4, <1>6, <2>1, <2>2, <3>1, Ac3TickCross, Zenon
  <2>4. Len(H) = crossed + 1 /\ Ac3E(w)[h] = buf
    <3>1. /\ buf = h + c.bfound /\ h \in Nat /\ c.fsize = Ac3Z(w, h) /\ c.bfound = c.fsize
          /\ Ac3E(w)[h] = h + Ac3Z(w, h)
      BY <1>3, <1>7, <2>1, <2>2
    <3> QED
      BY <1>7, <2>2, <3>1
  <2> QED
    BY <2>1, <2>3, <2>4 DEF Ac3Step, h
<1>17. CASE Ac3!CountOut
  <2>1. UNCHANGED <<buf, c, ret, crossed>> /\ turn' = "frame"
    BY <1>17 DEF Ac3!CountOut, Ac3!countVars
  <2>2. ASSUME c.bfound >= 5 PROVE c.fsize > 5
    <3>1. c.sync = Ac3!Magic
      BY <1>8, <2>2
    <3>2. buf = h + c.bfound /\ h \in Nat /\ c.fsize = Ac3Z(w, h)
      BY <1>3, <1>7, <2>2, <3>1
    <3> QED
      BY <1>3, <1>7, <2>2, <3>1, <3>2
  <2>3. buf = tail /\ (c.bfound >= 5 => c.bfound < c.fsize)
    BY <1>2, <1>3, <1>17, <2>2 DEF Ac3!CountOut
  <2>4. OK(H)
    BY <1>2, <1>4, <1>6, <2>1
  <2> QED
    BY <2>1, <2>3, <2>4 DEF Ac3Step
<1> QED
  BY <1>11, <1>12, <1>13, <1>14, <1>15, <1>16, <1>17 DEF Ac3!Count

LEMMA Ac3CountAgree ==
  ASSUME Ac3Inv, Ac3Fit(stream), NEW H, Ac3Agrees(H), Ac3!Count
  PROVE  \E G : Ac3Agrees(G)'
<1>1. UNCHANGED <<stream, tail, out, s, last, heard>> /\ turn = "count"
  BY Zenon DEF Ac3!Count, Ac3!CountSync, Ac3!CountFound, Ac3!CountSkip, Ac3!CountSize,
         Ac3!CountBody, Ac3!CountCross, Ac3!CountOut, Ac3!Counting, Ac3!frameVars
<1>2. /\ Heads(Ac3Y(stream), Ac3E(stream), H) /\ Ac3CountOK(stream, H, buf, c, crossed)
      /\ Ac3Turns /\ Ac3ScanOK(stream, H, out, s, Len(heard)) /\ crossed \in Nat
  BY DEF Ac3Agrees, Ac3CountOK
<1>3. PICK G : /\ Heads(Ac3Y(stream), Ac3E(stream), G)
               /\ Ac3CountOK(stream, G, buf', c', crossed')
               /\ Grows(H, G) /\ buf' \in buf..tail /\ Ac3Step(G)
  BY <1>2, Ac3CountStep
<1>4. Len(heard) \in Nat /\ buf \in Nat /\ out \in Nat /\ tail \in Nat
  BY Ac3Sent DEF Ac3Inv, Ac3Order, Ac3Places
<1>5. Ac3ScanOK(stream, G, out, s, Len(heard))
  BY <1>2, <1>3, <1>4, Ac3ScanGrows DEF Heads
<1>6. Ac3Turns'
  <2>1. out <= buf' /\ Len(heard) <= crossed'
    BY <1>2, <1>3, <1>4 DEF Ac3Turns, Ac3Step
  <2>2. crossed' > Len(heard) => ret'
    BY <1>1, <1>2, <1>3 DEF Ac3Turns, Ac3Step
  <2>3. turn' = "count" \/ (turn' = "frame" /\ buf' = tail
                              /\ (c'.bfound >= 5 => c'.bfound < c'.fsize))
    BY <1>1, <1>3 DEF Ac3Step
  <2> QED
    BY <1>1, <1>2, <2>1, <2>2, <2>3 DEF Ac3Turns
<1> QED
  BY <1>1, <1>3, <1>5, <1>6 DEF Ac3Agrees

\* What a step of Frame() does.
Ac3Reset(y) == y.sync = Ac3!None /\ y.pay = << >> /\ y.size = 0
Ac3Syncs == /\ s.sync # Ac3!Magic /\ out < tail /\ out' = out + 1
            /\ s'.sync = <<s.sync[2], stream[out + 1].v>> /\ s'.pay = s.pay /\ s'.size = s.size
            /\ UNCHANGED <<turn, last, heard>>
Ac3Takes == /\ s.sync = Ac3!Magic
            /\ s'.sync = s.sync /\ s'.size = s.size /\ s'.rate = s.rate
            /\ \E d \in Nat : /\ out' = out + d /\ out + d <= tail
                              /\ Taken(s.pay, s'.pay, stream, out, d)
            /\ UNCHANGED <<turn, last, heard>>
Ac3Parses == /\ s.sync = Ac3!Magic /\ Len(s.pay) >= 4 /\ s.size = 0
             /\ s'.sync = s.sync /\ s'.pay = s.pay
             /\ s'.size = Ac3!SizeOf(s.pay[3]) /\ s'.rate = Ac3!FreqOf(s.pay[3])
             /\ UNCHANGED <<out, turn, last, heard>>
Ac3Skips == /\ s.sync = Ac3!Magic /\ Len(s.pay) >= 4 /\ Ac3Reset(s')
            /\ \/ s.size = 0 /\ Ac3!SizeOf(s.pay[3]) = 0
               \/ s.size # 0 /\ s.rate # Rate
            /\ UNCHANGED <<out, turn, last, heard>>
Ac3Full == Ac3!Fits /\ Ac3!Pos >= s.size
Ac3Ends == /\ Ac3Full /\ Ac3Reset(s')
           /\ \/ /\ Ac3!CrcCheck /\ last' = s.pay[1].f /\ heard' = Append(heard, last')
                 /\ UNCHANGED <<turn, out>>
              \/ /\ ~Ac3!CrcCheck /\ last # 0 /\ last' = last /\ heard' = Append(heard, last)
                 /\ UNCHANGED <<turn, out>>
              \/ /\ ~Ac3!CrcCheck /\ last = 0 /\ last' = last /\ UNCHANGED heard
                 /\ out' = tail /\ turn' = "idle"
Ac3Returns == /\ out >= tail /\ ~Ac3Done(s)
              /\ turn' = "idle" /\ UNCHANGED <<out, s, last, heard>>

LEMMA Ac3Kinds ==
  ASSUME Ac3Inv, Ac3!Frame
  PROVE  /\ UNCHANGED <<stream, tail, buf, c, ret, crossed>> /\ turn = "frame"
         /\ Ac3Syncs \/ Ac3Takes \/ Ac3Parses \/ Ac3Skips \/ Ac3Ends \/ Ac3Returns
<1> DEFINE w == stream
           l == Len(s.pay)
<1>1. UNCHANGED <<stream, tail, buf, c, ret, crossed>> /\ turn = "frame"
  BY DEF Ac3!Frame, Ac3!FrameSync, Ac3!FrameHead, Ac3!FrameParse, Ac3!FrameRate,
         Ac3!FrameBody, Ac3!FramePlay, Ac3!FrameCrc, Ac3!FrameOut, Ac3!Framing,
         Ac3!countVars
<1>2. /\ w \in Seq(Ac3Byte) /\ Len(w) \in Nat /\ out \in Nat /\ tail \in Nat
      /\ out <= tail /\ tail <= Len(w) /\ \A k \in 1..Len(w) : w[k] \in Ac3Byte
  BY Ac3Sent DEF Ac3Inv, Ac3Places
<1>3. /\ s.pay \in Seq(Ac3Byte) /\ s.size \in Nat /\ l \in Nat
      /\ s \in Ac3Scanned(s.sync)
  BY DEF Ac3Inv, Ac3Scan, Ac3Scanned
<1>4. ASSUME s' = [Ac3!Resync EXCEPT !.size = 0] PROVE Ac3Reset(s')
  BY <1>3, <1>4 DEF Ac3!Resync, Ac3Scanned, Ac3Reset
<1>5. Ac3!HeadKnown <=> s.sync = Ac3!Magic /\ l >= 4
  BY <1>3 DEF Ac3!HeadKnown, Ac3!Pos
<1>6. CASE Ac3!FrameSync
  <2>1. /\ UNCHANGED <<turn, last, heard>> /\ out' = out + 1 /\ out < tail /\ s.sync # Ac3!Magic
        /\ s' = [s EXCEPT !.sync = <<@[2], w[out + 1].v>>]
    BY <1>6 DEF Ac3!FrameSync
  <2>2. s'.sync = <<s.sync[2], w[out + 1].v>> /\ s'.pay = s.pay /\ s'.size = s.size
    BY <1>3, <2>1 DEF Ac3Scanned
  <2> QED
    BY <1>1, <2>1, <2>2 DEF Ac3Syncs
<1>7. CASE Ac3!FrameHead
  <2>1. /\ UNCHANGED <<turn, last, heard>> /\ out' = out + 1 /\ out < tail /\ s.sync = Ac3!Magic
        /\ s' = [s EXCEPT !.pay = Append(@, w[out + 1])]
    BY <1>7 DEF Ac3!FrameHead
  <2>2. /\ s'.pay = Append(s.pay, w[out + 1]) /\ s'.sync = s.sync /\ s'.size = s.size
        /\ s'.rate = s.rate
    BY <1>3, <2>1 DEF Ac3Scanned
  <2>3. out + 1 <= tail /\ w[out + 1] \in Ac3Byte
    BY <1>2, <2>1
  <2>4. Taken(s.pay, s'.pay, w, out, 1)
    BY <1>2, <1>3, <2>2, <2>3, TakesByte
  <2> QED
    BY <1>1, <2>1, <2>2, <2>3, <2>4 DEF Ac3Takes
<1>8. CASE Ac3!FrameParse
  <2>1. UNCHANGED <<turn, out, last, heard>> /\ s.sync = Ac3!Magic /\ l >= 4 /\ s.size = 0
    BY <1>5, <1>8 DEF Ac3!FrameParse
  <2>2. CASE Ac3!SizeOf(s.pay[3]) = 0
    <3>1. s' = [Ac3!Resync EXCEPT !.rate = Ac3!FreqOf(s.pay[3])]
      BY <1>8, <2>2 DEF Ac3!FrameParse
    <3>2. Ac3Reset(s')
      BY <1>3, <2>1, <3>1 DEF Ac3!Resync, Ac3Scanned, Ac3Reset
    <3> QED
      BY <1>1, <2>1, <2>2, <3>2 DEF Ac3Skips
  <2>3. CASE Ac3!SizeOf(s.pay[3]) # 0
    <3>1. s' = [s EXCEPT !.size = Ac3!SizeOf(s.pay[3]), !.rate = Ac3!FreqOf(s.pay[3])]
      BY <1>8, <2>3 DEF Ac3!FrameParse
    <3>2. s'.sync = s.sync /\ s'.pay = s.pay /\ s'.size = Ac3!SizeOf(s.pay[3])
          /\ s'.rate = Ac3!FreqOf(s.pay[3])
      BY <1>3, <3>1 DEF Ac3Scanned
    <3> QED
      BY <1>1, <2>1, <3>2 DEF Ac3Parses
  <2> QED
    BY <2>2, <2>3
<1>9. CASE Ac3!FrameRate
  <2>1. /\ UNCHANGED <<turn, out, last, heard>> /\ s.sync = Ac3!Magic /\ l >= 4 /\ s.size # 0
        /\ s.rate # Rate
    BY <1>5, <1>9 DEF Ac3!FrameRate
  <2>2. Ac3Reset(s')
    BY <1>4, <1>9 DEF Ac3!FrameRate
  <2> QED
    BY <1>1, <2>1, <2>2 DEF Ac3Skips
<1>10. CASE Ac3!FrameBody
  <2> DEFINE d == IF s.size - (l + 2) < tail - out THEN s.size - (l + 2) ELSE tail - out
             more == SubSeq(w, out + 1, out + d)
  <2>1. UNCHANGED <<turn, last, heard>> /\ out' = out + d /\ out < tail /\ l + 2 < s.size
        /\ s' = [s EXCEPT !.pay = @ \o more] /\ s.sync = Ac3!Magic
    BY <1>10 DEF Ac3!FrameBody, Ac3!Pos, Ac3!Fits, Ac3!HeadKnown
  <2>2. d \in Nat /\ out + d <= tail
    <3>1. l \in Nat /\ s.size \in Nat /\ out \in Nat /\ tail \in Nat
      BY <1>2, <1>3
    <3> HIDE DEF l
    <3> QED
      BY <2>1, <3>1, SMTT(30)
  <2> HIDE DEF d
  <2>3. out + d <= Len(w)
    BY <1>2, <2>2
  <2>4. s'.pay = s.pay \o more /\ s'.sync = s.sync /\ s'.size = s.size /\ s'.rate = s.rate
    BY <1>3, <2>1 DEF Ac3Scanned
  <2>5. Taken(s.pay, s'.pay, w, out, d)
    BY <1>2, <1>3, <2>2, <2>3, <2>4, TakesPiece
  <2> QED
    BY <1>1, <2>1, <2>2, <2>4, <2>5 DEF Ac3Takes
<1>11. CASE Ac3!FramePlay
  BY <1>1, <1>4, <1>11 DEF Ac3!FramePlay, Ac3Ends, Ac3Full
<1>12. CASE Ac3!FrameCrc
  BY <1>1, <1>4, <1>12 DEF Ac3!FrameCrc, Ac3Ends, Ac3Full
<1>13. CASE Ac3!FrameOut
  <2>1. UNCHANGED <<out, s, last, heard>> /\ turn' = "idle" /\ out >= tail
    BY <1>13 DEF Ac3!FrameOut, Ac3!frameVars
  <2>2. ASSUME Ac3Done(s) PROVE FALSE
    <3>1. Ac3!HeadKnown /\ (s.size = 0 \/ Ac3!Pos >= s.size)
      BY <1>3, <1>5, <2>2 DEF Ac3Done, Ac3!Pos
    <3> QED
      BY <1>13, <3>1 DEF Ac3!FrameOut, Ac3!Fits
  <2> QED
    BY <1>1, <2>1, <2>2 DEF Ac3Returns
<1> QED
  BY <1>6, <1>7, <1>8, <1>9, <1>10, <1>11, <1>12, <1>13 DEF Ac3!Frame

\* A frame is complete: the counter told of it.
LEMMA Ac3FullTold ==
  ASSUME Ac3Inv, Ac3Fit(stream), Ac3Own(stream), NEW H, Ac3Agrees(H), turn = "frame", Ac3Full
  PROVE  /\ Len(heard) + 1 <= crossed /\ ret /\ s.sync = Ac3!Magic
         /\ Len(s.pay) + 2 = s.size /\ Len(heard) < Len(H) /\ H[Len(heard) + 1] \in Nat
         /\ s.size = Ac3Z(stream, H[Len(heard) + 1]) /\ Slice(s.pay, stream, H[Len(heard) + 1] + 2)
         /\ \A y : y.sync = Ac3!None /\ y.pay = << >> /\ y.size = 0
                => Ac3ScanOK(stream, H, out, y, Len(heard) + 1)
<1> DEFINE w == stream
           n == Len(heard)
           h == H[n + 1]
           l == Len(s.pay)
<1>1. turn = "frame" /\ Ac3Full
  OBVIOUS
<1>2. /\ w \in Seq(Ac3Byte) /\ Len(w) \in Nat /\ buf \in Nat /\ out \in Nat /\ tail \in Nat
      /\ out <= tail /\ tail <= Len(w) /\ \A k \in 1..Len(w) : w[k] \in Ac3Byte
  BY Ac3Sent DEF Ac3Inv, Ac3Places
<1>3. /\ s.pay \in Seq(Ac3Byte) /\ s.size \in Nat /\ l \in Nat
      /\ l + 2 <= (IF s.size > 6 THEN s.size ELSE 6) /\ s \in Ac3Scanned(s.sync)
  BY DEF Ac3Inv, Ac3Scan, Ac3Scanned
<1>4. /\ Heads(Ac3Y(w), Ac3E(w), H) /\ Ac3CountOK(w, H, buf, c, crossed) /\ Ac3Turns
      /\ Ac3ScanOK(w, H, out, s, n) /\ crossed \in Nat /\ n \in Nat /\ H \in Seq(Nat)
      /\ heard \in Seq(Nat)
  BY DEF Ac3Agrees, Heads, Ac3CountOK, Ac3Inv, Ac3Order
<1>5. buf = tail /\ n <= crossed /\ (c.bfound >= 5 => c.bfound < c.fsize)
      /\ (crossed > n => ret) /\ (heard # << >> => last # 0)
  BY <1>1, <1>4 DEF Ac3Turns
<1>6. Ac3Count(c)
  BY DEF Ac3Inv, Ac3Counter, Ac3Count
<1>7. out <= Len(w) /\ buf <= Len(w) /\ out <= buf
  BY <1>2, <1>5
\* The frame in the payload.
<1>8. ASSUME s.sync = Ac3!Magic
      PROVE  /\ n < Len(H) /\ h \in Nat /\ h \in Ac3Y(w)
             /\ out = h + 2 + l /\ Slice(s.pay, w, h + 2)
             /\ s.size # 0 => l >= 4 /\ s.size = Ac3Z(w, h) /\ s.rate = Rate
             /\ l >= 3 => /\ Ac3Z(w, h) \in Nat /\ Ac3Z(w, h) > 5
                          /\ Ac3E(w)[h] = h + Ac3Z(w, h)
                          /\ Ac3!FreqOf(w[h + 5]) = Rate
  BY <1>2, <1>3, <1>4, <1>7, <1>8, Ac3InTaking
<1>9. s.sync = Ac3!Magic /\ s.size # 0 /\ l >= 4 /\ l + 2 >= s.size
  BY <1>3 DEF Ac3Full, Ac3!Fits, Ac3!HeadKnown, Ac3!Pos
<1>10. l + 2 = s.size
  <2>1. s.size > 5
    BY <1>8, <1>9
  <2> HIDE DEF l
  <2> QED
    BY <1>3, <1>9, <2>1
<1>11. ASSUME NEW y, y.sync = Ac3!None /\ y.pay = << >> /\ y.size = 0
       PROVE  out = Ac3E(w)[h] /\ Ac3ScanOK(w, H, out, y, n + 1)
  BY <1>2, <1>3, <1>4, <1>7, <1>9, <1>10, <1>11, Ac3ScanNext, SMTT(40)
<1>12. out = Ac3E(w)[h]
  <2>1. /\ Ac3!ScanReset.sync = Ac3!None /\ Ac3!ScanReset.pay = << >>
        /\ Ac3!ScanReset.size = 0
    BY DEF Ac3!ScanReset
  <2> QED
    BY <1>11, <2>1
<1>13. h + 5 <= buf /\ Ac3E(w)[h] <= buf
  <2>1. h \in Nat /\ out = h + 2 + l /\ l \in Nat /\ l >= 4
    BY <1>3, <1>8, <1>9
  <2> HIDE DEF l
  <2>2. h + 6 <= out
    BY <2>1
  <2> QED
    BY <1>2, <1>7, <1>12, <2>1, <2>2
<1>14. n + 1 <= crossed
  BY <1>2, <1>4, <1>5, <1>6, <1>7, <1>8, <1>9, <1>13, Ac3Passed
<1>15. ret
  BY <1>4, <1>5, <1>14
<1> QED
  BY <1>8, <1>9, <1>10, <1>11, <1>14, <1>15

LEMMA Ac3FrameAgree ==
  ASSUME Ac3Inv, Ac3Fit(stream), Ac3Own(stream), Ac3!Sound(1), NEW H, Ac3Agrees(H), Ac3!Frame
  PROVE  Ac3Agrees(H)'
<1> DEFINE w == stream
           n == Len(heard)
           h == H[n + 1]
           l == Len(s.pay)
<1>1. UNCHANGED <<stream, tail, buf, c, ret, crossed>> /\ turn = "frame"
  BY Ac3Kinds
<1>2. /\ w \in Seq(Ac3Byte) /\ Len(w) \in Nat /\ buf \in Nat /\ out \in Nat /\ tail \in Nat
      /\ out <= tail /\ tail <= Len(w) /\ \A k \in 1..Len(w) : w[k] \in Ac3Byte
  BY Ac3Sent DEF Ac3Inv, Ac3Places
<1>3. /\ s.pay \in Seq(Ac3Byte) /\ s.size \in Nat /\ l \in Nat
      /\ l + 2 <= (IF s.size > 6 THEN s.size ELSE 6) /\ s \in Ac3Scanned(s.sync)
  BY DEF Ac3Inv, Ac3Scan, Ac3Scanned
<1>4. /\ Heads(Ac3Y(w), Ac3E(w), H) /\ Ac3CountOK(w, H, buf, c, crossed) /\ Ac3Turns
      /\ Ac3ScanOK(w, H, out, s, n) /\ crossed \in Nat /\ n \in Nat /\ H \in Seq(Nat)
      /\ heard \in Seq(Nat)
  BY DEF Ac3Agrees, Heads, Ac3CountOK, Ac3Inv, Ac3Order
<1>5. buf = tail /\ n <= crossed /\ (c.bfound >= 5 => c.bfound < c.fsize)
      /\ (crossed > n => ret) /\ (heard # << >> => last # 0)
  BY <1>1, <1>4 DEF Ac3Turns
<1>6. Ac3Count(c)
  BY DEF Ac3Inv, Ac3Counter, Ac3Count
<1>7. out <= Len(w) /\ buf <= Len(w) /\ out <= buf
  BY <1>2, <1>5
\* The frame in the payload.
<1>8. ASSUME s.sync = Ac3!Magic
      PROVE  /\ n < Len(H) /\ h \in Nat /\ h \in Ac3Y(w)
             /\ out = h + 2 + l /\ Slice(s.pay, w, h + 2)
             /\ s.size # 0 => l >= 4 /\ s.size = Ac3Z(w, h) /\ s.rate = Rate
             /\ l >= 3 => /\ Ac3Z(w, h) \in Nat /\ Ac3Z(w, h) > 5
                          /\ Ac3E(w)[h] = h + Ac3Z(w, h)
                          /\ Ac3!FreqOf(w[h + 5]) = Rate
  BY <1>2, <1>3, <1>4, <1>7, <1>8, Ac3InTaking
\* All but the return of Frame().
<1>9. ASSUME Ac3ScanOK(w, H, out', s', n), out' \in out..tail, turn' = turn,
             UNCHANGED <<last, heard>>
      PROVE  Ac3Agrees(H)'
  <2>1. Ac3Turns'
    BY <1>1, <1>2, <1>4, <1>5, <1>9 DEF Ac3Turns
  <2> QED
    BY <1>1, <1>4, <1>9, <2>1 DEF Ac3Agrees
<1>10. CASE Ac3Syncs
  <2>1. Ac3ScanOK(w, H, out + 1, s', n) /\ out + 1 \in out..tail
    BY <1>2, <1>4, <1>5, <1>7, <1>10, Ac3ScanSync DEF Ac3Syncs
  <2> QED
    BY <1>9, <1>10, <2>1 DEF Ac3Syncs
<1>11. CASE Ac3Takes
  <2>1. PICK d \in Nat : out' = out + d /\ out + d <= tail /\ Taken(s.pay, s'.pay, w, out, d)
    BY <1>11 DEF Ac3Takes
  <2>2. Ac3ScanOK(w, H, out + d, s', n)
    BY <1>2, <1>3, <1>4, <1>8, <1>11, <2>1, Ac3ScanTake DEF Ac3Takes
  <2> QED
    BY <1>2, <1>9, <1>11, <2>1, <2>2 DEF Ac3Takes
\* The code in the header.
<1>12. ASSUME s.sync = Ac3!Magic, l >= 4
       PROVE  Ac3!SizeOf(s.pay[3]) = Ac3Z(w, h) /\ Ac3Z(w, h) # 0 /\ Ac3!FreqOf(s.pay[3]) = Rate
  <2>1. 3 \in 1..l /\ h + 2 + 3 = h + 5
    BY <1>3, <1>8, <1>12
  <2>2. s.pay[3] = w[h + 5]
    BY <1>8, <1>12, <2>1 DEF Slice
  <2> QED
    BY <1>3, <1>8, <1>12, <2>2 DEF Ac3Z
<1>13. CASE Ac3Parses
  <2>1. Ac3ScanOK(w, H, out, s', n)
    BY <1>8, <1>12, <1>13 DEF Ac3ScanOK, Ac3Taking, Ac3Parses
  <2> QED
    BY <1>2, <1>9, <1>13, <2>1 DEF Ac3Parses
<1>14. CASE Ac3Skips
  BY <1>8, <1>12, <1>14 DEF Ac3Skips
<1>15. CASE Ac3Ends
  <2>1. Ac3!CrcCheck \/ last # 0
    <3> SUFFICES ASSUME last = 0 PROVE Ac3!CrcCheck
      OBVIOUS
    <3>1. n = 0 /\ h = H[1] /\ From(Ac3E(w), H, 0) = 0
      BY <1>4, <1>5 DEF From
    <3>2. s.sync = Ac3!Magic /\ l + 2 = s.size /\ s.size = Ac3Z(w, h)
      BY <1>1, <1>15, Ac3FullTold DEF Ac3Ends
    <3>3. h = 0
      <4>1. Found(Ac3Y(w), 0, h)
        BY <1>2, <1>4, <1>8, <3>1, <3>2, HeadPlace, Ac3YNat
      <4>2. 0 \in Ac3Y(w) /\ h \in Nat
        BY <1>8, <3>2, Ac3Begins
      <4>3. Found(Ac3Y(w), 0, 0)
        BY <4>2 DEF Found
      <4> QED
        BY <1>2, <4>1, <4>3, SameFound, Ac3YNat
    <3>4. /\ Slice(s.pay, w, 2) /\ Ac3Z(w, 0) \in Nat /\ l + 2 = Ac3Z(w, 0)
          /\ \A k \in 1..Ac3Z(w, 0) : w[k].f = 1 /\ w[k].i = k - 1 /\ w[k].ok
      <4>1. Slice(s.pay, w, h + 2) /\ h + 2 = 2
        BY <1>8, <3>2, <3>3
      <4> QED
        BY <3>2, <3>3, <4>1, Ac3Begins
    <3>5. \A k \in 1..l : s.pay[k].f = 1 /\ s.pay[k].i = k + 1 /\ s.pay[k].ok
      <4> SUFFICES ASSUME NEW k \in 1..l PROVE s.pay[k].f = 1 /\ s.pay[k].i = k + 1 /\ s.pay[k].ok
        OBVIOUS
      <4>1. s.pay[k] = w[2 + k]
        BY <3>4 DEF Slice
      <4>2. 2 + k \in 1..Ac3Z(w, 0)
        BY <1>3, <3>4
      <4>3. w[2 + k].f = 1 /\ w[2 + k].i = (2 + k) - 1 /\ w[2 + k].ok
        BY <3>4, <4>2
      <4>4. (2 + k) - 1 = k + 1
        OBVIOUS
      <4> QED
        BY <4>1, <4>3, <4>4
    <3> QED
      BY <1>3, <3>5 DEF Ac3!CrcCheck
  <2>2. heard' = Append(heard, last') /\ UNCHANGED <<turn, out>>
    BY <1>15, <2>1 DEF Ac3Ends
  <2>3. last' # 0
    <3>1. s.pay[1] \in Ac3Byte
      <4>1. l >= 4
        BY <1>3, <1>15 DEF Ac3Ends, Ac3Full, Ac3!Fits, Ac3!HeadKnown, Ac3!Pos
      <4> QED
        BY <1>3, <4>1
    <3>2. s.pay[1].f # 0
      BY <3>1 DEF Ac3Byte
    <3> QED
      BY <1>15, <2>1, <3>2 DEF Ac3Ends
  <2>4. Len(heard') = n + 1
    BY <1>4, <2>2
  <2>5. n + 1 <= crossed /\ ret /\ Ac3ScanOK(w, H, out, s', n + 1)
    BY <1>1, <1>15, Ac3FullTold DEF Ac3Ends, Ac3Reset
  <2>6. Ac3Turns'
    BY <1>1, <1>4, <1>5, <1>7, <2>2, <2>3, <2>4, <2>5 DEF Ac3Turns
  <2> QED
    BY <1>1, <1>4, <2>2, <2>4, <2>5, <2>6 DEF Ac3Agrees
<1>16. CASE Ac3Returns
  <2>1. UNCHANGED <<out, s, last, heard>> /\ turn' = "idle" /\ out >= tail /\ ~Ac3Done(s)
    BY <1>16 DEF Ac3Returns
  <2>2. out = tail /\ out = buf
    BY <1>2, <1>5, <2>1
  <2>3. n = crossed
    BY <1>2, <1>3, <1>4, <1>5, <1>7, <2>1, <2>2, Ac3Level
  <2>4. Ac3Turns'
    BY <1>1, <1>4, <1>5, <2>1, <2>2, <2>3 DEF Ac3Turns
  <2> QED
    BY <1>1, <1>4, <2>1, <2>4 DEF Ac3Agrees
<1> QED
  BY <1>10, <1>11, <1>13, <1>14, <1>15, <1>16, Ac3Kinds

\* Whatever the stream: the payload is the stream's, behind a sync word, and
\* between two frames the last two bytes are no sync word.
Ac3Held == IF s.sync = Ac3!Magic
           THEN \E j \in Ac3Y(stream) : Ac3Taking(stream, j, out, s)
           ELSE /\ s.pay = << >> /\ s.size = 0
                /\ \E b \in Nat : Ac3Seek(stream, b, out, s.sync)

LEMMA Ac3ResetHeld ==
  ASSUME Ac3Reset(s'), out' \in Nat PROVE Ac3Held'
<1>1. Ac3Seek(stream', out', out', s'.sync)
  BY Ac3SeekNew DEF Ac3Reset
<1>2. s'.sync # Ac3!Magic
  BY DEF Ac3Reset, Ac3!None, Ac3!Magic
<1> QED
  BY <1>1, <1>2 DEF Ac3Held, Ac3Reset

LEMMA Ac3HeldKeeps == Ac3Inv /\ Ac3Held /\ Ac3!Next => Ac3Held'
<1> SUFFICES ASSUME Ac3Inv, Ac3Held, Ac3!Next PROVE Ac3Held'
  OBVIOUS
<1> DEFINE w == stream
<1>1. /\ w \in Seq(Ac3Byte) /\ Len(w) \in Nat /\ out \in Nat /\ tail \in Nat
      /\ out <= tail /\ tail <= Len(w) /\ s.pay \in Seq(Ac3Byte) /\ Len(s.pay) \in Nat
  BY Ac3Sent DEF Ac3Inv, Ac3Places, Ac3Scan, Ac3Scanned
<1>2. CASE UNCHANGED <<stream, out, s>>
  BY <1>2 DEF Ac3Held
<1>3. CASE Ac3!Clear
  <2>1. Ac3Reset(s') /\ out' \in Nat
    BY <1>3 DEF Ac3!Clear, Ac3!Refeed, Ac3!ScanReset, Ac3Reset
  <2> QED
    BY <2>1, Ac3ResetHeld
<1>4. CASE Ac3!Frame
  <2>1. stream' = stream /\ tail' = tail
    BY <1>4, Ac3Kinds
  <2>2. CASE Ac3Syncs
    <3>1. PICK b \in Nat : Ac3Seek(w, b, out, s.sync)
      BY <2>2 DEF Ac3Held, Ac3Syncs
    <3>2. /\ s'.sync = <<s.sync[2], w[out + 1].v>> /\ out < Len(w) /\ out' = out + 1
          /\ s'.pay = << >> /\ s'.size = 0
      BY <1>1, <2>2 DEF Ac3Syncs, Ac3Held
    <3>3. /\ s'.sync = Ac3!Magic => Found(Ac3Y(w), b, out - 1)
          /\ s'.sync # Ac3!Magic => Ac3Seek(w, b, out + 1, s'.sync)
      BY <1>1, <3>1, <3>2, Ac3SeekOn
    <3>4. CASE s'.sync = Ac3!Magic
      <4>1. out - 1 \in Ac3Y(w)
        BY <3>3, <3>4 DEF Found
      <4>2. Len(s'.pay) = 0 /\ Slice(s'.pay, w, out - 1 + 2) /\ out + 1 = out - 1 + 2 + Len(s'.pay)
        BY <1>1, <3>2 DEF Slice
      <4>3. Ac3Taking(w, out - 1, out + 1, s')
        BY <3>2, <4>2 DEF Ac3Taking
      <4> QED
        BY <2>1, <3>2, <3>4, <4>1, <4>3 DEF Ac3Held
    <3>5. CASE s'.sync # Ac3!Magic
      BY <2>1, <3>2, <3>3, <3>5 DEF Ac3Held
    <3> QED
      BY <3>4, <3>5
  <2>3. CASE Ac3Takes
    <3>1. PICK d \in Nat : out' = out + d /\ Taken(s.pay, s'.pay, w, out, d)
      BY <2>3 DEF Ac3Takes
    <3>2. PICK j \in Ac3Y(w) : Ac3Taking(w, j, out, s)
      BY <2>3 DEF Ac3Takes, Ac3Held
    <3>3. j \in Nat
      BY <1>1, <3>2, Ac3YNat
    <3>4. Ac3Taking(w, j, out + d, s')
      BY <1>1, <2>3, <3>1, <3>2, <3>3, Ac3TakingOn DEF Ac3Takes
    <3> QED
      BY <2>1, <2>3, <3>1, <3>2, <3>4 DEF Ac3Held, Ac3Takes
  <2>4. CASE Ac3Parses
    <3>1. PICK j \in Ac3Y(w) : Ac3Taking(w, j, out, s)
      BY <2>4 DEF Ac3Parses, Ac3Held
    <3>2. s.pay[3] = w[j + 5]
      <4>1. j \in Nat /\ 3 \in 1..Len(s.pay) /\ j + 2 + 3 = j + 5
        BY <1>1, <2>4, <3>1, Ac3YNat DEF Ac3Parses
      <4> QED
        BY <3>1, <4>1 DEF Ac3Taking, Slice
    <3>3. Ac3Taking(w, j, out', s')
      BY <2>4, <3>1, <3>2 DEF Ac3Taking, Ac3Parses, Ac3Z
    <3> QED
      BY <2>1, <2>4, <3>1, <3>3 DEF Ac3Held, Ac3Parses
  <2>5. CASE Ac3Skips
    BY <1>1, <2>5, Ac3ResetHeld DEF Ac3Skips
  <2>6. CASE Ac3Ends
    BY <1>1, <2>6, Ac3ResetHeld DEF Ac3Ends
  <2>7. CASE Ac3Returns
    BY <1>2, <2>1, <2>7 DEF Ac3Returns
  <2> QED
    BY <1>4, <2>2, <2>3, <2>4, <2>5, <2>6, <2>7, Ac3Kinds
<1>5. CASE Ac3!Feed
  BY <1>2, <1>5 DEF Ac3!Feed, Ac3!frameVars
<1>6. CASE Ac3!Count
  <2>1. UNCHANGED <<stream, out, s>>
    BY <1>6, Zenon DEF Ac3!Count, Ac3!CountSync, Ac3!CountFound, Ac3!CountSkip, Ac3!CountSize,
                Ac3!CountBody, Ac3!CountCross, Ac3!CountOut, Ac3!Counting, Ac3!frameVars
  <2> QED
    BY <1>2, <2>1
<1> QED
  BY <1>3, <1>4, <1>5, <1>6 DEF Ac3!Next

\* Frames that are whole, and no data that look like a sync word.
LEMMA Ac3WholeHeads ==
  ASSUME Ac3Inv, Ac3!Intact
  PROVE  /\ Ac3Fit(stream)
         /\ \A h, y \in Ac3Y(stream) : h < y => h + Ac3Z(stream, h) <= y
<1>1. /\ stream \in Seq(Ac3Byte) /\ Len(stream) \in Nat
      /\ \A k \in 1..Len(stream) : stream[k] \in Ac3Byte
  BY Ac3Sent DEF Ac3Inv, Ac3Places
<1>2. ASSUME NEW j \in Ac3Y(stream)
      PROVE  /\ j \in Nat /\ j + 1 \in 1..Len(stream) /\ stream[j + 1].i = 0
             /\ Ac3!WholeAt(stream[j + 1].f, j) /\ j + 5 <= Len(stream)
  <2>1. j \in 0..Len(stream) - 2 /\ Ac3!SyncAt(j) /\ j + 1 \in 1..Len(stream)
    BY <1>1 DEF Ac3Y, Ac3!SyncAt
  <2>2. stream[j + 1].i = 0
    BY <2>1 DEF Ac3!Intact
  <2> DEFINE n == stream[j + 1].f
  <2>3. n \in Ac3!FrameNo /\ j + 1 \in Ac3!Places(n)
    BY <2>1 DEF Ac3!FrameNo, Ac3!Places
  <2>4. PICK i \in Ac3!Starts : Ac3!WholeAt(n, i)
    BY <2>3 DEF Ac3!Intact, Ac3!Whole
  <2>5. stream[j + 1].i = (j + 1) - i - 1
    BY <2>3, <2>4 DEF Ac3!WholeAt
  <2>6. i \in Nat /\ i + 5 <= Len(stream)
    BY <1>1, <2>4 DEF Ac3!Starts
  <2>7. i = j
    BY <2>1, <2>2, <2>5, <2>6
  <2> QED
    BY <2>1, <2>2, <2>4, <2>6, <2>7
<1>3. Ac3Fit(stream)
  BY <1>2 DEF Ac3Fit, Ac3!WholeAt, Ac3Z, Ac3!Code
<1>4. ASSUME NEW h \in Ac3Y(stream), NEW y \in Ac3Y(stream), h < y, ~(h + Ac3Z(stream, h) <= y)
      PROVE  FALSE
  <2>1. h \in Nat /\ y \in Nat /\ y + 1 \in 1..Len(stream) /\ stream[y + 1].i = 0
        /\ Ac3!WholeAt(stream[h + 1].f, h) /\ h + 5 <= Len(stream)
    BY <1>2
  <2>2. Ac3Z(stream, h) \in Nat
    BY <1>1, <2>1, Ac3ZNat
  <2>3. y + 1 \in h + 1..h + Ac3Z(stream, h)
    BY <1>4, <2>1, <2>2
  <2>4. stream[y + 1].i = (y + 1) - h - 1
    BY <2>1, <2>3 DEF Ac3!WholeAt, Ac3Z, Ac3!Code
  <2> QED
    BY <1>4, <2>1, <2>4
<1> QED
  BY <1>3, <1>4

\* What Count() has told of is what it has found: all places of sync words.
Ac3Covers(Y, E, H, n) == \A y \in Y : y < From(E, H, n) => \E k \in 1..n : H[k] = y
Ac3Behind(E, H, n, p) == \A k \in 1..n : E[H[k]] <= p
Ac3Elsewhere(H, n, p, y) == y.sync = Ac3!Magic => \A k \in 1..n : H[k] + 2 + Len(y.pay) # p
Ac3Tells(H) ==
    /\ Heads(Ac3Y(stream), Ac3E(stream), H) /\ Ac3CountOK(stream, H, buf, c, crossed)
    /\ Ac3Covers(Ac3Y(stream), Ac3E(stream), H, crossed)
    /\ out <= buf
    /\ turn # "count" => buf = tail /\ (c.bfound >= 5 => c.bfound < c.fsize)
    /\ turn = "idle" => out = tail /\ ~Ac3Done(s)
    /\ turn # "idle" /\ ~ret => /\ Ac3Behind(Ac3E(stream), H, crossed, out)
                                /\ Ac3Elsewhere(H, crossed, out, s)

LEMMA Ac3FreshTells ==
  ASSUME NEW Y \in SUBSET Nat, NEW E
  PROVE  Ac3Covers(Y, E, << >>, 0)
BY DEF Ac3Covers, From

LEMMA Ac3InitTells == Ac3!Init => Ac3Tells(<< >>)
<1> SUFFICES ASSUME Ac3!Init PROVE Ac3Tells(<< >>)
  OBVIOUS
<1>1. /\ stream \in Seq(Ac3Byte) /\ buf = 0 /\ out = 0 /\ turn = "idle" /\ tail = 0 /\ crossed = 0
      /\ heard = << >> /\ c = Ac3!CountReset /\ s = Ac3!ScanReset
  BY Ac3Sent DEF Ac3!Init
<1>2. Heads(Ac3Y(stream), Ac3E(stream), << >>) /\ Ac3CountOK(stream, << >>, buf, c, crossed)
  BY <1>1, Ac3Fresh
<1>3. Ac3Covers(Ac3Y(stream), Ac3E(stream), << >>, crossed)
  BY <1>1, Ac3FreshTells, Ac3YNat
<1>4. ~Ac3Done(s) /\ c.bfound = 0
  BY <1>1 DEF Ac3Done, Ac3!CountReset, Ac3!ScanReset, Ac3!None, Ac3!Magic
<1> QED
  BY <1>1, <1>2, <1>3, <1>4 DEF Ac3Tells

LEMMA Ac3ClearTells == Ac3Inv /\ Ac3!Clear => Ac3Tells(<< >>)'
<1> SUFFICES ASSUME Ac3Inv, Ac3!Clear PROVE Ac3Tells(<< >>)'
  OBVIOUS
<1>1. /\ stream' \in Seq(Ac3Byte) /\ buf' = 0 /\ out' = 0 /\ tail' = 0 /\ crossed' = 0
      /\ turn' = "idle"
      /\ heard' = << >> /\ c' = Ac3!CountReset /\ s' = Ac3!ScanReset
  BY Ac3Sent DEF Ac3!Clear, Ac3!Refeed
<1>2. /\ Heads(Ac3Y(stream'), Ac3E(stream'), << >>)
      /\ Ac3CountOK(stream', << >>, buf', c', crossed')
  BY <1>1, Ac3Fresh
<1>3. Ac3Covers(Ac3Y(stream'), Ac3E(stream'), << >>, crossed')
  BY <1>1, Ac3FreshTells, Ac3YNat
<1>4. ~Ac3Done(s') /\ c'.bfound = 0
  BY <1>1 DEF Ac3Done, Ac3!CountReset, Ac3!ScanReset, Ac3!None, Ac3!Magic
<1> QED
  BY <1>1, <1>2, <1>3, <1>4 DEF Ac3Tells

LEMMA Ac3FeedTells ==
  ASSUME Ac3Inv, Ac3Held, Ac3Fit(stream), NEW H, Ac3Tells(H), Ac3!Feed PROVE Ac3Tells(H)'
<1> DEFINE w == stream
           l == Len(s.pay)
<1>1. /\ UNCHANGED <<stream, out, s, c, crossed>> /\ turn = "idle"
      /\ turn' = "count" /\ buf' = out
  BY DEF Ac3!Feed, Ac3!frameVars
<1>2. /\ w \in Seq(Ac3Byte) /\ buf' = buf /\ buf \in Nat /\ out = buf /\ Len(w) \in Nat
      /\ out <= Len(w) /\ l \in Nat
  BY <1>1, Ac3Sent DEF Ac3Tells, Ac3Inv, Ac3Places, Ac3Scan
<1>3. /\ Heads(Ac3Y(w), Ac3E(w), H) /\ Ac3CountOK(w, H, buf, c, crossed) /\ ~Ac3Done(s)
      /\ Ac3Covers(Ac3Y(w), Ac3E(w), H, crossed)
  BY <1>1 DEF Ac3Tells
<1>4. crossed \in Nat /\ \A k \in 1..crossed : H[k] + 5 <= out /\ Ac3E(w)[H[k]] <= out
  BY <1>2, <1>3 DEF Ac3CountOK
<1>5. crossed <= Len(H) /\ H \in Seq(Nat) /\ Len(H) \in Nat
  BY <1>3 DEF Ac3CountOK, Heads
<1>6. ASSUME s.sync = Ac3!Magic, NEW k \in 1..crossed, H[k] + 2 + l = out PROVE FALSE
  <2>1. H[k] \in Nat /\ H[k] \in Ac3Y(w)
    <3>1. k \in 1..Len(H)
      BY <1>4, <1>5
    <3> QED
      BY <1>3, <1>5, <3>1 DEF Heads, Found
  <2> DEFINE h == H[k]
  <2>2. PICK j \in Ac3Y(w) : Ac3Taking(w, j, out, s)
    BY <1>6 DEF Ac3Held
  <2>3. j \in Nat /\ out = j + 2 + l /\ (s.size # 0 => s.size = Ac3Z(w, j))
    BY <1>2, <2>2, Ac3YNat DEF Ac3Taking
  <2>4. h \in Nat /\ h + 2 + l = out /\ h + 5 <= out /\ Ac3E(w)[h] <= out
    BY <1>4, <1>6, <2>1
  <2>5. j = h
    <3> HIDE DEF l, h
    <3> QED
      BY <1>2, <2>3, <2>4
  <2>6. Ac3Z(w, j) \in Nat /\ Ac3E(w)[j] = j + Ac3Z(w, j) /\ Ac3Z(w, j) > 5
    <3>1. j + 5 <= Len(w)
      BY <1>2, <2>3, <2>4, <2>5
    <3> QED
      BY <1>2, <2>2, <2>3, <3>1, Ac3ZNat DEF Ac3Fit
  <2>7. l >= 4 /\ l + 2 >= Ac3Z(w, j)
    <3> HIDE DEF l, h
    <3> QED
      BY <1>2, <2>3, <2>4, <2>5, <2>6
  <2> QED
    BY <1>3, <1>6, <2>3, <2>7 DEF Ac3Done
<1>7. Ac3Behind(Ac3E(w), H, crossed, out) /\ Ac3Elsewhere(H, crossed, out, s)
  BY <1>4, <1>6 DEF Ac3Behind, Ac3Elsewhere
<1> QED
  BY <1>1, <1>2, <1>3, <1>7 DEF Ac3Tells

Ac3Apart(w) == \A h, y \in Ac3Y(w) : h < y => h + Ac3Z(w, h) <= y

LEMMA CoversGrown ==
  ASSUME NEW Y, NEW E, NEW H, NEW G, Grows(H, G), NEW n \in Nat, n <= Len(H), Len(H) \in Nat,
         Ac3Covers(Y, E, H, n)
  PROVE  Ac3Covers(Y, E, G, n) /\ From(E, G, n) = From(E, H, n)
<1>1. \A k \in 1..n : G[k] = H[k]
  BY DEF Grows
<1>2. n = 0 \/ n \in 1..n
  OBVIOUS
<1>3. From(E, G, n) = From(E, H, n)
  BY <1>1, <1>2 DEF From
<1> QED
  BY <1>1, <1>3 DEF Ac3Covers

LEMMA CoversMore ==
  ASSUME NEW Y \in SUBSET Nat, NEW E, NEW G, Heads(Y, E, G), NEW n \in Nat, n < Len(G),
         Ac3Covers(Y, E, G, n), From(E, G, n) \in Nat, NEW p \in Nat, E[G[n + 1]] = p,
         \A y \in Y : G[n + 1] < y => p <= y
  PROVE  Ac3Covers(Y, E, G, n + 1)
<1>1. G[n + 1] \in Nat /\ G[n + 1] \in Y /\ Found(Y, From(E, G, n), G[n + 1])
  BY HeadPlace
<1>2. From(E, G, n + 1) = p
  BY DEF From
<1> SUFFICES ASSUME NEW y \in Y, y < p PROVE \E k \in 1..n + 1 : G[k] = y
  BY <1>2 DEF Ac3Covers
<1>3. CASE y < From(E, G, n)
  BY <1>3 DEF Ac3Covers
<1>4. CASE y = G[n + 1]
  BY <1>4
<1>5. CASE ~(y < From(E, G, n)) /\ y # G[n + 1]
  <2>1. y \in Nat /\ ~(G[n + 1] < y)
    <3>1. y \in Nat
      OBVIOUS
    <3> QED
      BY <3>1
  <2>2. y \in From(E, G, n)..G[n + 1] - 1
    BY <1>1, <1>5, <2>1
  <2> QED
    BY <1>1, <2>2 DEF Found
<1> QED
  BY <1>3, <1>4, <1>5

LEMMA Ac3CountTells ==
  ASSUME Ac3Inv, Ac3Fit(stream), Ac3Apart(stream), NEW H, Ac3Tells(H), Ac3!Count
  PROVE  \E G : Ac3Tells(G)'
<1> DEFINE w == stream
<1>1. UNCHANGED <<stream, tail, out, s>> /\ turn = "count"
  BY Zenon DEF Ac3!Count, Ac3!CountSync, Ac3!CountFound, Ac3!CountSkip, Ac3!CountSize,
         Ac3!CountBody, Ac3!CountCross, Ac3!CountOut, Ac3!Counting, Ac3!frameVars
<1>2. /\ Heads(Ac3Y(w), Ac3E(w), H) /\ Ac3CountOK(w, H, buf, c, crossed) /\ crossed \in Nat
      /\ Ac3Covers(Ac3Y(w), Ac3E(w), H, crossed) /\ out <= buf
      /\ ~ret => /\ Ac3Behind(Ac3E(w), H, crossed, out)
                 /\ Ac3Elsewhere(H, crossed, out, s)
  BY <1>1 DEF Ac3Tells, Ac3CountOK
<1>3. PICK G : /\ Heads(Ac3Y(w), Ac3E(w), G)
               /\ Ac3CountOK(w, G, buf', c', crossed')
               /\ Grows(H, G) /\ buf' \in buf..tail /\ Ac3Step(G)
  BY <1>2, Ac3CountStep
<1>4. /\ w \in Seq(Ac3Byte) /\ Len(w) \in Nat /\ buf \in Nat /\ out \in Nat /\ tail \in Nat
      /\ buf <= Len(w)
  BY Ac3Sent DEF Ac3Inv, Ac3Places
<1>5. Ac3Y(w) \in SUBSET Nat
  BY <1>4, Ac3YNat
<1>6. crossed <= Len(H) /\ Len(H) \in Nat /\ G \in Seq(Nat) /\ Len(G) \in Nat
  BY <1>2, <1>3 DEF Ac3CountOK, Heads
<1>7. /\ Ac3Covers(Ac3Y(w), Ac3E(w), G, crossed) /\ \A k \in 1..crossed : G[k] = H[k]
      /\ From(Ac3E(w), G, crossed) = From(Ac3E(w), H, crossed)
  <2>1. \A k \in 1..crossed : k \in 1..Len(H)
    BY <1>2, <1>6
  <2>2. \A k \in 1..crossed : G[k] = H[k]
    BY <1>3, <2>1 DEF Grows
  <2>3. Grows(H, G) /\ Ac3Covers(Ac3Y(w), Ac3E(w), H, crossed) /\ crossed \in Nat
    BY <1>2, <1>3
  <2>4. /\ Ac3Covers(Ac3Y(w), Ac3E(w), G, crossed)
        /\ From(Ac3E(w), G, crossed) = From(Ac3E(w), H, crossed)
    BY <1>6, <2>3, CoversGrown
  <2> QED
    BY <2>2, <2>4
<1>8. Ac3Covers(Ac3Y(w), Ac3E(w), G, crossed')
  <2>1. CASE crossed' = crossed
    BY <1>7, <2>1
  <2>2. CASE crossed' = crossed + 1 /\ Len(G) = crossed + 1
             /\ Ac3E(w)[G[crossed + 1]] = buf
    <3> DEFINE g == G[crossed + 1]
    <3>6. crossed < Len(G)
      BY <1>2, <2>2
    <3>1. g \in Nat /\ g \in Ac3Y(w)
      BY <1>2, <1>3, <1>5, <3>6, HeadPlace
    <3>2. g + 5 <= buf
      BY <1>2, <1>3, <1>6, <2>2 DEF Ac3CountOK, Ac3Step
    <3>3. Ac3Z(w, g) \in Nat /\ buf = g + Ac3Z(w, g)
      <4>1. g + 5 <= Len(w)
        <5> HIDE DEF g
        <5> QED
          BY <1>4, <3>1, <3>2
      <4> QED
        BY <1>4, <2>2, <3>1, <4>1, Ac3ZNat
    <3>4. \A y \in Ac3Y(w) : g < y => buf <= y
      BY <3>1, <3>3 DEF Ac3Apart
    <3>5. From(Ac3E(w), G, crossed) \in Nat
      <4>1. CASE crossed = 0
        BY <4>1 DEF From
      <4>2. CASE crossed # 0
        <5>1. crossed \in 1..crossed /\ crossed \in 1..Len(H)
          BY <1>2, <1>6, <4>2
        <5>2. H[crossed] \in Nat /\ H[crossed] + 5 <= buf
          BY <1>2, <5>1 DEF Ac3CountOK, Heads
        <5>3. Ac3E(w)[H[crossed]] \in Nat
          <6>1. H[crossed] + 5 <= Len(w)
            BY <1>4, <5>2
          <6> QED
            BY <1>4, <5>2, <6>1, Ac3ZNat
        <5> QED
          BY <1>7, <4>2, <5>3 DEF From
      <4> QED
        BY <4>1, <4>2
    <3> QED
      BY <1>2, <1>3, <1>4, <1>5, <1>7, <2>2, <3>4, <3>5, <3>6, CoversMore
  <2> QED
    BY <1>3, <2>1, <2>2 DEF Ac3Step
<1>9. out <= buf'
  BY <1>2, <1>3, <1>4
<1>10. turn' = "count" \/ (turn' = "frame" /\ buf' = tail
                              /\ (c'.bfound >= 5 => c'.bfound < c'.fsize))
  BY <1>1, <1>3 DEF Ac3Step
<1>11. ~ret' => Ac3Behind(Ac3E(w), G, crossed', out) /\ Ac3Elsewhere(G, crossed', out, s)
  <2> SUFFICES ASSUME ~ret'
               PROVE  Ac3Behind(Ac3E(w), G, crossed', out) /\ Ac3Elsewhere(G, crossed', out, s)
    OBVIOUS
  <2>1. crossed' = crossed /\ ~ret
    BY <1>3 DEF Ac3Step
  <2> QED
    BY <1>2, <1>7, <2>1 DEF Ac3Behind, Ac3Elsewhere
<1> QED
  BY <1>1, <1>3, <1>8, <1>9, <1>10, <1>11 DEF Ac3Tells

LEMMA Ac3FrameTells ==
  ASSUME Ac3Inv, Ac3Held, Ac3Fit(stream), NEW H, Ac3Tells(H), Ac3!Frame
  PROVE  Ac3Tells(H)'
<1> DEFINE w == stream
           l == Len(s.pay)
<1>1. /\ UNCHANGED <<stream, tail, buf, c, ret, crossed>> /\ turn = "frame"
      /\ Ac3Syncs \/ Ac3Takes \/ Ac3Parses \/ Ac3Skips \/ Ac3Ends \/ Ac3Returns
  BY Ac3Kinds
<1>2. /\ w \in Seq(Ac3Byte) /\ Len(w) \in Nat /\ buf \in Nat /\ out \in Nat /\ tail \in Nat
      /\ buf <= Len(w) /\ out <= tail /\ buf = tail /\ s.pay \in Seq(Ac3Byte) /\ l \in Nat
  BY <1>1, Ac3Sent DEF Ac3Inv, Ac3Places, Ac3Tells, Ac3Scan, Ac3Scanned
<1>3. /\ Heads(Ac3Y(w), Ac3E(w), H) /\ Ac3CountOK(w, H, buf, c, crossed) /\ crossed \in Nat
      /\ Ac3Covers(Ac3Y(w), Ac3E(w), H, crossed) /\ out <= buf
      /\ ~ret => /\ Ac3Behind(Ac3E(w), H, crossed, out)
                 /\ Ac3Elsewhere(H, crossed, out, s)
      /\ c.bfound >= 5 => c.bfound < c.fsize
  BY <1>1 DEF Ac3Tells, Ac3CountOK
<1>4. \A k \in 1..crossed : /\ H[k] \in Nat /\ Ac3Z(w, H[k]) \in Nat /\ Ac3Z(w, H[k]) > 5
                            /\ Ac3E(w)[H[k]] = H[k] + Ac3Z(w, H[k])
  <2> SUFFICES ASSUME NEW k \in 1..crossed
               PROVE  /\ H[k] \in Nat /\ Ac3Z(w, H[k]) \in Nat /\ Ac3Z(w, H[k]) > 5
                      /\ Ac3E(w)[H[k]] = H[k] + Ac3Z(w, H[k])
    OBVIOUS
  <2>1. H[k] + 5 <= buf /\ H \in Seq(Nat) /\ crossed <= Len(H) /\ Len(H) \in Nat
    BY <1>3 DEF Ac3CountOK, Heads
  <2>2. k \in 1..Len(H)
    BY <1>3, <2>1
  <2>3. H[k] \in Nat /\ H[k] \in Ac3Y(w)
    BY <1>3, <2>1, <2>2 DEF Heads, Found
  <2>4. H[k] + 5 <= Len(w)
    BY <1>2, <2>1, <2>3
  <2> QED
    BY <1>2, <2>3, <2>4, Ac3ZNat DEF Ac3Fit
\* The part of the pieces that were not told of.
<1>5. ASSUME out' \in out..tail,
             ~ret => Ac3Elsewhere(H, crossed, out', s'),
             turn' = "frame" \/ (turn' = "idle" /\ out' = tail /\ ~Ac3Done(s'))
      PROVE  Ac3Tells(H)'
  <2>1. ~ret => Ac3Behind(Ac3E(w), H, crossed, out')
    <3> SUFFICES ASSUME ~ret, NEW k \in 1..crossed PROVE Ac3E(w)[H[k]] <= out'
      BY DEF Ac3Behind
    <3>1. Ac3E(w)[H[k]] <= out /\ Ac3E(w)[H[k]] \in Nat
      BY <1>3, <1>4 DEF Ac3Behind
    <3> QED
      BY <1>2, <1>5, <3>1
  <2>2. out' <= buf'
    BY <1>1, <1>2, <1>5
  <2> QED
    BY <1>1, <1>2, <1>3, <1>5, <2>1, <2>2 DEF Ac3Tells
<1>6. CASE Ac3Syncs
  <2>1. out' \in out..tail /\ out' = out + 1 /\ s'.pay = << >> /\ turn' = "frame"
    BY <1>1, <1>2, <1>6 DEF Ac3Syncs, Ac3Held
  <2>2. ASSUME ~ret PROVE Ac3Elsewhere(H, crossed, out', s')
    <3> SUFFICES ASSUME NEW k \in 1..crossed PROVE H[k] + 2 + Len(s'.pay) # out'
      BY DEF Ac3Elsewhere
    <3>1. Ac3E(w)[H[k]] <= out
      BY <1>3, <2>2 DEF Ac3Behind
    <3>2. Len(s'.pay) = 0
      BY <2>1
    <3> QED
      BY <1>2, <1>4, <2>1, <3>1, <3>2
  <2> QED
    BY <1>5, <2>1, <2>2
<1>7. CASE Ac3Takes
  <2>1. PICK d \in Nat : out' = out + d /\ out + d <= tail /\ Taken(s.pay, s'.pay, w, out, d)
    BY <1>7 DEF Ac3Takes
  <2>2. out' \in out..tail /\ turn' = "frame" /\ Len(s'.pay) = l + d /\ s.sync = Ac3!Magic
    BY <1>1, <1>2, <1>7, <2>1 DEF Ac3Takes, Taken
  <2>3. ASSUME ~ret PROVE Ac3Elsewhere(H, crossed, out', s')
    <3> SUFFICES ASSUME NEW k \in 1..crossed PROVE H[k] + 2 + Len(s'.pay) # out'
      BY DEF Ac3Elsewhere
    <3>1. H[k] + 2 + l # out
      BY <1>3, <2>2, <2>3 DEF Ac3Elsewhere
    <3>2. H[k] \in Nat
      BY <1>4
    <3>3. l \in Nat /\ out \in Nat /\ d \in Nat
      BY <1>2
    <3> HIDE DEF l
    <3>4. H[k] + 2 + (l + d) # out + d
      BY <3>1, <3>2, <3>3
    <3> QED
      BY <2>1, <2>2, <3>4
  <2> QED
    BY <1>5, <2>2, <2>3
<1>8. CASE Ac3Parses
  <2>1. out' \in out..tail /\ turn' = "frame" /\ out' = out /\ s'.pay = s.pay /\ s'.sync = s.sync
    BY <1>1, <1>2, <1>8 DEF Ac3Parses
  <2> QED
    BY <1>3, <1>5, <2>1 DEF Ac3Elsewhere
<1>9. ASSUME Ac3Reset(s') PROVE Ac3Elsewhere(H, crossed, out', s') /\ ~Ac3Done(s')
  BY <1>9 DEF Ac3Reset, Ac3Elsewhere, Ac3Done, Ac3!None, Ac3!Magic
<1>10. CASE Ac3Skips
  BY <1>1, <1>2, <1>5, <1>9, <1>10 DEF Ac3Skips
<1>11. CASE Ac3Ends
  BY <1>1, <1>2, <1>5, <1>9, <1>11 DEF Ac3Ends
<1>12. CASE Ac3Returns
  BY <1>1, <1>2, <1>3, <1>5, <1>12 DEF Ac3Returns, Ac3Elsewhere
<1> QED
  BY <1>1, <1>6, <1>7, <1>8, <1>10, <1>11, <1>12

\* A frame the scanner has in full: it ends where the scanner is.
LEMMA Ac3FullEnds ==
  ASSUME Ac3Inv, Ac3Held, Ac3Fit(stream), Ac3Full
  PROVE  \E j \in Ac3Y(stream) : /\ j \in Nat /\ Ac3Z(stream, j) \in Nat /\ Ac3Z(stream, j) > 5
                                 /\ out = j + Ac3Z(stream, j) /\ out = j + 2 + Len(s.pay)
                                 /\ Ac3E(stream)[j] = out /\ Ac3Taking(stream, j, out, s)
                                 /\ Len(s.pay) + 2 = Ac3Z(stream, j)
<1> DEFINE w == stream
           l == Len(s.pay)
<1>1. /\ w \in Seq(Ac3Byte) /\ Len(w) \in Nat /\ out \in Nat /\ out <= Len(w)
      /\ l \in Nat /\ s.size \in Nat /\ l + 2 <= (IF s.size > 6 THEN s.size ELSE 6)
  BY Ac3Sent DEF Ac3Inv, Ac3Places, Ac3Scan, Ac3Scanned
<1>2. s.sync = Ac3!Magic /\ s.size # 0 /\ l + 2 >= 6 /\ l + 2 >= s.size
  BY DEF Ac3Full, Ac3!Fits, Ac3!HeadKnown, Ac3!Pos
<1>3. PICK j \in Ac3Y(w) : Ac3Taking(w, j, out, s)
  BY <1>2 DEF Ac3Held
<1>4. j \in Nat /\ out = j + 2 + l /\ s.size = Ac3Z(w, j)
  BY <1>1, <1>2, <1>3, Ac3YNat DEF Ac3Taking
<1>5. Ac3Z(w, j) \in Nat /\ Ac3Z(w, j) > 5 /\ Ac3E(w)[j] = j + Ac3Z(w, j)
  <2>1. j + 5 <= Len(w)
    <3> HIDE DEF l
    <3> QED
      BY <1>1, <1>2, <1>4
  <2> QED
    BY <1>1, <1>3, <1>4, <2>1, Ac3ZNat DEF Ac3Fit
<1>6. l + 2 = Ac3Z(w, j) /\ out = j + Ac3Z(w, j)
  <2> HIDE DEF l
  <2> QED
    BY <1>1, <1>2, <1>4, <1>5
<1> QED
  BY <1>3, <1>4, <1>5, <1>6

LEMMA Ac3TellsRet ==
  ASSUME Ac3Inv, Ac3Held, Ac3Fit(stream), Ac3Apart(stream), NEW H, Ac3Tells(H),
         turn = "frame", Ac3Full
  PROVE  ret
<1> SUFFICES ASSUME ~ret PROVE FALSE
  OBVIOUS
<1> DEFINE w == stream
           l == Len(s.pay)
           b == From(Ac3E(w), H, crossed)
<1>1. /\ w \in Seq(Ac3Byte) /\ Len(w) \in Nat /\ buf \in Nat /\ out \in Nat /\ buf <= Len(w)
      /\ l \in Nat
  BY Ac3Sent DEF Ac3Inv, Ac3Places, Ac3Scan, Ac3Scanned
<1>2. /\ Heads(Ac3Y(w), Ac3E(w), H) /\ Ac3CountOK(w, H, buf, c, crossed) /\ crossed \in Nat
      /\ Ac3Covers(Ac3Y(w), Ac3E(w), H, crossed) /\ out <= buf
      /\ Ac3Elsewhere(H, crossed, out, s)
      /\ c.bfound >= 5 => c.bfound < c.fsize
  BY DEF Ac3Tells, Ac3CountOK
<1>3. PICK j \in Ac3Y(w) : /\ j \in Nat /\ Ac3Z(w, j) \in Nat /\ Ac3Z(w, j) > 5
                           /\ out = j + Ac3Z(w, j) /\ out = j + 2 + l
  BY Ac3FullEnds
<1>4. ASSUME j < b PROVE FALSE
  <2>1. PICK k \in 1..crossed : H[k] = j
    BY <1>2, <1>4 DEF Ac3Covers
  <2>2. H[k] + 2 + l # out
    BY <1>2, <2>1 DEF Ac3Elsewhere, Ac3Full, Ac3!Fits, Ac3!HeadKnown
  <2> QED
    BY <1>3, <2>1, <2>2
<1>5. CASE c.sync # Ac3!Magic
  <2>1. Ac3Seek(w, b, buf, c.sync)
    BY <1>2, <1>5 DEF Ac3CountOK
  <2>2. b \in Nat
    BY <2>1 DEF Ac3Seek
  <2> HIDE DEF b
  <2>3. j \in b..buf - 2
    BY <1>1, <1>2, <1>3, <1>4, <2>2
  <2> QED
    BY <1>3, <2>1, <2>3 DEF Ac3Seek
<1>6. CASE c.sync = Ac3!Magic
  <2> DEFINE h == H[crossed + 1]
  <2>1. crossed < Len(H)
    BY <1>2, <1>6 DEF Ac3CountOK
  <2>2. h \in Nat /\ h \in Ac3Y(w) /\ Found(Ac3Y(w), b, h)
    BY <1>1, <1>2, <2>1, HeadPlace, Ac3YNat
  <2>3. ~(h + 5 <= buf /\ Ac3E(w)[h] <= buf)
    <3> SUFFICES ASSUME h + 5 <= buf /\ Ac3E(w)[h] <= buf PROVE FALSE
      OBVIOUS
    <3>1. Ac3Count(c)
      BY DEF Ac3Inv, Ac3Counter, Ac3Count
    <3>2. crossed + 1 <= crossed
      BY <1>1, <1>2, <2>1, <3>1, Ac3Passed
    <3> QED
      BY <1>2, <3>2
  <2>4. b \in Nat
    <3>1. CASE crossed = 0
      BY <3>1 DEF From
    <3>2. CASE crossed # 0
      <4>1. crossed \in 1..crossed /\ crossed \in 1..Len(H) /\ H \in Seq(Nat)
        BY <1>2, <2>1, <3>2 DEF Heads
      <4>2. H[crossed] \in Nat /\ H[crossed] + 5 <= buf
        BY <1>2, <4>1 DEF Ac3CountOK
      <4>3. H[crossed] + 5 <= Len(w)
        BY <1>1, <4>2
      <4>4. Ac3E(w)[H[crossed]] \in Nat
        BY <1>1, <4>2, <4>3, Ac3ZNat
      <4> QED
        BY <3>2, <4>4 DEF From
    <3> QED
      BY <3>1, <3>2
  <2> HIDE DEF b, h
  <2>5. j >= h
    <3>1. j \notin b..h - 1
      BY <1>3, <2>2 DEF Found
    <3> QED
      BY <1>3, <1>4, <2>2, <2>4, <3>1
  <2>6. h + 5 <= buf
    BY <1>1, <1>2, <1>3, <2>2, <2>5
  <2>7. Ac3E(w)[h] = h + Ac3Z(w, h) /\ Ac3Z(w, h) \in Nat
    <3>1. h + 5 <= Len(w)
      BY <1>1, <2>2, <2>6
    <3> QED
      BY <1>1, <2>2, <3>1, Ac3ZNat
  <2>8. h + Ac3Z(w, h) <= buf
    <3>1. CASE h = j
      BY <1>2, <1>3, <3>1
    <3>2. CASE h < j
      <4>1. h + Ac3Z(w, h) <= j
        BY <1>3, <2>2, <3>2 DEF Ac3Apart
      <4> QED
        BY <1>1, <1>2, <1>3, <2>2, <2>7, <4>1
    <3> QED
      BY <1>3, <2>2, <2>5, <3>1, <3>2
  <2> QED
    BY <2>3, <2>6, <2>7, <2>8
<1> QED
  BY <1>5, <1>6

\* Where a frame begins, or the stream ends.
Ac3Border(w, b) == b = Len(w) \/ (b \in 0..Len(w) - 1 /\ w[b + 1].i = 0)
Ac3AllSound == \A n \in Ac3!FrameNo : Ac3!Sound(n)
\* A sound frame of number n, and what follows.
Ac3SoundAt(w, b, n) ==
    /\ b \in Ac3Y(w) /\ b + 5 <= Len(w) /\ Ac3Z(w, b) \in Nat /\ Ac3Z(w, b) > 5
    /\ b + Ac3Z(w, b) <= Len(w) /\ Ac3!FreqOf(w[b + 5]) = Rate
    /\ \A k \in 1..Ac3Z(w, b) : w[b + k].f = n /\ w[b + k].i = k - 1 /\ w[b + k].ok
    /\ \A k \in b + Ac3Z(w, b) + 1..Len(w) : n < w[k].f
    /\ Ac3Border(w, b + Ac3Z(w, b))

LEMMA Ac3SoundPlaces ==
  ASSUME Ac3Inv, NEW n, NEW j \in Ac3!Starts, Ac3!WholeAt(n, j), Ac3!FreqOf(Ac3!Code(j)) = Rate,
         \A k \in Ac3!Places(n) : stream[k].ok
  PROVE  /\ j \in Nat /\ j + 5 <= Len(stream) /\ j \in Ac3Y(stream)
         /\ Ac3Z(stream, j) \in Nat /\ Ac3Z(stream, j) > 5 /\ j + Ac3Z(stream, j) <= Len(stream)
         /\ \A k \in 1..Len(stream) : stream[k].f = n <=> k \in j + 1..j + Ac3Z(stream, j)
         /\ \A k \in 1..Ac3Z(stream, j) :
               stream[j + k].f = n /\ stream[j + k].i = k - 1 /\ stream[j + k].ok
<1> DEFINE w == stream
           z == Ac3Z(w, j)
<1>1. w \in Seq(Ac3Byte) /\ Len(w) \in Nat
  BY Ac3Sent DEF Ac3Inv, Ac3Places
<1>2. j \in Nat /\ j + 5 <= Len(w)
  BY <1>1 DEF Ac3!Starts
<1>3. j \in Ac3Y(w)
  BY <1>1, <1>2 DEF Ac3!WholeAt, Ac3!SyncAt, Ac3Y
<1>4. z \in Nat /\ z > 5
  BY <1>1, <1>2, Ac3ZNat DEF Ac3!WholeAt, Ac3!Code, Ac3Z
<1>5. Ac3!Places(n) = j + 1..j + z
  BY DEF Ac3!WholeAt, Ac3!Code, Ac3Z
<1> HIDE DEF z
<1>6. \A k \in 1..Len(w) : w[k].f = n <=> k \in j + 1..j + z
  BY <1>5 DEF Ac3!Places
<1>7. j + z <= Len(w)
  <2>1. j + z \in j + 1..j + z
    BY <1>2, <1>4
  <2>2. j + z \in 1..Len(w)
    BY <1>5, <2>1 DEF Ac3!Places
  <2> QED
    BY <1>1, <2>2
<1>8. ASSUME NEW k \in 1..z PROVE w[j + k].f = n /\ w[j + k].i = k - 1 /\ w[j + k].ok
  <2>1. j + k \in Ac3!Places(n)
    BY <1>2, <1>4, <1>5
  <2>2. w[j + k].i = (j + k) - j - 1
    BY <2>1 DEF Ac3!WholeAt
  <2>3. (j + k) - j - 1 = k - 1
    BY <1>2
  <2> QED
    BY <2>1, <2>2, <2>3 DEF Ac3!Places
<1> QED
  BY <1>2, <1>3, <1>4, <1>6, <1>7, <1>8 DEF z

LEMMA Ac3SoundFrom ==
  ASSUME Ac3Inv, Ac3AllSound, NEW b \in Nat, Ac3Border(stream, b), b < Len(stream)
  PROVE  \E n \in Nat : Ac3SoundAt(stream, b, n)
<1> DEFINE w == stream
           n == w[b + 1].f
           z == Ac3Z(w, b)
<1>1. /\ w \in Seq(Ac3Byte) /\ Len(w) \in Nat /\ \A k \in 1..Len(w) : w[k].f \in Nat
      /\ \A j, k \in 1..Len(w) : j <= k => w[j].f <= w[k].f
  BY Ac3Sent DEF Ac3Inv, Ac3Places
<1>2. b + 1 \in 1..Len(w) /\ w[b + 1].i = 0
  BY <1>1 DEF Ac3Border
<1>3. ASSUME NEW k \in 1..Len(w)
      PROVE  \E j \in Ac3!Starts : Ac3!WholeAt(w[k].f, j) /\ Ac3!FreqOf(Ac3!Code(j)) = Rate
                                   /\ \A i \in Ac3!Places(w[k].f) : stream[i].ok
  BY <1>3 DEF Ac3AllSound, Ac3!FrameNo, Ac3!Sound
<1>4. PICK j \in Ac3!Starts : Ac3!WholeAt(n, j) /\ Ac3!FreqOf(Ac3!Code(j)) = Rate
                              /\ \A i \in Ac3!Places(n) : stream[i].ok
  BY <1>2, <1>3
<1>5. /\ j \in Nat /\ b + 1 \in j + 1..j + Ac3Z(w, j) /\ Ac3Z(w, j) \in Nat
      /\ \A k \in 1..Ac3Z(w, j) : w[j + k].i = k - 1
  BY <1>2, <1>4, Ac3SoundPlaces
<1>6. j = b
  <2>1. b + 1 - j \in 1..Ac3Z(w, j) /\ j + (b + 1 - j) = b + 1
    BY <1>5
  <2>2. w[j + (b + 1 - j)].i = (b + 1 - j) - 1
    BY <1>5, <2>1
  <2> QED
    BY <1>2, <1>5, <2>1, <2>2
<1>7. /\ b + 5 <= Len(w) /\ b \in Ac3Y(w) /\ z \in Nat /\ z > 5 /\ b + z <= Len(w)
      /\ \A k \in 1..Len(w) : w[k].f = n <=> k \in b + 1..b + z
      /\ \A k \in 1..z : w[b + k].f = n /\ w[b + k].i = k - 1 /\ w[b + k].ok
  BY <1>4, <1>6, Ac3SoundPlaces
<1>8. Ac3!FreqOf(w[b + 5]) = Rate
  BY <1>4, <1>6 DEF Ac3!Code
<1>9. n \in Nat
  BY <1>1, <1>2
<1> HIDE DEF n, z
<1>10. \A k \in b + z + 1..Len(w) : n < w[k].f
  <2> SUFFICES ASSUME NEW k \in b + z + 1..Len(w) PROVE n < w[k].f
    OBVIOUS
  <2>1. k \in 1..Len(w) /\ b + 1 <= k /\ ~(k \in b + 1..b + z)
    BY <1>1, <1>7
  <2>2. n <= w[k].f /\ w[k].f # n /\ w[k].f \in Nat
    BY <1>1, <1>2, <1>7, <2>1 DEF n
  <2> QED
    BY <1>9, <2>2
<1>11. Ac3Border(w, b + z)
  <2>1. CASE b + z = Len(w)
    BY <2>1 DEF Ac3Border
  <2>2. CASE b + z # Len(w)
    <3> DEFINE e == b + z
               m == w[e + 1].f
    <3>1. e \in Nat /\ e < Len(w) /\ e + 1 \in 1..Len(w) /\ e \in 1..Len(w) /\ e \in b + 1..b + z
      BY <1>1, <1>7, <2>2
    <3>2. PICK i \in Ac3!Starts : Ac3!WholeAt(m, i) /\ Ac3!FreqOf(Ac3!Code(i)) = Rate
                                  /\ \A k \in Ac3!Places(m) : stream[k].ok
      BY <1>3, <3>1
    <3>3. /\ i \in Nat /\ Ac3Z(w, i) \in Nat /\ e + 1 \in i + 1..i + Ac3Z(w, i)
          /\ \A k \in 1..Len(w) : w[k].f = m <=> k \in i + 1..i + Ac3Z(w, i)
          /\ \A k \in 1..Ac3Z(w, i) : w[i + k].i = k - 1
      <4>1. /\ i \in Nat /\ Ac3Z(w, i) \in Nat
            /\ \A k \in 1..Len(w) : w[k].f = m <=> k \in i + 1..i + Ac3Z(w, i)
            /\ \A k \in 1..Ac3Z(w, i) : w[i + k].i = k - 1
        BY <3>2, Ac3SoundPlaces
      <4> QED
        BY <3>1, <4>1
    <3>4. w[e].f = n /\ w[e + 1].f # n
      <4>1. ~(e + 1 \in b + 1..b + z)
        BY <1>7
      <4> QED
        BY <1>7, <3>1, <4>1
    <3> HIDE DEF e
    <3>5. i = e
      <4>1. CASE i < e
        <5>1. e \in i + 1..i + Ac3Z(w, i)
          BY <3>1, <3>3, <4>1
        <5>2. w[e].f = m
          BY <3>1, <3>3, <5>1
        <5> QED
          BY <3>4, <5>2
      <4>2. CASE ~(i < e)
        BY <3>1, <3>3, <4>2
      <4> QED
        BY <4>1, <4>2
    <3>6. 1 \in 1..Ac3Z(w, i)
      BY <3>1, <3>3
    <3>7. w[e + 1].i = 0
      BY <3>3, <3>5, <3>6
    <3> QED
      BY <1>1, <3>1, <3>7 DEF Ac3Border, e
  <2> QED
    BY <2>1, <2>2
<1>12. Ac3SoundAt(w, b, n)
  BY <1>7, <1>8, <1>10, <1>11 DEF Ac3SoundAt, z
<1> QED
  BY <1>9, <1>12

LEMMA Ac3SoundStart ==
  ASSUME Ac3Inv, Ac3AllSound PROVE Ac3Border(stream, 0)
<1>1. Len(stream) \in Nat
  BY Ac3Sent DEF Ac3Inv, Ac3Places
<1>2. CASE Len(stream) = 0
  BY <1>2 DEF Ac3Border
<1>3. CASE Len(stream) # 0
  <2>1. 1 \in 1..Len(stream)
    BY <1>1, <1>3
  <2>2. PICK j \in Ac3!Starts : /\ Ac3!WholeAt(stream[1].f, j)
                                /\ Ac3!FreqOf(Ac3!Code(j)) = Rate
                                /\ \A i \in Ac3!Places(stream[1].f) : stream[i].ok
    BY <2>1 DEF Ac3AllSound, Ac3!FrameNo, Ac3!Sound
  <2>3. /\ j \in Nat /\ Ac3Z(stream, j) \in Nat /\ 1 \in j + 1..j + Ac3Z(stream, j)
        /\ \A k \in 1..Ac3Z(stream, j) : stream[j + k].i = k - 1
    BY <2>1, <2>2, Ac3SoundPlaces
  <2>4. j = 0 /\ 1 \in 1..Ac3Z(stream, j)
    BY <2>3
  <2>5. stream[1].i = 0
    BY <2>3, <2>4
  <2> QED
    BY <1>1, <2>1, <2>5 DEF Ac3Border
<1> QED
  BY <1>2, <1>3

\* When all frames are sound the scanner is in a frame, or where one begins,
\* all before it was played, and all that is to come is of a later frame.
Ac3Played(n) == \E k \in 1..Len(heard) : heard[k] = n
Ac3Rising == \A k \in 1..Len(heard) - 1 : heard[k] < heard[k + 1]
Ac3InPhase(b) ==
    /\ b \in Nat /\ b <= out /\ Ac3Border(stream, b) /\ Ac3Rising
    /\ IF s.sync = Ac3!Magic
       THEN b < Len(stream) /\ Ac3Taking(stream, b, out, s)
       ELSE s.pay = << >> /\ s.size = 0 /\ Ac3Seek(stream, b, out, s.sync)
    /\ \A k \in b + 1..Len(stream) : last < stream[k].f
    /\ \A k \in 1..b : Ac3Played(stream[k].f)
    /\ turn = "idle" => out = tail /\ ~Ac3Done(s)
Ac3Phase == Ac3AllSound => \E b : Ac3InPhase(b)

LEMMA Ac3StartPhase ==
  Ac3Inv /\ out = 0 /\ tail = 0 /\ s = Ac3!ScanReset /\ last = 0 /\ heard = << >> => Ac3Phase
<1> SUFFICES ASSUME Ac3Inv, out = 0, tail = 0, s = Ac3!ScanReset, last = 0, heard = << >>,
                    Ac3AllSound
             PROVE  Ac3InPhase(0)
  BY DEF Ac3Phase
<1>1. /\ stream \in Seq(Ac3Byte) /\ Len(stream) \in Nat
      /\ \A k \in 1..Len(stream) : stream[k] \in Ac3Byte
  BY Ac3Sent DEF Ac3Inv, Ac3Places
<1>2. Ac3Border(stream, 0)
  BY Ac3SoundStart
<1>3. Ac3Seek(stream, 0, 0, Ac3!None) /\ Ac3!None # Ac3!Magic
  BY Ac3SeekNew DEF Ac3!None, Ac3!Magic
<1>4. \A k \in 0 + 1..Len(stream) : last < stream[k].f
  <2> SUFFICES ASSUME NEW k \in 1..Len(stream) PROVE 0 < stream[k].f
    OBVIOUS
  <2>1. stream[k].f \in Nat \ {0}
    BY <1>1 DEF Ac3Byte
  <2> QED
    BY <2>1
<1>5. Ac3Rising
  BY DEF Ac3Rising
<1> QED
  BY <1>2, <1>3, <1>4, <1>5 DEF Ac3InPhase, Ac3Done, Ac3!ScanReset

LEMMA Ac3FramePhase ==
  ASSUME Ac3Inv, Ac3Inv', Ac3AllSound, NEW b, Ac3InPhase(b), Ac3!Frame
  PROVE  \E d : Ac3InPhase(d)'
<1> DEFINE w == stream
           z == Ac3Z(w, b)
<1>1. /\ w \in Seq(Ac3Byte) /\ Len(w) \in Nat /\ out \in Nat /\ tail \in Nat /\ out <= tail
      /\ tail <= Len(w) /\ s.pay \in Seq(Ac3Byte) /\ Len(s.pay) \in Nat
      /\ s \in Ac3Scanned(s.sync) /\ s.size \in Nat
  BY Ac3Sent DEF Ac3Inv, Ac3Places, Ac3Scan, Ac3Scanned
<1>2. UNCHANGED <<stream, tail>> /\ turn = "frame"
  BY Ac3Kinds
<1>3. /\ b \in Nat /\ b <= out /\ Ac3Border(w, b) /\ Ac3Rising
      /\ \A k \in b + 1..Len(w) : last < w[k].f
  BY DEF Ac3InPhase
<1>4. ASSUME UNCHANGED heard PROVE \A k \in 1..b : Ac3Played(w[k].f)'
  BY <1>2, <1>4 DEF Ac3InPhase, Ac3Played
<1>5. ASSUME b < Len(w)
      PROVE  \E n \in Nat : Ac3SoundAt(w, b, n)
  BY <1>3, <1>5, Ac3SoundFrom
<1>6. ASSUME s.sync = Ac3!Magic PROVE b < Len(w) /\ Ac3Taking(w, b, out, s)
  BY <1>6 DEF Ac3InPhase
<1>7. CASE Ac3Syncs
  <2>1. s.pay = << >> /\ s.size = 0 /\ Ac3Seek(w, b, out, s.sync) /\ b < Len(w) /\ out < Len(w)
    BY <1>1, <1>3, <1>7 DEF Ac3InPhase, Ac3Syncs
  <2>2. /\ s'.sync = <<s.sync[2], w[out + 1].v>> /\ out' = out + 1
        /\ s'.pay = << >> /\ s'.size = 0 /\ last' = last /\ heard' = heard
    BY <1>7, <2>1 DEF Ac3Syncs
  <2>3. /\ s'.sync = Ac3!Magic => Found(Ac3Y(w), b, out - 1)
        /\ s'.sync # Ac3!Magic => Ac3Seek(w, b, out + 1, s'.sync)
    BY <1>1, <1>3, <2>1, <2>2, Ac3SeekOn
  <2>4. Ac3Border(stream', b) /\ Ac3Rising' /\ (\A k \in b + 1..Len(stream') : last' < stream'[k].f)
        /\ b <= out'
    BY <1>1, <1>2, <1>3, <2>2 DEF Ac3Rising
  <2>5. CASE s'.sync = Ac3!Magic
    <3>1. b \in Ac3Y(w)
      BY <1>5, <2>1 DEF Ac3SoundAt
    <3>2. b <= out - 1 /\ \A j \in b..out - 1 - 1 : j \notin Ac3Y(w)
      BY <2>3, <2>5 DEF Found
    <3>3. b = out - 1
      <4>1. ASSUME b < out - 1 PROVE FALSE
        <5>1. b \in b..out - 1 - 1
          BY <1>1, <1>3, <4>1
        <5> QED
          BY <3>1, <3>2, <5>1
      <4> QED
        BY <1>1, <1>3, <3>2, <4>1
    <3>4. out + 1 = b + 2 /\ out + 1 = b + 2 + Len(s'.pay) /\ Slice(s'.pay, w, b + 2)
      BY <1>1, <1>3, <2>2, <3>3 DEF Slice
    <3>5. Ac3Taking(w, b, out + 1, s')
      BY <2>2, <3>4 DEF Ac3Taking
    <3> QED
      BY <1>2, <1>3, <1>4, <1>7, <2>1, <2>2, <2>4, <2>5, <3>5 DEF Ac3InPhase, Ac3Syncs
  <2>6. CASE s'.sync # Ac3!Magic
    BY <1>2, <1>3, <1>4, <1>7, <2>2, <2>3, <2>4, <2>6 DEF Ac3InPhase, Ac3Syncs
  <2> QED
    BY <2>5, <2>6
<1>8. CASE Ac3Takes
  <2>1. PICK d \in Nat : out' = out + d /\ Taken(s.pay, s'.pay, w, out, d)
    BY <1>8 DEF Ac3Takes
  <2>2. /\ s.sync = Ac3!Magic /\ s'.sync = s.sync /\ s'.size = s.size /\ s'.rate = s.rate
        /\ last' = last /\ heard' = heard /\ turn' = turn
    BY <1>8 DEF Ac3Takes
  <2>3. b < Len(w) /\ Ac3Taking(w, b, out, s)
    BY <1>6, <2>2
  <2>4. Ac3Taking(w, b, out + d, s')
    BY <1>1, <1>3, <2>1, <2>2, <2>3, Ac3TakingOn
  <2>5. b <= out'
    BY <1>1, <1>3, <2>1
  <2> QED
    BY <1>2, <1>3, <1>4, <2>1, <2>2, <2>3, <2>4, <2>5 DEF Ac3InPhase, Ac3Rising
<1>9. ASSUME s.sync = Ac3!Magic, Len(s.pay) >= 4 PROVE s.pay[3] = w[b + 5]
  <2>1. 3 \in 1..Len(s.pay) /\ b + 2 + 3 = b + 5
    BY <1>1, <1>3, <1>9
  <2>2. Slice(s.pay, w, b + 2)
    BY <1>6, <1>9 DEF Ac3Taking
  <2>3. s.pay[3] = w[b + 2 + 3]
    BY <2>1, <2>2 DEF Slice
  <2> QED
    BY <2>1, <2>3
<1>10. CASE Ac3Parses
  <2>1. s.pay[3] = w[b + 5] /\ b < Len(w) /\ Ac3Taking(w, b, out, s)
    BY <1>6, <1>9, <1>10 DEF Ac3Parses
  <2>2. Ac3Taking(w, b, out, s')
    BY <1>10, <2>1 DEF Ac3Taking, Ac3Parses, Ac3Z
  <2> QED
    BY <1>2, <1>3, <1>4, <1>10, <2>1, <2>2 DEF Ac3InPhase, Ac3Parses, Ac3Rising
<1>11. CASE Ac3Skips
  <2>1. s.sync = Ac3!Magic /\ Len(s.pay) >= 4 /\ (s.size = 0 => Ac3!SizeOf(s.pay[3]) = 0)
        /\ (s.size # 0 => s.rate # Rate)
    BY <1>11 DEF Ac3Skips
  <2>2. b < Len(w) /\ Ac3Taking(w, b, out, s) /\ s.pay[3] = w[b + 5]
    BY <1>6, <1>9, <2>1
  <2>3. PICK n \in Nat : Ac3SoundAt(w, b, n)
    BY <1>5, <2>2
  <2>4. z > 5 /\ Ac3!FreqOf(w[b + 5]) = Rate /\ z \in Nat
    BY <2>3 DEF Ac3SoundAt
  <2>5. z = Ac3!SizeOf(s.pay[3])
    BY <2>2 DEF Ac3Z
  <2>6. s.size # 0 => s.rate = Rate
    BY <2>2, <2>4 DEF Ac3Taking
  <2>7. s.size = 0 /\ z = 0
    BY <2>1, <2>5, <2>6
  <2> QED
    BY <2>4, <2>7
<1>12. CASE Ac3Ends
  <2>1. /\ Ac3Reset(s') /\ s.sync = Ac3!Magic /\ Len(s.pay) >= 4 /\ Len(s.pay) + 2 >= s.size
        /\ s.size # 0
    BY <1>1, <1>12 DEF Ac3Ends, Ac3Full, Ac3!Fits, Ac3!HeadKnown, Ac3!Pos
  <2>2. b < Len(w) /\ Ac3Taking(w, b, out, s)
    BY <1>6, <2>1
  <2>3. PICK n \in Nat : Ac3SoundAt(w, b, n)
    BY <1>5, <2>2
  <2>4. s.size = z /\ z \in Nat /\ z > 5 /\ out = b + 2 + Len(s.pay) /\ Slice(s.pay, w, b + 2)
    BY <2>1, <2>2, <2>3 DEF Ac3Taking, Ac3SoundAt
  <2>5. Len(s.pay) + 2 <= (IF s.size > 6 THEN s.size ELSE 6)
    BY DEF Ac3Inv, Ac3Scan
  <2>6. Len(s.pay) + 2 = z /\ out = b + z
    <3> DEFINE l == Len(s.pay)
    <3>1. /\ l \in Nat /\ l >= 4 /\ l + 2 >= s.size /\ out = b + 2 + l
          /\ l + 2 <= (IF s.size > 6 THEN s.size ELSE 6)
      BY <1>1, <2>1, <2>4, <2>5
    <3> HIDE DEF l, z
    <3>2. b + 2 + l = b + (l + 2)
      BY <1>3, <3>1
    <3>3. l + 2 = z
      BY <2>4, <3>1
    <3>4. l + 2 = z /\ out = b + z
      BY <3>1, <3>2, <3>3
    <3> QED
      BY <3>4 DEF l
  <2>7. ASSUME NEW k \in 1..Len(s.pay)
        PROVE  s.pay[k].f = n /\ s.pay[k].i = k + 1 /\ s.pay[k].ok
    <3>1. k + 2 \in 1..z /\ b + 2 + k = b + (k + 2) /\ (k + 2) - 1 = k + 1
      <4> DEFINE l == Len(s.pay)
      <4>1. l \in Nat /\ k \in 1..l /\ l + 2 = z
        BY <1>1, <2>6
      <4> HIDE DEF l, z
      <4> QED
        BY <1>3, <2>4, <4>1
    <3>2. s.pay[k] = w[b + (k + 2)]
      BY <2>4, <3>1 DEF Slice
    <3>3. w[b + (k + 2)].f = n /\ w[b + (k + 2)].i = (k + 2) - 1 /\ w[b + (k + 2)].ok
      BY <2>3, <3>1 DEF Ac3SoundAt
    <3> QED
      BY <3>1, <3>2, <3>3
  <2>8. s.pay[1].f = n /\ Ac3!CrcCheck
    <3>1. 1 \in 1..Len(s.pay)
      BY <1>1, <2>1
    <3> QED
      BY <2>7, <3>1 DEF Ac3!CrcCheck
  <2>9. last' = n /\ heard' = Append(heard, n) /\ out' = out /\ turn' = turn
    BY <1>12, <2>8 DEF Ac3Ends
  <2>10. last < n
    <3>1. b + 1 \in b + 1..Len(w) /\ 1 \in 1..z
      BY <1>1, <1>3, <2>2, <2>4
    <3>2. w[b + 1].f = n
      BY <2>3, <3>1 DEF Ac3SoundAt
    <3> QED
      BY <1>3, <3>1, <3>2
  <2>11. Ac3Rising'
    <3>1. heard \in Seq(Nat) /\ last \in Nat /\ (heard # << >> => heard[Len(heard)] = last)
      BY DEF Ac3Inv, Ac3Order
    <3>2. SUFFICES ASSUME NEW k \in 1..Len(heard') - 1 PROVE heard'[k] < heard'[k + 1]
      BY DEF Ac3Rising
    <3>3. Len(heard') = Len(heard) + 1 /\ Len(heard) \in Nat /\ heard'[Len(heard) + 1] = n
          /\ \A i \in 1..Len(heard) : heard'[i] = heard[i]
      BY <2>9, <3>1
    <3>4. CASE k = Len(heard)
      <4>1. heard # << >> /\ k \in 1..Len(heard)
        BY <3>1, <3>3, <3>4
      <4> QED
        BY <2>10, <3>1, <3>3, <3>4, <4>1
    <3>5. CASE k # Len(heard)
      <4>1. k \in 1..Len(heard) - 1 /\ k \in 1..Len(heard) /\ k + 1 \in 1..Len(heard)
        BY <3>2, <3>3, <3>5
      <4>2. heard[k] < heard[k + 1]
        BY <1>3, <4>1 DEF Ac3Rising
      <4> QED
        BY <3>3, <4>1, <4>2
    <3> QED
      BY <3>4, <3>5
  <2>12. Ac3Border(w, out) /\ \A k \in out + 1..Len(w) : n < w[k].f
    BY <2>3, <2>6 DEF Ac3SoundAt
  <2>13. Ac3Seek(w, out, out, Ac3!None) /\ Ac3!None # Ac3!Magic
    BY <1>1, Ac3SeekNew DEF Ac3!None, Ac3!Magic
  <2>14. ASSUME NEW k \in 1..out PROVE Ac3Played(w[k].f)'
    <3>1. heard \in Seq(Nat) /\ Len(heard) \in Nat
      BY DEF Ac3Inv, Ac3Order
    <3>2. /\ Len(heard') = Len(heard) + 1 /\ heard'[Len(heard) + 1] = n
          /\ \A i \in 1..Len(heard) : heard'[i] = heard[i]
      BY <2>9, <3>1
    <3>3. CASE k \in 1..b
      BY <1>2, <3>1, <3>2, <3>3 DEF Ac3InPhase, Ac3Played
    <3>4. CASE k \notin 1..b
      <4>1. k - b \in 1..z /\ b + (k - b) = k
        <5>1. out = b + z /\ z \in Nat /\ k \in 1..out /\ ~(k \in 1..b)
          BY <2>4, <2>6, <2>14, <3>4
        <5> HIDE DEF z
        <5> QED
          BY <1>3, <5>1
      <4>2. w[b + (k - b)].f = n
        BY <2>3, <4>1 DEF Ac3SoundAt
      <4> QED
        BY <1>2, <3>1, <3>2, <4>1, <4>2 DEF Ac3Played
    <3> QED
      BY <3>3, <3>4
  <2>15. Ac3InPhase(out)'
    BY <1>1, <1>2, <2>1, <2>9, <2>11, <2>12, <2>13, <2>14 DEF Ac3InPhase, Ac3Reset
  <2> QED
    BY <2>9, <2>15
<1>13. CASE Ac3Returns
  BY <1>1, <1>2, <1>4, <1>13 DEF Ac3Returns, Ac3InPhase, Ac3Rising, Ac3Done
<1> QED
  BY <1>7, <1>8, <1>10, <1>11, <1>12, <1>13, Ac3Kinds

LEMMA Ac3PhaseKeeps == Ac3Inv /\ Ac3Inv' /\ Ac3Phase /\ Ac3!Next => Ac3Phase'
<1> SUFFICES ASSUME Ac3Inv, Ac3Inv', Ac3Phase, Ac3!Next PROVE Ac3Phase'
  OBVIOUS
<1> DEFINE w == stream
<1>1. /\ w \in Seq(Ac3Byte) /\ Len(w) \in Nat /\ out \in Nat /\ tail \in Nat /\ out <= tail
      /\ tail <= Len(w) /\ s.pay \in Seq(Ac3Byte) /\ Len(s.pay) \in Nat
  BY Ac3Sent DEF Ac3Inv, Ac3Places, Ac3Scan, Ac3Scanned
<1>2. ASSUME stream' = stream PROVE Ac3AllSound' = Ac3AllSound
  BY <1>2 DEF Ac3AllSound, Ac3!FrameNo, Ac3!Sound, Ac3!Starts, Ac3!WholeAt, Ac3!Places,
              Ac3!Code, Ac3!SyncAt
<1>3. CASE UNCHANGED <<stream, out, s, last, heard>> /\ turn' # "idle"
  <2>1. SUFFICES ASSUME Ac3AllSound PROVE \E b : Ac3InPhase(b)'
    BY <1>2, <1>3, Zenon DEF Ac3Phase
  <2>2. PICK b : Ac3InPhase(b)
    BY <2>1 DEF Ac3Phase
  <2>3. Ac3InPhase(b)'
    BY <1>3, <2>2 DEF Ac3InPhase, Ac3Rising, Ac3Played
  <2> QED
    BY <2>3
<1>4. CASE Ac3!Clear
  <2>1. out' = 0 /\ tail' = 0 /\ s' = Ac3!ScanReset /\ last' = 0 /\ heard' = << >>
    BY <1>4 DEF Ac3!Clear, Ac3!Refeed
  <2>2. (Ac3Inv /\ out = 0 /\ tail = 0 /\ s = Ac3!ScanReset /\ last = 0 /\ heard = << >>
           => Ac3Phase)'
    BY Ac3StartPhase, PTL
  <2> QED
    BY <2>1, <2>2 DEF Ac3!ScanReset
<1>5. CASE Ac3!Frame
  <2>1. UNCHANGED <<stream, tail>>
    BY <1>5, Ac3Kinds
  <2>2. SUFFICES ASSUME Ac3AllSound PROVE \E b : Ac3InPhase(b)'
    BY <1>2, <2>1, Zenon DEF Ac3Phase
  <2>3. PICK b : Ac3InPhase(b)
    BY <2>2 DEF Ac3Phase
  <2> QED
    BY <1>5, <2>2, <2>3, Ac3FramePhase
<1>6. CASE Ac3!Feed
  BY <1>3, <1>6 DEF Ac3!Feed, Ac3!frameVars
<1>7. CASE Ac3!Count
  <2>1. UNCHANGED <<stream, out, s, last, heard>> /\ turn' # "idle"
    BY <1>7, Zenon DEF Ac3!Count, Ac3!CountSync, Ac3!CountFound, Ac3!CountSkip, Ac3!CountSize,
                Ac3!CountBody, Ac3!CountCross, Ac3!CountOut, Ac3!Counting, Ac3!frameVars
  <2> QED
    BY <1>3, <2>1
<1> QED
  BY <1>4, <1>5, <1>6, <1>7 DEF Ac3!Next

\* All of it.
Ac3Counts == Ac3!Intact => \E H : Ac3Tells(H)
Ac3Good == Ac3Inv /\ Ac3Held /\ Ac3Agree /\ Ac3Counts /\ Ac3Phase

LEMMA Ac3GoodStart == Ac3!Init => Ac3Good
<1> SUFFICES ASSUME Ac3!Init PROVE Ac3Good
  OBVIOUS
<1>1. Ac3Inv
  BY Ac3InitInv
<1>2. out = 0 /\ tail = 0 /\ s = Ac3!ScanReset /\ last = 0 /\ heard = << >>
  BY DEF Ac3!Init
<1>3. Ac3Held
  <2>1. Ac3Seek(stream, 0, 0, Ac3!None) /\ Ac3!None # Ac3!Magic
    BY Ac3SeekNew DEF Ac3!None, Ac3!Magic
  <2> QED
    BY <1>2, <2>1 DEF Ac3Held, Ac3!ScanReset
<1>4. Ac3Agree
  BY Ac3InitAgree
<1>5. Ac3Counts
  BY Ac3InitTells DEF Ac3Counts
<1>6. Ac3Phase
  BY <1>1, <1>2, Ac3StartPhase
<1> QED
  BY <1>1, <1>3, <1>4, <1>5, <1>6 DEF Ac3Good

\* What the properties ask of a stream, of the same stream.
LEMMA Ac3SameStream ==
  ASSUME stream' = stream
  PROVE  /\ Ac3!HeadsFit' = Ac3!HeadsFit /\ Ac3!Intact' = Ac3!Intact
         /\ Ac3!Sound(1)' = Ac3!Sound(1)
<1>1. Ac3!HeadsFit' = Ac3!HeadsFit
  BY DEF Ac3!HeadsFit, Ac3!Starts, Ac3!SyncAt, Ac3!Code
<1>2. Ac3!Intact' = Ac3!Intact
  BY DEF Ac3!Intact, Ac3!FrameNo, Ac3!Whole, Ac3!WholeAt, Ac3!Places, Ac3!Starts,
         Ac3!SyncAt, Ac3!Code
<1>3. Ac3!Sound(1)' = Ac3!Sound(1)
  BY DEF Ac3!Sound, Ac3!WholeAt, Ac3!Places, Ac3!Starts, Ac3!SyncAt, Ac3!Code
<1> QED
  BY <1>1, <1>2, <1>3

LEMMA Ac3AgreeKeeps == Ac3Inv /\ Ac3Agree /\ Ac3!Next => Ac3Agree'
<1> SUFFICES ASSUME Ac3Inv, Ac3Agree, Ac3!Next PROVE Ac3Agree'
  OBVIOUS
<1>1. CASE Ac3!Clear
  BY <1>1, Ac3ClearAgree DEF Ac3!Clear, Ac3!Refeed
<1>2. CASE ~Ac3!Clear
  <2>1. Ac3!Feed \/ Ac3!Count \/ Ac3!Frame
    BY <1>2 DEF Ac3!Next
  <2>2. stream' = stream
    <3>1. CASE Ac3!Feed
      BY <3>1 DEF Ac3!Feed
    <3>2. CASE Ac3!Count
      BY <3>2, Zenon DEF Ac3!Count, Ac3!CountSync, Ac3!CountFound, Ac3!CountSkip, Ac3!CountSize,
                  Ac3!CountBody, Ac3!CountCross, Ac3!CountOut, Ac3!Counting
    <3>3. CASE Ac3!Frame
      BY <3>3, Ac3Kinds
    <3> QED
      BY <2>1, <3>1, <3>2, <3>3
  <2>3. SUFFICES ASSUME Ac3!HeadsFit, Ac3!Sound(1) PROVE \E G : Ac3Agrees(G)'
    BY <2>2, Ac3SameStream DEF Ac3Agree
  <2>4. PICK H : Ac3Agrees(H)
    BY <2>3 DEF Ac3Agree
  <2>5. Ac3Fit(stream) /\ Ac3Own(stream)
    BY <2>3, Ac3StreamFits
  <2> QED
    BY <2>1, <2>3, <2>4, <2>5, Ac3FeedAgree, Ac3CountAgree, Ac3FrameAgree
<1> QED
  BY <1>1, <1>2

LEMMA Ac3CountsKeeps == Ac3Inv /\ Ac3Held /\ Ac3Counts /\ Ac3!Next => Ac3Counts'
<1> SUFFICES ASSUME Ac3Inv, Ac3Held, Ac3Counts, Ac3!Next PROVE Ac3Counts'
  OBVIOUS
<1>1. CASE Ac3!Clear
  <2>1. Ac3Tells(<< >>)'
    BY <1>1, Ac3ClearTells
  <2> QED
    BY <2>1 DEF Ac3Counts
<1>2. CASE ~Ac3!Clear
  <2>1. Ac3!Feed \/ Ac3!Count \/ Ac3!Frame
    BY <1>2 DEF Ac3!Next
  <2>2. stream' = stream
    <3>1. CASE Ac3!Feed
      BY <3>1 DEF Ac3!Feed
    <3>2. CASE Ac3!Count
      BY <3>2, Zenon DEF Ac3!Count, Ac3!CountSync, Ac3!CountFound, Ac3!CountSkip, Ac3!CountSize,
                  Ac3!CountBody, Ac3!CountCross, Ac3!CountOut, Ac3!Counting
    <3>3. CASE Ac3!Frame
      BY <3>3, Ac3Kinds
    <3> QED
      BY <2>1, <3>1, <3>2, <3>3
  <2>3. SUFFICES ASSUME Ac3!Intact PROVE \E G : Ac3Tells(G)'
    BY <2>2, Ac3SameStream DEF Ac3Counts
  <2>4. PICK H : Ac3Tells(H)
    BY <2>3 DEF Ac3Counts
  <2>5. Ac3Fit(stream) /\ Ac3Apart(stream)
    BY <2>3, Ac3WholeHeads DEF Ac3Apart
  <2> QED
    BY <2>1, <2>4, <2>5, Ac3FeedTells, Ac3CountTells, Ac3FrameTells
<1> QED
  BY <1>1, <1>2

LEMMA Ac3GoodKeeps == Ac3Good /\ Ac3!Next => Ac3Good'
<1> SUFFICES ASSUME Ac3Good, Ac3!Next PROVE Ac3Good'
  OBVIOUS
<1>1. Ac3Inv'
  BY Ac3Keeps DEF Ac3Good
<1> QED
  BY <1>1, Ac3HeldKeeps, Ac3AgreeKeeps, Ac3CountsKeeps, Ac3PhaseKeeps DEF Ac3Good

LEMMA Ac3GoodStays ==
  ASSUME Ac3Good, UNCHANGED <<stream, buf, out, tail, turn, s, c, ret, last, heard, crossed>>
  PROVE  Ac3Good'
<1>1. Ac3Inv'
  BY DEF Ac3Good, Ac3Inv, Ac3Places, Ac3Told, Ac3Scan, Ac3Counter, Ac3Order, Ac3!NeverBack
<1>2. Ac3Held'
  BY DEF Ac3Good, Ac3Held
<1>3. Ac3Agree'
  <2> SUFFICES ASSUME Ac3Agree PROVE Ac3Agree'
    BY DEF Ac3Good
  <2> QED
    BY Ac3SameStream DEF Ac3Agree, Ac3Agrees, Ac3Turns
<1>4. Ac3Counts'
  <2> SUFFICES ASSUME Ac3Counts PROVE Ac3Counts'
    BY DEF Ac3Good
  <2> QED
    BY Ac3SameStream DEF Ac3Counts, Ac3Tells
<1>5. Ac3Phase'
  <2> SUFFICES ASSUME Ac3Phase PROVE Ac3Phase'
    BY DEF Ac3Good
  <2>1. Ac3AllSound' = Ac3AllSound
    BY DEF Ac3AllSound, Ac3!FrameNo, Ac3!Sound, Ac3!Starts, Ac3!WholeAt, Ac3!Places,
           Ac3!Code, Ac3!SyncAt
  <2> QED
    BY <2>1 DEF Ac3Phase, Ac3InPhase, Ac3Rising, Ac3Played
<1> QED
  BY <1>1, <1>2, <1>3, <1>4, <1>5 DEF Ac3Good

\* At the end of a sound stream every frame was played.
LEMMA Ac3AllPlayed ==
  ASSUME Ac3Good, Ac3AllSound, Ac3!AllHeard PROVE Ac3!LostOnlyBehindDamage
<1> DEFINE w == stream
<1>1. PICK b : Ac3InPhase(b)
  BY DEF Ac3Good, Ac3Phase
<1>2. /\ w \in Seq(Ac3Byte) /\ Len(w) \in Nat /\ out = Len(w) /\ turn = "idle"
      /\ s.pay \in Seq(Ac3Byte) /\ Len(s.pay) \in Nat /\ s.size \in Nat /\ heard \in Seq(Nat)
  BY Ac3Sent DEF Ac3Good, Ac3Inv, Ac3Places, Ac3Scan, Ac3Scanned, Ac3Order, Ac3!AllHeard
<1>3. b \in Nat /\ b <= Len(w) /\ Ac3Border(w, b) /\ ~Ac3Done(s)
  BY <1>1, <1>2 DEF Ac3InPhase
<1>4. ASSUME b < Len(w) PROVE FALSE
  <2>1. PICK n \in Nat : Ac3SoundAt(w, b, n)
    BY <1>3, <1>4, Ac3SoundFrom DEF Ac3Good
  <2> DEFINE z == Ac3Z(w, b)
             l == Len(s.pay)
  <2>2. z \in Nat /\ z > 5 /\ b + z <= Len(w) /\ b \in Ac3Y(w)
    BY <2>1 DEF Ac3SoundAt
  <2>3. CASE s.sync = Ac3!Magic
    <3>1. /\ Len(w) = b + 2 + l /\ (s.size # 0 => s.size = z)
          /\ ~(l >= 4 /\ (s.size = 0 \/ l + 2 >= s.size)) /\ l \in Nat
      BY <1>1, <1>2, <1>3, <2>3 DEF Ac3InPhase, Ac3Taking, Ac3Done
    <3> HIDE DEF z, l
    <3> QED
      BY <1>2, <1>3, <2>2, <3>1
  <2>4. CASE s.sync # Ac3!Magic
    <3>1. \A j \in b..Len(w) - 2 : j \notin Ac3Y(w)
      BY <1>1, <1>2, <2>4 DEF Ac3InPhase, Ac3Seek
    <3>2. b \in b..Len(w) - 2
      <4> HIDE DEF z
      <4> QED
        BY <1>2, <1>3, <2>2
    <3> QED
      BY <2>2, <3>1, <3>2
  <2> QED
    BY <2>3, <2>4
<1>5. b = Len(w)
  BY <1>2, <1>3, <1>4
<1>6. ASSUME NEW n \in Ac3!FrameNo PROVE n \in Ac3!Range(heard)
  <2>1. PICK k \in 1..Len(w) : w[k].f = n
    BY DEF Ac3!FrameNo
  <2>2. Ac3Played(n)
    BY <1>1, <1>5, <2>1 DEF Ac3InPhase
  <2> QED
    BY <1>2, <2>2 DEF Ac3Played, Ac3!Range
<1> QED
  BY <1>6 DEF Ac3!LostOnlyBehindDamage

LEMMA Ac3GoodShows ==
  Ac3Good => Ac3!InOrder /\ Ac3!CountsAsFramed /\ Ac3!CrossedIsCounted
<1> SUFFICES ASSUME Ac3Good PROVE Ac3!InOrder /\ Ac3!CountsAsFramed /\ Ac3!CrossedIsCounted
  OBVIOUS
<1>1. Ac3!InOrder
  <2>1. ASSUME \A n \in Ac3!FrameNo : Ac3!Sound(n)
        PROVE  \A k \in 1..Len(heard) - 1 : heard[k] < heard[k + 1]
    <3>1. PICK b : Ac3InPhase(b)
      BY <2>1 DEF Ac3Good, Ac3Phase, Ac3AllSound
    <3> QED
      BY <3>1 DEF Ac3InPhase, Ac3Rising
  <2> QED
    BY <2>1 DEF Ac3Good, Ac3Inv, Ac3Order, Ac3!InOrder
<1>2. Ac3!CountsAsFramed
  BY DEF Ac3Good, Ac3Agree, Ac3Agrees, Ac3Turns, Ac3!CountsAsFramed
<1>3. Ac3!CrossedIsCounted
  <2> SUFFICES ASSUME turn = "frame", Ac3Full, (Ac3!HeadsFit /\ Ac3!Sound(1)) \/ Ac3!Intact
               PROVE  ret
    BY DEF Ac3!CrossedIsCounted, Ac3Full
  <2>1. CASE Ac3!HeadsFit /\ Ac3!Sound(1)
    <3>1. PICK H : Ac3Agrees(H)
      BY <2>1 DEF Ac3Good, Ac3Agree
    <3> QED
      BY <2>1, <3>1, Ac3StreamFits, Ac3FullTold DEF Ac3Good
  <2>2. CASE Ac3!Intact
    <3>1. PICK H : Ac3Tells(H)
      BY <2>2 DEF Ac3Good, Ac3Counts
    <3> QED
      BY <2>2, <3>1, Ac3WholeHeads, Ac3TellsRet DEF Ac3Good, Ac3Apart
  <2> QED
    BY <2>1, <2>2
<1> QED
  BY <1>1, <1>2, <1>3

-----------------------------------------------------------------------------
(* The DTS counter and scanner on their stream.                              *)

LEMMA Appended ==
  ASSUME NEW S, NEW t \in Seq(S), NEW v \in S
  PROVE  /\ Append(t, v) \in Seq(S) /\ Len(Append(t, v)) = Len(t) + 1
         /\ Append(t, v)[Len(t) + 1] = v /\ \A k \in 1..Len(t) : Append(t, v)[k] = t[k]
OBVIOUS

LEMMA SameBytes ==
  ASSUME NEW S, NEW t \in Seq(S), NEW u \in Seq(S), Len(t) = Len(u),
         \A k \in 1..Len(t) : t[k] = u[k]
  PROVE  t = u
OBVIOUS

LEMMA NextWord ==
  ASSUME NEW a, NEW b, NEW d, NEW e, NEW v
  PROVE  Append(Tail(<<a, b, d, e>>), v) = <<b, d, e, v>>
<1> DEFINE S == {a, b, d, e, v}
           t == Tail(<<a, b, d, e>>)
<1>1. v \in S /\ <<a, b, d, e>> \in Seq(S) /\ <<b, d, e, v>> \in Seq(S)
  OBVIOUS
<1> HIDE DEF S
<1>2. t \in Seq(S) /\ Len(t) = 3 /\ t[1] = b /\ t[2] = d /\ t[3] = e
  BY <1>1
<1> HIDE DEF t
<1> DEFINE r == Append(t, v)
           u == <<b, d, e, v>>
<1>3. r \in Seq(S) /\ Len(r) = Len(t) + 1 /\ r[Len(t) + 1] = v
      /\ \A k \in 1..Len(t) : r[k] = t[k]
  <2>1. t \in Seq(S) /\ v \in S
    BY <1>1, <1>2
  <2> QED
    BY <2>1, Appended
<1> HIDE DEF r
<1>4. Len(r) = 4 /\ r[1] = b /\ r[2] = d /\ r[3] = e /\ r[4] = v
  BY <1>2, <1>3
<1>5. u \in Seq(S) /\ Len(u) = 4 /\ u[1] = b /\ u[2] = d /\ u[3] = e /\ u[4] = v
  BY <1>1
<1> HIDE DEF u
<1>6. \A k \in 1..4 : r[k] = u[k]
  BY <1>4, <1>5
<1>7. r = u
  BY <1>3, <1>4, <1>5, <1>6, SameBytes
<1> QED
  BY <1>7 DEF r, u, t

\* As for AC3, with a sync word of four bytes and sizes of more than nine.
DtsY(w) == {j \in 0..Len(w) - 4 : <<w[j + 1].v, w[j + 2].v, w[j + 3].v, w[j + 4].v>> = Dts!Magic}
DtsZ(w, j) == Dts!SizeOf(w[j + 8])
DtsE(w) == [j \in Nat |-> j + DtsZ(w, j)]
DtsFit(w) == /\ \A k \in 1..Len(w) : w[k].z > 9 /\ w[k].r = Rate
             /\ \A j, k \in 1..Len(w) : w[k].z <= Dts!InfoOf(w[j]).burst

DtsWord(w, b, p) ==
    <<IF b <= p - 4 THEN w[p - 3].v ELSE "ff", IF b <= p - 3 THEN w[p - 2].v ELSE "ff",
      IF b <= p - 2 THEN w[p - 1].v ELSE "ff", IF b <= p - 1 THEN w[p].v ELSE "ff">>
DtsSeek(w, b, p, sync) ==
    /\ b \in 0..p /\ sync = DtsWord(w, b, p)
    /\ \A j \in b..p - 4 : j \notin DtsY(w)

DtsBursts == [f : Nat, pure : BOOLEAN, size : Nat]
DtsInFrame(w, h, p, x) ==
    /\ p = h + (IF x.bfound = 0 THEN 4 ELSE x.bfound) /\ x.bfound \notin 1..3
    /\ x.bfound >= 8 => x.fsize = DtsZ(w, h) /\ x.bfound <= x.fsize
DtsCountOK(w, H, p, x, n) ==
    /\ n \in Nat
    /\ \A k \in 1..n : H[k] + 8 <= p /\ DtsE(w)[H[k]] <= p
    /\ IF x.sync = Dts!Magic
       THEN Len(H) = n + 1 /\ DtsInFrame(w, H[n + 1], p, x)
       ELSE Len(H) = n /\ x.bfound = 0 /\ DtsSeek(w, From(DtsE(w), H, n), p, x.sync)

\* A frame that Frame() skips, whose size it keeps.
DtsMisses(y) == y.info.burst < y.size \/ y.info.rate # Rate
DtsTaking(w, h, p, y) ==
    /\ p = h + 4 + Len(y.pay) /\ Slice(y.pay, w, h + 4)
    /\ y.size # 0 /\ ~DtsMisses(y) => /\ Len(y.pay) >= 6 /\ y.size = DtsZ(w, h)
                                     /\ y.info = Dts!InfoOf(w[h + 9])
DtsScanOK(w, H, p, y, n) ==
    /\ y.size # 0 => ~DtsMisses(y)
    /\ IF y.sync = Dts!Magic
       THEN n < Len(H) /\ DtsTaking(w, H[n + 1], p, y)
       ELSE y.pay = << >> /\ y.size = 0 /\ n <= Len(H) /\ DtsSeek(w, From(DtsE(w), H, n), p, y.sync)

DtsDone(y) == /\ y.sync = Dts!Magic /\ Len(y.pay) >= 6
              /\ y.size = 0 \/ DtsMisses(y) \/ Len(y.pay) + 4 >= y.size
DtsTurns == /\ out <= buf /\ Len(heard) <= crossed
            /\ turn # "count" => buf = tail /\ (c.bfound >= 8 => c.bfound < c.fsize)
            /\ turn = "idle" => out = tail /\ crossed = Len(heard) /\ ~DtsDone(s)
DtsAgrees(H) == Heads(DtsY(stream), DtsE(stream), H) /\ DtsCountOK(stream, H, buf, c, crossed)
             /\ DtsScanOK(stream, H, out, s, Len(heard)) /\ DtsTurns

LEMMA DtsSeekNew ==
  ASSUME NEW w, NEW b \in Nat
  PROVE  DtsSeek(w, b, b, Dts!None)
BY DEF DtsSeek, DtsWord, Dts!None

LEMMA DtsNoMagic == \A x, y, z : <<"ff", x, y, z>> # Dts!Magic
BY DEF Dts!Magic

LEMMA DtsSeekOn ==
  ASSUME NEW w \in Seq(DtsByte), NEW b \in Nat, NEW p \in Nat, p < Len(w),
         NEW sync, DtsSeek(w, b, p, sync),
         NEW next, next = Append(Tail(sync), w[p + 1].v)
  PROVE  /\ next = Dts!Magic => Found(DtsY(w), b, p - 3)
         /\ next # Dts!Magic => DtsSeek(w, b, p + 1, next)
<1>1. b <= p /\ \A j \in b..p - 4 : j \notin DtsY(w)
  BY DEF DtsSeek
<1>2. next = <<IF b <= p - 3 THEN w[p - 2].v ELSE "ff", IF b <= p - 2 THEN w[p - 1].v ELSE "ff",
               IF b <= p - 1 THEN w[p].v ELSE "ff", w[p + 1].v>>
  <2>1. sync = <<IF b <= p - 4 THEN w[p - 3].v ELSE "ff", IF b <= p - 3 THEN w[p - 2].v ELSE "ff",
                 IF b <= p - 2 THEN w[p - 1].v ELSE "ff", IF b <= p - 1 THEN w[p].v ELSE "ff">>
    BY DEF DtsSeek, DtsWord
  <2> QED
    BY <2>1, NextWord
<1>3. next = DtsWord(w, b, p + 1)
  <2> DEFINE q == p + 1
  <2>1. q - 4 = p - 3 /\ q - 3 = p - 2 /\ q - 2 = p - 1 /\ q - 1 = p /\ b <= p /\ q = p + 1
    BY <1>1
  <2> HIDE DEF q
  <2>2. w[q] = w[p + 1] /\ w[q - 3] = w[p - 2] /\ w[q - 2] = w[p - 1] /\ w[q - 1] = w[p]
    BY <2>1
  <2>3. next = DtsWord(w, b, q)
    BY <1>2, <2>1, <2>2 DEF DtsWord
  <2> QED
    BY <2>3 DEF q
<1>4. next = Dts!Magic
        <=> b <= p - 3 /\ <<w[p - 2].v, w[p - 1].v, w[p].v, w[p + 1].v>> = Dts!Magic
  <2>1. CASE b <= p - 3
    <3>1. b <= p - 2 /\ b <= p - 1
      BY <2>1
    <3>2. next = <<w[p - 2].v, w[p - 1].v, w[p].v, w[p + 1].v>>
      BY <1>2, <2>1, <3>1
    <3> QED
      BY <2>1, <3>2
  <2>2. CASE ~(b <= p - 3)
    <3>1. PICK x, y, z : next = <<"ff", x, y, z>>
      <4> DEFINE x == IF b <= p - 2 THEN w[p - 1].v ELSE "ff"
                 y == IF b <= p - 1 THEN w[p].v ELSE "ff"
                 z == w[p + 1].v
      <4>1. next = <<IF b <= p - 3 THEN w[p - 2].v ELSE "ff", x, y, z>>
        BY <1>2
      <4> HIDE DEF x, y, z
      <4>2. next = <<"ff", x, y, z>>
        BY <2>2, <4>1
      <4> QED
        BY <4>2
    <3>2. next # Dts!Magic
      BY <3>1, DtsNoMagic
    <3> QED
      BY <2>2, <3>2
  <2> QED
    BY <2>1, <2>2
<1>5. ASSUME next = Dts!Magic PROVE Found(DtsY(w), b, p - 3)
  <2>1. /\ p - 3 \in 0..Len(w) - 4 /\ p - 3 + 1 = p - 2 /\ p - 3 + 2 = p - 1
        /\ p - 3 + 3 = p /\ p - 3 + 4 = p + 1
    BY <1>4, <1>5
  <2>2. p - 3 \in DtsY(w)
    BY <1>4, <1>5, <2>1 DEF DtsY
  <2>3. \A j \in b..p - 3 - 1 : j \notin DtsY(w)
    BY <1>1
  <2> QED
    BY <1>1, <1>4, <1>5, <2>2, <2>3 DEF Found
<1>6. ASSUME next # Dts!Magic PROVE DtsSeek(w, b, p + 1, next)
  <2>1. \A j \in b..p + 1 - 4 : j \notin DtsY(w)
    <3> SUFFICES ASSUME NEW j \in b..p - 3, j \in DtsY(w) PROVE FALSE
      OBVIOUS
    <3>1. j = p - 3 /\ b <= p - 3
      BY <1>1
    <3>2. j + 1 = p - 2 /\ j + 2 = p - 1 /\ j + 3 = p /\ j + 4 = p + 1
      BY <3>1
    <3>3. <<w[j + 1].v, w[j + 2].v, w[j + 3].v, w[j + 4].v>> = Dts!Magic
      BY DEF DtsY
    <3> QED
      BY <1>4, <1>6, <3>1, <3>2, <3>3
  <2> QED
    BY <1>1, <1>3, <2>1 DEF DtsSeek
<1> QED
  BY <1>5, <1>6

DtsCount(x) == x \in [sync : {x.sync}, bfound : Nat, fsize : Nat]

LEMMA DtsZNat ==
  ASSUME NEW w \in Seq(DtsByte), NEW h \in Nat, h + 8 <= Len(w)
  PROVE  /\ DtsZ(w, h) \in Nat /\ DtsE(w)[h] = h + DtsZ(w, h)
         /\ DtsFit(w) => DtsZ(w, h) > 9
<1>1. h + 8 \in 1..Len(w)
  OBVIOUS
<1>2. w[h + 8] \in DtsByte
  BY <1>1
<1>3. DtsFit(w) => DtsZ(w, h) > 9
  BY <1>1 DEF DtsFit, DtsZ, Dts!SizeOf
<1> QED
  BY <1>2, <1>3 DEF DtsZ, DtsE, DtsByte, Dts!SizeOf

LEMMA DtsTickSync ==
  ASSUME NEW w \in Seq(DtsByte), NEW H, Heads(DtsY(w), DtsE(w), H), NEW p \in Nat, p < Len(w),
         NEW x, DtsCount(x), NEW n, DtsCountOK(w, H, p, x, n), x.sync # Dts!Magic
  PROVE  LET y == [x EXCEPT !.sync = Append(Tail(@), w[p + 1].v)]
         IN \E G : /\ Heads(DtsY(w), DtsE(w), G) /\ DtsCountOK(w, G, p + 1, y, n)
                   /\ Grows(H, G)
<1> DEFINE next == Append(Tail(x.sync), w[p + 1].v)
           y == [x EXCEPT !.sync = Append(Tail(@), w[p + 1].v)]
           b == From(DtsE(w), H, n)
<1>1. n \in Nat /\ Len(H) = n /\ x.bfound = 0 /\ DtsSeek(w, b, p, x.sync)
      /\ H \in Seq(Nat) /\ \A k \in 1..n : H[k] + 8 <= p /\ DtsE(w)[H[k]] <= p
  BY DEF DtsCountOK, Heads
<1>2. b \in Nat /\ b <= p
  BY <1>1 DEF DtsSeek
<1>3. y.sync = next /\ y.bfound = 0
  BY <1>1 DEF DtsCount
<1>4. /\ next = Dts!Magic => Found(DtsY(w), b, p - 3)
      /\ next # Dts!Magic => DtsSeek(w, b, p + 1, next)
  <2> HIDE DEF b
  <2> QED
    BY <1>1, <1>2, DtsSeekOn
<1>5. \A k \in 1..n : H[k] \in Nat
  BY <1>1
<1> HIDE DEF next, y
<1>6. ASSUME next = Dts!Magic
      PROVE  \E G : /\ Heads(DtsY(w), DtsE(w), G) /\ DtsCountOK(w, G, p + 1, y, n)
                    /\ Grows(H, G)
  <2> DEFINE G == Append(H, p - 3)
  <2>1. p - 3 \in Nat
    BY <1>2, <1>4, <1>6 DEF Found
  <2>2. Found(DtsY(w), From(DtsE(w), H, Len(H)), p - 3)
    BY <1>1, <1>4, <1>6
  <2>3. Heads(DtsY(w), DtsE(w), G) /\ Len(G) = n + 1 /\ G[n + 1] = p - 3
        /\ \A k \in 1..n : G[k] = H[k]
    <3> DEFINE g == p - 3
    <3>1. g \in Nat /\ Found(DtsY(w), From(DtsE(w), H, Len(H)), g)
      BY <2>1, <2>2
    <3> HIDE DEF g
    <3>2. /\ Heads(DtsY(w), DtsE(w), Append(H, g)) /\ Len(Append(H, g)) = Len(H) + 1
          /\ Append(H, g)[Len(H) + 1] = g /\ \A k \in 1..Len(H) : Append(H, g)[k] = H[k]
      BY <1>1, <3>1, Ac3MoreHeads
    <3> QED
      BY <1>1, <3>2 DEF g
  <2> HIDE DEF G
  <2>4. DtsInFrame(w, p - 3, p + 1, y)
    BY <1>3 DEF DtsInFrame
  <2>5. \A k \in 1..n : G[k] + 8 <= p + 1 /\ DtsE(w)[G[k]] <= p + 1
    <3> SUFFICES ASSUME NEW k \in 1..n PROVE G[k] + 8 <= p + 1 /\ DtsE(w)[G[k]] <= p + 1
      OBVIOUS
    <3>1. H[k] + 8 <= p /\ DtsE(w)[H[k]] <= p /\ H[k] \in Nat /\ G[k] = H[k]
      BY <1>1, <1>5, <2>3
    <3>2. H[k] + 8 <= Len(w)
      BY <3>1
    <3>3. DtsE(w)[H[k]] \in Nat
      BY <3>1, <3>2, DtsZNat
    <3> QED
      BY <3>1, <3>3
  <2>6. DtsCountOK(w, G, p + 1, y, n)
    BY <1>1, <1>3, <1>6, <2>3, <2>4, <2>5 DEF DtsCountOK
  <2>7. Grows(H, G)
    BY <1>1, <2>3 DEF Grows
  <2> QED
    BY <2>3, <2>6, <2>7
<1>7. ASSUME next # Dts!Magic
      PROVE  \E G : /\ Heads(DtsY(w), DtsE(w), G) /\ DtsCountOK(w, G, p + 1, y, n)
                    /\ Grows(H, G)
  <2>1. \A k \in 1..n : H[k] + 8 <= p + 1 /\ DtsE(w)[H[k]] <= p + 1
    <3> SUFFICES ASSUME NEW k \in 1..n PROVE H[k] + 8 <= p + 1 /\ DtsE(w)[H[k]] <= p + 1
      OBVIOUS
    <3>1. H[k] + 8 <= p /\ DtsE(w)[H[k]] <= p /\ H[k] \in Nat
      BY <1>1, <1>5
    <3>2. H[k] + 8 <= Len(w)
      BY <3>1
    <3>3. DtsE(w)[H[k]] \in Nat
      BY <3>1, <3>2, DtsZNat
    <3> QED
      BY <3>1, <3>3
  <2>2. DtsCountOK(w, H, p + 1, y, n)
    BY <1>1, <1>3, <1>4, <1>7, <2>1 DEF DtsCountOK
  <2> QED
    BY <1>1, <2>2 DEF Grows
<1> QED
  BY <1>6, <1>7 DEF y

LEMMA DtsTickOther ==
  ASSUME NEW w \in Seq(DtsByte), DtsFit(w), NEW H, Heads(DtsY(w), DtsE(w), H),
         NEW p \in Nat, p <= Len(w),
         NEW x, DtsCount(x), NEW n, DtsCountOK(w, H, p, x, n), x.sync = Dts!Magic
  PROVE  /\ n \in Nat /\ Len(H) = n + 1 /\ H[n + 1] \in DtsY(w) /\ H[n + 1] \in Nat
         /\ p = H[n + 1] + (IF x.bfound = 0 THEN 4 ELSE x.bfound)
         /\ x.bfound \notin 1..3
         /\ x.bfound >= 8 =>
              /\ x.fsize = DtsZ(w, H[n + 1]) /\ x.bfound <= x.fsize
         /\ p > H[n + 1] + 7 =>
              /\ DtsZ(w, H[n + 1]) \in Nat /\ DtsZ(w, H[n + 1]) > 9
              /\ DtsE(w)[H[n + 1]] = H[n + 1] + DtsZ(w, H[n + 1])
<1> DEFINE h == H[n + 1]
<1>1. n \in Nat /\ Len(H) = n + 1 /\ DtsInFrame(w, h, p, x)
  BY DEF DtsCountOK
<1>2. h \in Nat /\ h \in DtsY(w)
  <2>1. n + 1 \in 1..Len(H) /\ H \in Seq(Nat)
    BY <1>1 DEF Heads
  <2> QED
    BY <2>1 DEF Heads, Found
<1> HIDE DEF h
<1>3. ASSUME p > h + 7
      PROVE  /\ DtsZ(w, h) \in Nat /\ DtsZ(w, h) > 9
             /\ DtsE(w)[h] = h + DtsZ(w, h)
  <2>1. h + 8 <= Len(w)
    BY <1>2, <1>3
  <2> QED
    BY <1>2, <2>1, DtsZNat DEF DtsFit
<1>4. x.bfound \in Nat
  BY DEF DtsCount
<1> QED
  BY <1>1, <1>2, <1>3, <1>4 DEF DtsInFrame, h

LEMMA DtsTickIn ==
  ASSUME NEW w \in Seq(DtsByte), NEW H, Heads(DtsY(w), DtsE(w), H), NEW p \in Nat, NEW q \in Nat,
         p <= q, q <= Len(w), NEW x, NEW n, DtsCountOK(w, H, p, x, n), x.sync = Dts!Magic,
         NEW y, y.sync = Dts!Magic, DtsInFrame(w, H[n + 1], q, y)
  PROVE  DtsCountOK(w, H, q, y, n)
<1>1. n \in Nat /\ Len(H) = n + 1 /\ H \in Seq(Nat)
  BY DEF DtsCountOK, Heads
<1>2. \A k \in 1..n : H[k] + 8 <= q /\ DtsE(w)[H[k]] <= q
  <2> SUFFICES ASSUME NEW k \in 1..n PROVE H[k] + 8 <= q /\ DtsE(w)[H[k]] <= q
    OBVIOUS
  <2>1. H[k] + 8 <= p /\ DtsE(w)[H[k]] <= p /\ H[k] \in Nat
    BY <1>1 DEF DtsCountOK
  <2>2. H[k] + 8 <= Len(w)
    BY <2>1
  <2>3. DtsE(w)[H[k]] \in Nat
    BY <2>1, <2>2, DtsZNat
  <2> QED
    BY <2>1, <2>3
<1> QED
  BY <1>1, <1>2 DEF DtsCountOK

LEMMA DtsTickCross ==
  ASSUME NEW w \in Seq(DtsByte), DtsFit(w), NEW H, Heads(DtsY(w), DtsE(w), H),
         NEW p \in Nat, p <= Len(w),
         NEW x, DtsCount(x), NEW n, DtsCountOK(w, H, p, x, n), x.sync = Dts!Magic,
         x.bfound >= 8, x.bfound >= x.fsize
  PROVE  DtsCountOK(w, H, p, [x EXCEPT !.bfound = 0, !.sync = Dts!None], n + 1)
<1> DEFINE y == [x EXCEPT !.bfound = 0, !.sync = Dts!None]
           h == H[n + 1]
<1>1. /\ n \in Nat /\ Len(H) = n + 1 /\ h \in Nat
      /\ p = h + (IF x.bfound = 0 THEN 4 ELSE x.bfound)
      /\ x.fsize = DtsZ(w, h) /\ x.bfound <= x.fsize
      /\ p > h + 7 => DtsZ(w, h) \in Nat /\ DtsZ(w, h) > 9 /\ DtsE(w)[h] = h + DtsZ(w, h)
  BY DtsTickOther
<1>2. x.bfound \in Nat /\ y.sync = Dts!None /\ y.bfound = 0 /\ y.sync # Dts!Magic
  BY DEF DtsCount, Dts!None, Dts!Magic
<1>3. p = DtsE(w)[h] /\ h + 8 <= p
  <2> HIDE DEF h
  <2> QED
    BY <1>1, <1>2
<1>4. From(DtsE(w), H, n + 1) = p
  BY <1>1, <1>3 DEF From
<1>5. DtsSeek(w, p, p, Dts!None)
  BY DtsSeekNew
<1>6. \A k \in 1..n + 1 : H[k] + 8 <= p /\ DtsE(w)[H[k]] <= p
  <2> SUFFICES ASSUME NEW k \in 1..n + 1 PROVE H[k] + 8 <= p /\ DtsE(w)[H[k]] <= p
    OBVIOUS
  <2>1. CASE k \in 1..n
    BY <2>1 DEF DtsCountOK
  <2>2. CASE k = n + 1
    BY <1>3, <2>2
  <2> QED
    BY <1>1, <2>1, <2>2
<1> HIDE DEF y
<1>7. DtsCountOK(w, H, p, y, n + 1)
  BY <1>1, <1>2, <1>4, <1>5, <1>6 DEF DtsCountOK
<1> QED
  BY <1>7 DEF y

LEMMA DtsScanGrows ==
  ASSUME NEW w, NEW H, NEW G, Grows(H, G), H \in Seq(Nat), G \in Seq(Nat),
         NEW p, NEW y, NEW n \in Nat, DtsScanOK(w, H, p, y, n)
  PROVE  DtsScanOK(w, G, p, y, n)
<1>1. Len(H) \in Nat /\ Len(G) \in Nat /\ Len(H) <= Len(G)
  BY DEF Grows
<1>2. CASE y.sync = Dts!Magic
  <2>1. n < Len(H) /\ DtsTaking(w, H[n + 1], p, y)
    BY <1>2 DEF DtsScanOK
  <2>2. n < Len(G) /\ n + 1 \in 1..Len(H)
    BY <1>1, <2>1
  <2>3. G[n + 1] = H[n + 1]
    BY <2>2 DEF Grows
  <2> QED
    BY <1>2, <2>1, <2>2, <2>3 DEF DtsScanOK
<1>3. CASE y.sync # Dts!Magic
  <2>1. n <= Len(H)
    BY <1>3 DEF DtsScanOK
  <2>2. n <= Len(G) /\ (n = 0 \/ n \in 1..Len(H))
    BY <1>1, <2>1
  <2>3. From(DtsE(w), G, n) = From(DtsE(w), H, n)
    BY <2>2 DEF Grows, From
  <2> QED
    BY <1>3, <2>2, <2>3 DEF DtsScanOK
<1> QED
  BY <1>2, <1>3

LEMMA DtsYNat == ASSUME NEW w \in Seq(DtsByte) PROVE DtsY(w) \in SUBSET Nat
BY DEF DtsY

LEMMA DtsScanSync ==
  ASSUME NEW w \in Seq(DtsByte), NEW H, Heads(DtsY(w), DtsE(w), H), NEW q \in Nat, q <= Len(w),
         NEW x, NEW m, DtsCountOK(w, H, q, x, m),
         NEW p \in Nat, p < q, NEW n \in Nat, n <= m, NEW y, DtsScanOK(w, H, p, y, n),
         y.sync # Dts!Magic,
         NEW z, z.sync = Append(Tail(y.sync), w[p + 1].v), z.pay = y.pay, z.size = y.size,
         z.info = y.info
  PROVE  DtsScanOK(w, H, p + 1, z, n)
<1> DEFINE b == From(DtsE(w), H, n)
<1>1. /\ y.pay = << >> /\ y.size = 0 /\ n <= Len(H) /\ DtsSeek(w, b, p, y.sync)
      /\ m \in Nat /\ Len(H) \in Nat /\ H \in Seq(Nat)
  BY DEF DtsScanOK, DtsCountOK, Heads
<1>2. b \in Nat
  BY <1>1 DEF DtsSeek
<1> HIDE DEF b
<1>3. /\ z.sync = Dts!Magic => Found(DtsY(w), b, p - 3)
      /\ z.sync # Dts!Magic => DtsSeek(w, b, p + 1, z.sync)
  <2>1. p < Len(w) /\ DtsSeek(w, b, p, y.sync)
    BY <1>1
  <2> QED
    BY <1>2, <2>1, DtsSeekOn
<1>4. ASSUME z.sync = Dts!Magic PROVE n < Len(H) /\ H[n + 1] = p - 3
  <2>1. CASE n < Len(H)
    <3>1. n + 1 \in 1..Len(H) /\ (n + 1) - 1 = n
      BY <1>1, <2>1
    <3>2. Found(DtsY(w), b, H[n + 1])
      BY <3>1 DEF Heads, b
    <3> QED
      BY <1>2, <1>3, <1>4, <2>1, <3>2, SameFound, DtsYNat
  <2>2. CASE n = Len(H)
    <3>1. m = n /\ DtsSeek(w, b, q, x.sync)
      BY <1>1, <2>2 DEF DtsCountOK, b
    <3>2. p - 3 \in DtsY(w) /\ b <= p - 3
      BY <1>2, <1>3, <1>4 DEF Found
    <3>3. p - 3 \in b..q - 4
      BY <1>2, <3>2
    <3> QED
      BY <3>1, <3>2, <3>3 DEF DtsSeek
  <2> QED
    BY <1>1, <2>1, <2>2
<1>5. CASE z.sync = Dts!Magic
  <2>1. p + 1 = p - 3 + 4 + Len(z.pay) /\ z.size = 0 /\ Slice(z.pay, w, p - 3 + 4)
    BY <1>1 DEF Slice
  <2>2. DtsTaking(w, p - 3, p + 1, z)
    BY <2>1 DEF DtsTaking
  <2> QED
    BY <1>4, <1>5, <2>2 DEF DtsScanOK
<1>6. CASE z.sync # Dts!Magic
  BY <1>1, <1>3, <1>6 DEF DtsScanOK, b
<1> QED
  BY <1>5, <1>6

LEMMA DtsTakingOn ==
  ASSUME NEW w, NEW h \in Nat, NEW p \in Nat, NEW d \in Nat, NEW y, Len(y.pay) \in Nat,
         DtsTaking(w, h, p, y), NEW z, z.size = y.size, z.info = y.info,
         Taken(y.pay, z.pay, w, p, d)
  PROVE  DtsTaking(w, h, p + d, z)
<1> DEFINE b == h + 4
           m == Len(y.pay)
<1>1. b \in Nat /\ m \in Nat
  OBVIOUS
<1>2. p = b + m
  BY <1>1 DEF DtsTaking
<1>3. Slice(y.pay, w, b)
  BY DEF DtsTaking
<1>4. Len(z.pay) = m + d
  BY DEF Taken
<1>5. p + d = b + (m + d) /\ (m >= 6 => m + d >= 6)
  <2> HIDE DEF b, m
  <2> QED
    BY <1>1, <1>2
<1>6. Slice(z.pay, w, b)
  BY <1>1, <1>2, <1>3, SliceTakes
<1> QED
  BY <1>4, <1>5, <1>6 DEF DtsTaking, DtsMisses

LEMMA DtsScanTake ==
  ASSUME NEW w \in Seq(DtsByte), NEW H, NEW p \in Nat, NEW d \in Nat,
         NEW n, NEW y, DtsScanOK(w, H, p, y, n), y.sync = Dts!Magic,
         Len(y.pay) \in Nat, H[n + 1] \in Nat,
         NEW z, z.sync = y.sync, z.size = y.size, z.info = y.info,
         Taken(y.pay, z.pay, w, p, d)
  PROVE  DtsScanOK(w, H, p + d, z, n)
<1>1. n < Len(H) /\ DtsTaking(w, H[n + 1], p, y)
  BY DEF DtsScanOK
<1>2. DtsTaking(w, H[n + 1], p + d, z)
  BY <1>1, DtsTakingOn
<1> QED
  BY <1>1, <1>2 DEF DtsScanOK, DtsMisses

LEMMA DtsInTaking ==
  ASSUME NEW w \in Seq(DtsByte), DtsFit(w), NEW H, Heads(DtsY(w), DtsE(w), H),
         NEW p \in Nat, p <= Len(w), NEW n \in Nat, NEW y, Len(y.pay) \in Nat,
         DtsScanOK(w, H, p, y, n), y.sync = Dts!Magic
  PROVE  /\ n < Len(H) /\ H[n + 1] \in Nat /\ H[n + 1] \in DtsY(w)
         /\ p = H[n + 1] + 4 + Len(y.pay)
         /\ Slice(y.pay, w, H[n + 1] + 4)
         /\ y.size # 0 => Len(y.pay) >= 6 /\ y.size = DtsZ(w, H[n + 1])
         /\ Len(y.pay) >= 4 =>
              /\ DtsZ(w, H[n + 1]) \in Nat /\ DtsZ(w, H[n + 1]) > 9
              /\ DtsE(w)[H[n + 1]] = H[n + 1] + DtsZ(w, H[n + 1])
<1> DEFINE h == H[n + 1]
           l == Len(y.pay)
<1>1. n < Len(H) /\ DtsTaking(w, h, p, y) /\ l \in Nat
  BY DEF DtsScanOK
<1>2. h \in Nat /\ h \in DtsY(w)
  BY <1>1, HeadPlace, DtsYNat
<1>3. /\ p = h + 4 + l /\ Slice(y.pay, w, h + 4)
      /\ y.size # 0 => l >= 6 /\ y.size = DtsZ(w, h)
  BY <1>1 DEF DtsTaking, DtsScanOK
<1> HIDE DEF h, l
<1>4. ASSUME l >= 4
      PROVE  /\ DtsZ(w, h) \in Nat /\ DtsZ(w, h) > 9
             /\ DtsE(w)[h] = h + DtsZ(w, h)
  <2>1. h + 8 <= Len(w)
    BY <1>1, <1>2, <1>3, <1>4
  <2> QED
    BY <1>2, <2>1, DtsZNat
<1>5. y.size # 0 => l >= 4
  BY <1>1, <1>3
<1> QED
  BY <1>1, <1>2, <1>3, <1>4, <1>5 DEF h, l

LEMMA DtsScanNext ==
  ASSUME NEW w \in Seq(DtsByte), DtsFit(w), NEW H, Heads(DtsY(w), DtsE(w), H),
         NEW p \in Nat, p <= Len(w), NEW n \in Nat, NEW y, Len(y.pay) \in Nat,
         DtsScanOK(w, H, p, y, n), y.sync = Dts!Magic,
         y.size # 0, Len(y.pay) + 4 = y.size,
         NEW z, z.sync = Dts!None, z.pay = << >>, z.size = 0
  PROVE  p = DtsE(w)[H[n + 1]] /\ DtsScanOK(w, H, p, z, n + 1)
<1> DEFINE h == H[n + 1]
<1>1. /\ n < Len(H) /\ h \in Nat /\ p = h + 4 + Len(y.pay) /\ y.size = DtsZ(w, h)
      /\ DtsE(w)[h] = h + DtsZ(w, h)
  BY DtsInTaking
<1>2. H \in Seq(Nat) /\ Len(H) \in Nat
  BY DEF Heads
<1>3. p = DtsE(w)[h]
  <2> DEFINE l == Len(y.pay)
  <2>1. l \in Nat /\ l + 4 = DtsZ(w, h) /\ p = h + 4 + l /\ h \in Nat
        /\ DtsE(w)[h] = h + DtsZ(w, h)
    BY <1>1
  <2> HIDE DEF h, l
  <2>2. h + 4 + l = h + (l + 4)
    BY <2>1
  <2> QED
    BY <2>1, <2>2
<1>4. From(DtsE(w), H, n + 1) = p /\ n + 1 <= Len(H)
  BY <1>1, <1>2, <1>3 DEF From
<1>5. DtsSeek(w, p, p, Dts!None) /\ Dts!None # Dts!Magic
  BY DtsSeekNew DEF Dts!None, Dts!Magic
<1> QED
  BY <1>3, <1>4, <1>5 DEF DtsScanOK

LEMMA DtsPassed ==
  ASSUME NEW w \in Seq(DtsByte), DtsFit(w), NEW H, Heads(DtsY(w), DtsE(w), H),
         NEW q \in Nat, q <= Len(w), NEW x, DtsCount(x), NEW m, DtsCountOK(w, H, q, x, m),
         x.bfound >= 8 => x.bfound < x.fsize,
         NEW n \in Nat, n < Len(H), H[n + 1] + 8 <= q, DtsE(w)[H[n + 1]] <= q
  PROVE  n + 1 <= m
<1> DEFINE h == H[n + 1]
<1>1. H \in Seq(Nat) /\ Len(H) \in Nat /\ h \in Nat /\ m \in Nat
  <2>1. h \in Nat
    BY HeadPlace, DtsYNat
  <2>2. H \in Seq(Nat) /\ m \in Nat
    BY DEF Heads, DtsCountOK
  <2> QED
    BY <2>1, <2>2
<1>2. CASE x.sync # Dts!Magic
  BY <1>1, <1>2 DEF DtsCountOK
<1>3. CASE x.sync = Dts!Magic /\ n = m
  <2> DEFINE g == x.bfound
             z == DtsZ(w, h)
             e == DtsE(w)[h]
  <2>1. /\ q = h + (IF g = 0 THEN 4 ELSE g)
        /\ g >= 8 => x.fsize = z /\ g <= x.fsize
        /\ q > h + 7 => z \in Nat /\ e = h + z
    BY <1>3, DtsTickOther
  <2>2. g \in Nat
    BY DEF DtsCount
  <2>3. h + 8 <= q /\ e <= q /\ (g >= 8 => g < x.fsize)
    OBVIOUS
  <2>4. h \in Nat
    BY <1>1
  <2> HIDE DEF g, z, e, h
  <2>5. g >= 8 /\ q = h + g
    BY <2>1, <2>2, <2>3, <2>4
  <2>6. x.fsize = z /\ z \in Nat /\ e = h + z
    BY <2>1, <2>2, <2>4, <2>5
  <2> QED
    BY <2>2, <2>3, <2>4, <2>5, <2>6
<1>4. CASE x.sync = Dts!Magic /\ n # m
  <2>1. Len(H) = m + 1
    BY <1>4 DEF DtsCountOK
  <2> QED
    BY <1>1, <1>4, <2>1
<1> QED
  BY <1>2, <1>3, <1>4

LEMMA DtsLevel ==
  ASSUME NEW w \in Seq(DtsByte), DtsFit(w), NEW H, Heads(DtsY(w), DtsE(w), H),
         NEW q \in Nat, q <= Len(w), NEW x, NEW m, DtsCountOK(w, H, q, x, m),
         NEW n \in Nat, n <= m, NEW y, Len(y.pay) \in Nat, y.size \in Nat,
         DtsScanOK(w, H, q, y, n), ~DtsDone(y)
  PROVE  n = m
<1> SUFFICES ASSUME n < m PROVE FALSE
  BY DEF DtsCountOK
<1> DEFINE h == H[n + 1]
<1>1. H \in Seq(Nat) /\ Len(H) \in Nat /\ m \in Nat /\ m <= Len(H)
  BY DEF Heads, DtsCountOK
<1>2. n + 1 \in 1..m /\ n < Len(H)
  BY <1>1
<1>3. h + 8 <= q /\ DtsE(w)[h] <= q
  BY <1>2 DEF DtsCountOK
<1>4. h \in Nat /\ h \in DtsY(w) /\ Found(DtsY(w), From(DtsE(w), H, n), h)
  BY <1>2, HeadPlace, DtsYNat
<1>5. CASE y.sync = Dts!Magic
  <2> DEFINE l == Len(y.pay)
  <2>1. /\ q = h + 4 + l /\ l \in Nat
        /\ y.size # 0 => y.size = DtsZ(w, h)
        /\ l >= 4 => /\ DtsZ(w, h) \in Nat /\ DtsZ(w, h) > 9
                     /\ DtsE(w)[h] = h + DtsZ(w, h)
    BY <1>5, DtsInTaking
  <2>2. l >= 6 /\ l + 4 >= DtsZ(w, h)
    <3> HIDE DEF h, l
    <3>1. l >= 4
      BY <1>3, <1>4, <2>1
    <3> QED
      BY <1>3, <1>4, <2>1, <3>1
  <2> QED
    BY <1>5, <2>1, <2>2 DEF DtsDone
<1>6. CASE y.sync # Dts!Magic
  <2>1. DtsSeek(w, From(DtsE(w), H, n), q, y.sync)
    BY <1>6 DEF DtsScanOK
  <2>2. From(DtsE(w), H, n) \in Nat
    BY <2>1 DEF DtsSeek
  <2> DEFINE b == From(DtsE(w), H, n)
  <2> HIDE DEF h, b
  <2>3. b \in Nat /\ b <= h
    BY <1>4, <2>2 DEF b, Found
  <2>4. h \in b..q - 4
    BY <1>3, <1>4, <2>3
  <2> QED
    BY <1>4, <2>1, <2>4 DEF DtsSeek, b
<1> QED
  BY <1>5, <1>6

LEMMA DtsFresh ==
  ASSUME NEW w
  PROVE  /\ Heads(DtsY(w), DtsE(w), << >>)
         /\ DtsCountOK(w, << >>, 0, Dts!CountReset, 0)
         /\ DtsScanOK(w, << >>, 0, Dts!ScanReset, 0)
<1>1. DtsSeek(w, 0, 0, Dts!None) /\ Dts!None # Dts!Magic
  BY DtsSeekNew DEF Dts!None, Dts!Magic
<1>2. Heads(DtsY(w), DtsE(w), << >>)
  BY DEF Heads
<1>3. DtsCountOK(w, << >>, 0, Dts!CountReset, 0)
  BY <1>1 DEF DtsCountOK, Dts!CountReset, From
<1>4. DtsScanOK(w, << >>, 0, Dts!ScanReset, 0)
  BY <1>1 DEF DtsScanOK, Dts!ScanReset, From
<1> QED
  BY <1>2, <1>3, <1>4

LEMMA DtsFreshAgrees ==
  ASSUME stream \in DtsStreams, buf = 0, out = 0, turn = "idle", tail = 0, crossed = 0,
         heard = << >>, c = Dts!CountReset, s = Dts!ScanReset
  PROVE  DtsAgrees(<< >>)
<1>1. Heads(DtsY(stream), DtsE(stream), << >>) /\ DtsCountOK(stream, << >>, buf, c, crossed)
      /\ DtsScanOK(stream, << >>, out, s, Len(heard))
  BY DtsFresh
<1>2. DtsTurns
  BY DEF DtsTurns, DtsDone, Dts!CountReset, Dts!ScanReset, Dts!None, Dts!Magic
<1> QED
  BY <1>1, <1>2 DEF DtsAgrees

LEMMA DtsStreamFits == DtsInv /\ Dts!BurstsFit => DtsFit(stream)
BY DEF Dts!BurstsFit, DtsFit

LEMMA DtsFeedAgree ==
  ASSUME DtsInv, Len(heard) \in Nat, NEW H, DtsAgrees(H), Dts!Feed PROVE DtsAgrees(H)'
<1>1. /\ UNCHANGED <<stream, buf, out, s, heard, c, crossed>> /\ turn' = "count" /\ turn = "idle"
  BY DEF Dts!Feed
<1>2. DtsTurns'
  BY <1>1 DEF DtsAgrees, DtsTurns
<1> QED
  BY <1>1, <1>2 DEF DtsAgrees

DtsStep(H) == \/ turn' = turn /\ crossed' = crossed
              \/ turn' = turn /\ crossed' = crossed + 1
              \/ /\ turn' = "frame" /\ UNCHANGED <<buf, c, crossed>> /\ buf = tail
                 /\ c.bfound >= 8 => c.bfound < c.fsize

LEMMA DtsCountStep ==
  ASSUME DtsInv, DtsFit(stream), NEW H, Heads(DtsY(stream), DtsE(stream), H),
         DtsCountOK(stream, H, buf, c, crossed), Dts!Count
  PROVE  \E G : /\ Heads(DtsY(stream), DtsE(stream), G)
                /\ DtsCountOK(stream, G, buf', c', crossed')
                /\ Grows(H, G) /\ buf' \in buf..tail /\ DtsStep(G)
<1> DEFINE w == stream
           h == H[crossed + 1]
           OK(G) == Heads(DtsY(w), DtsE(w), G) /\ DtsCountOK(w, G, buf', c', crossed')
                    /\ Grows(H, G) /\ buf' \in buf..tail
<1>1. /\ UNCHANGED <<stream, tail, out, s, heard>> /\ turn = "count"
      /\ turn' \in {"count", "frame"}
  BY DEF Dts!Count, Dts!CountSync, Dts!CountFound, Dts!CountHead,
         Dts!CountBody, Dts!CountCross, Dts!CountOut, Dts!Counting
<1>2. /\ w \in Seq(DtsByte) /\ Len(w) \in Nat /\ buf \in Nat /\ out \in Nat /\ tail \in Nat
      /\ buf <= tail /\ tail <= Len(w) /\ \A k \in 1..Len(w) : w[k] \in DtsByte
  BY DtsSent DEF DtsInv, DtsPlaces
<1>3. DtsCount(c) /\ c.bfound \in Nat /\ c.fsize \in Nat
  BY DEF DtsInv, DtsCounter, DtsCount
<1>4. /\ Heads(DtsY(w), DtsE(w), H) /\ DtsCountOK(w, H, buf, c, crossed)
      /\ crossed \in Nat /\ H \in Seq(Nat)
  BY DEF Heads, DtsCountOK
<1>6. Grows(H, H)
  BY <1>4 DEF Grows
\* The counter in a frame.
<1>7. ASSUME c.sync = Dts!Magic
      PROVE  /\ Len(H) = crossed + 1 /\ h \in Nat
             /\ buf = h + (IF c.bfound = 0 THEN 4 ELSE c.bfound) /\ c.bfound \notin 1..3
             /\ c.bfound >= 8 => c.fsize = DtsZ(w, h) /\ c.bfound <= c.fsize
             /\ buf > h + 7 => DtsZ(w, h) \in Nat /\ DtsZ(w, h) > 9 /\ DtsE(w)[h] = h + DtsZ(w, h)
  <2>1. buf <= Len(w)
    BY <1>2
  <2> QED
    BY <1>2, <1>3, <1>4, <1>7, <2>1, DtsTickOther, SMTT(40)
<1>8. ASSUME c.sync # Dts!Magic PROVE c.bfound = 0
  BY <1>4, <1>8 DEF DtsCountOK
<1>9. ASSUME c.sync = Dts!Magic, c'.sync = Dts!Magic, buf' \in buf..tail, crossed' = crossed,
             DtsInFrame(w, h, buf', c')
      PROVE  OK(H)
  <2>1. buf' \in Nat /\ buf <= buf' /\ buf' <= Len(w)
    BY <1>2, <1>9
  <2> QED
    BY <1>2, <1>4, <1>6, <1>9, <2>1, DtsTickIn
<1> HIDE DEF h
<1>11. CASE Dts!CountSync
  <2>1. /\ c.sync # Dts!Magic /\ buf < tail /\ buf' = buf + 1 /\ UNCHANGED <<turn, crossed>>
        /\ c' = [c EXCEPT !.sync = Append(Tail(@), w[buf + 1].v)]
    BY <1>11 DEF Dts!CountSync
  <2>2. \E G : OK(G)
    <3>1. buf < Len(w) /\ buf' \in buf..tail
      BY <1>2, <2>1
    <3> QED
      BY <1>2, <1>3, <1>4, <2>1, <3>1, DtsTickSync
  <2> QED
    BY <2>1, <2>2 DEF DtsStep
<1>12. CASE Dts!CountFound
  <2>1. /\ c.sync = Dts!Magic /\ c.bfound < 4 /\ UNCHANGED <<buf, turn, crossed>>
        /\ c' = [c EXCEPT !.bfound = 4]
    BY <1>12 DEF Dts!CountFound
  <2>2. c'.bfound = 4 /\ c'.sync = Dts!Magic
    BY <1>3, <2>1 DEF DtsCount
  <2>3. DtsInFrame(w, h, buf', c')
    BY <1>3, <1>7, <2>1, <2>2 DEF DtsInFrame
  <2>4. buf' \in buf..tail
    BY <1>2, <2>1
  <2> QED
    BY <1>9, <2>1, <2>2, <2>3, <2>4 DEF DtsStep
<1>13. CASE Dts!CountHead
  <2>1. /\ c.bfound \in 4..7 /\ buf < tail /\ buf' = buf + 1 /\ UNCHANGED <<turn, crossed>>
        /\ c' = [c EXCEPT !.bfound = @ + 1,
                          !.fsize = IF c.bfound = 7 THEN Dts!SizeOf(w[buf']) ELSE @]
    BY <1>13 DEF Dts!CountHead
  <2>2. c.sync = Dts!Magic
    BY <1>8, <2>1
  <2>3. c'.bfound = c.bfound + 1 /\ c'.sync = Dts!Magic
        /\ (c.bfound = 7 => c'.fsize = Dts!SizeOf(w[buf + 1]))
    BY <1>3, <2>1, <2>2 DEF DtsCount
  <2>4. buf = h + c.bfound /\ h \in Nat /\ buf' = h + c'.bfound
    BY <1>3, <1>7, <2>1, <2>2, <2>3
  <2>5. ASSUME c'.bfound >= 8 PROVE c'.fsize = DtsZ(w, h) /\ c'.bfound <= c'.fsize
    <3>1. c.bfound = 7 /\ c'.bfound = 8
      BY <1>3, <2>1, <2>3, <2>5
    <3>2. buf + 1 = h + 8 /\ h + 8 <= Len(w)
      BY <1>2, <2>1, <2>4, <3>1
    <3>3. c'.fsize = DtsZ(w, h)
      BY <2>3, <3>1, <3>2 DEF DtsZ
    <3>4. DtsZ(w, h) \in Nat /\ DtsZ(w, h) > 9
      BY <1>2, <2>4, <3>2, DtsZNat
    <3> QED
      BY <3>1, <3>3, <3>4
  <2>6. DtsInFrame(w, h, buf', c')
    BY <1>3, <2>1, <2>3, <2>4, <2>5 DEF DtsInFrame
  <2>7. buf' \in buf..tail
    BY <1>2, <2>1
  <2> QED
    BY <1>9, <2>1, <2>2, <2>3, <2>6, <2>7 DEF DtsStep
<1>15. CASE Dts!CountBody
  <2> DEFINE n == Dts!Least(c.fsize - c.bfound, tail - buf)
  <2>1. /\ c.bfound >= 8 /\ c.bfound < c.fsize /\ buf < tail /\ UNCHANGED <<turn, crossed>>
        /\ c' = [c EXCEPT !.bfound = @ + n] /\ buf' = buf + n
    BY <1>15 DEF Dts!CountBody
  <2>2. n \in Nat /\ buf + n <= tail /\ c.bfound + n <= c.fsize
    BY <1>2, <1>3, <2>1, SMTT(30) DEF Dts!Least
  <2> HIDE DEF n
  <2>3. c.sync = Dts!Magic
    BY <1>8, <2>1
  <2>4. c'.bfound = c.bfound + n /\ c'.fsize = c.fsize /\ c'.sync = Dts!Magic
    BY <1>3, <2>1, <2>3 DEF DtsCount
  <2>5. buf = h + c.bfound /\ h \in Nat /\ c.fsize = DtsZ(w, h)
    BY <1>3, <1>7, <2>1, <2>3
  <2>6. DtsInFrame(w, h, buf', c')
    <3>1. c'.bfound >= 8 /\ buf' = h + c'.bfound /\ c'.bfound <= c'.fsize
      BY <1>3, <2>1, <2>2, <2>4, <2>5
    <3> QED
      BY <1>3, <2>2, <2>4, <2>5, <3>1 DEF DtsInFrame
  <2>7. buf' \in buf..tail
    BY <1>2, <2>1, <2>2
  <2> QED
    BY <1>9, <2>1, <2>3, <2>4, <2>6, <2>7 DEF DtsStep
<1>16. CASE Dts!CountCross
  <2>1. /\ c.bfound >= 8 /\ c.bfound >= c.fsize /\ UNCHANGED <<buf, turn>>
        /\ c' = [c EXCEPT !.bfound = 0, !.sync = Dts!None]
        /\ crossed' = crossed + 1
    BY <1>16 DEF Dts!CountCross
  <2>2. c.sync = Dts!Magic
    BY <1>8, <2>1
  <2>3. OK(H)
    <3>1. buf <= Len(w) /\ buf' \in buf..tail
      BY <1>2, <2>1
    <3> QED
      BY <1>2, <1>3, <1>4, <1>6, <2>1, <2>2, <3>1, DtsTickCross, Zenon
  <2>4. Len(H) = crossed + 1 /\ DtsE(w)[h] = buf
    <3>1. /\ buf = h + c.bfound /\ h \in Nat /\ c.fsize = DtsZ(w, h) /\ c.bfound = c.fsize
          /\ DtsE(w)[h] = h + DtsZ(w, h)
      BY <1>3, <1>7, <2>1, <2>2
    <3> QED
      BY <1>7, <2>2, <3>1
  <2> QED
    BY <2>1, <2>3, <2>4 DEF DtsStep, h
<1>17. CASE Dts!CountOut
  <2>1. UNCHANGED <<buf, c, crossed>> /\ turn' = "frame"
    BY <1>17 DEF Dts!CountOut
  <2>2. ASSUME c.bfound >= 8 PROVE c.fsize > 9
    <3>1. c.sync = Dts!Magic
      BY <1>8, <2>2
    <3>2. buf = h + c.bfound /\ h \in Nat /\ c.fsize = DtsZ(w, h)
      BY <1>3, <1>7, <2>2, <3>1
    <3> QED
      BY <1>3, <1>7, <2>2, <3>1, <3>2
  <2>3. buf = tail /\ (c.bfound >= 8 => c.bfound < c.fsize)
    BY <1>2, <1>3, <1>17, <2>2 DEF Dts!CountOut
  <2>4. OK(H)
    BY <1>2, <1>4, <1>6, <2>1
  <2> QED
    BY <2>1, <2>3, <2>4 DEF DtsStep
<1> QED
  BY <1>11, <1>12, <1>13, <1>15, <1>16, <1>17 DEF Dts!Count

LEMMA DtsCountAgree ==
  ASSUME DtsInv, Len(heard) \in Nat, DtsFit(stream), NEW H, DtsAgrees(H), Dts!Count
  PROVE  \E G : DtsAgrees(G)'
<1>1. UNCHANGED <<stream, tail, out, s, heard>> /\ turn = "count"
  BY DEF Dts!Count, Dts!CountSync, Dts!CountFound, Dts!CountHead,
         Dts!CountBody, Dts!CountCross, Dts!CountOut, Dts!Counting
<1>2. /\ Heads(DtsY(stream), DtsE(stream), H) /\ DtsCountOK(stream, H, buf, c, crossed)
      /\ DtsTurns /\ DtsScanOK(stream, H, out, s, Len(heard)) /\ crossed \in Nat
  BY DEF DtsAgrees, DtsCountOK
<1>3. PICK G : /\ Heads(DtsY(stream), DtsE(stream), G)
               /\ DtsCountOK(stream, G, buf', c', crossed')
               /\ Grows(H, G) /\ buf' \in buf..tail /\ DtsStep(G)
  BY <1>2, DtsCountStep
<1>4. Len(heard) \in Nat /\ buf \in Nat /\ out \in Nat /\ tail \in Nat
  BY DtsSent DEF DtsInv, DtsPlaces
<1>5. DtsScanOK(stream, G, out, s, Len(heard))
  BY <1>2, <1>3, <1>4, DtsScanGrows DEF Heads
<1>6. DtsTurns'
  <2>1. out <= buf' /\ Len(heard) <= crossed'
    BY <1>2, <1>3, <1>4 DEF DtsTurns, DtsStep
  <2>3. turn' = "count" \/ (turn' = "frame" /\ buf' = tail
                              /\ (c'.bfound >= 8 => c'.bfound < c'.fsize))
    BY <1>1, <1>3 DEF DtsStep
  <2> QED
    BY <1>1, <1>2, <2>1, <2>3 DEF DtsTurns
<1> QED
  BY <1>1, <1>3, <1>5, <1>6 DEF DtsAgrees

\* What a step of Frame() does.
DtsReset(y) == y.sync = Dts!None /\ y.pay = << >> /\ y.size = 0
DtsSyncs == /\ s.sync # Dts!Magic /\ out < tail /\ out' = out + 1
            /\ s'.sync = Append(Tail(s.sync), stream[out + 1].v)
            /\ s'.pay = s.pay /\ s'.size = s.size /\ s'.info = s.info
            /\ UNCHANGED <<turn, heard>>
DtsTakes == /\ s.sync = Dts!Magic
            /\ s'.sync = s.sync /\ s'.size = s.size /\ s'.info = s.info
            /\ \E d \in Nat : /\ out' = out + d /\ out + d <= tail
                              /\ Taken(s.pay, s'.pay, stream, out, d)
            /\ UNCHANGED <<turn, heard>>
DtsParses == /\ s.sync = Dts!Magic /\ Len(s.pay) >= 6 /\ s.size = 0
             /\ s'.sync = s.sync /\ s'.pay = s.pay
             /\ s'.size = Dts!SizeOf(s.pay[4]) /\ s'.info = Dts!InfoOf(s.pay[5])
             /\ UNCHANGED <<out, turn, heard>>
DtsSkips == /\ s.sync = Dts!Magic /\ s.size # 0 /\ DtsMisses(s)
            /\ s'.sync = Dts!None /\ s'.pay = << >> /\ s'.size = s.size /\ s'.info = s.info
            /\ UNCHANGED <<out, turn, heard>>
DtsFull == Dts!Fits /\ Dts!Pos >= s.size
DtsEnds == /\ DtsFull /\ DtsReset(s') /\ heard' = Append(heard, Dts!Burst)
           /\ UNCHANGED <<turn, out>>
DtsReturns == /\ out >= tail /\ ~DtsDone(s)
              /\ turn' = "idle" /\ UNCHANGED <<out, s, heard>>

LEMMA DtsKinds ==
  ASSUME DtsInv, Dts!Frame
  PROVE  /\ UNCHANGED <<stream, tail, buf, c, crossed>> /\ turn = "frame"
         /\ DtsSyncs \/ DtsTakes \/ DtsParses \/ DtsSkips \/ DtsEnds \/ DtsReturns
<1> DEFINE w == stream
           l == Len(s.pay)
<1>1. UNCHANGED <<stream, tail, buf, c, crossed>> /\ turn = "frame"
  BY DEF Dts!Frame, Dts!FrameSync, Dts!FrameHead, Dts!FrameParse, Dts!FrameMisfit,
         Dts!FrameBody, Dts!FramePlay, Dts!FrameOut, Dts!Framing
<1>2. /\ w \in Seq(DtsByte) /\ Len(w) \in Nat /\ out \in Nat /\ tail \in Nat
      /\ out <= tail /\ tail <= Len(w) /\ \A k \in 1..Len(w) : w[k] \in DtsByte
  BY DtsSent DEF DtsInv, DtsPlaces
<1>3. /\ s.pay \in Seq(DtsByte) /\ s.size \in Nat /\ l \in Nat
      /\ s \in DtsScanned(s.sync)
  BY DEF DtsInv, DtsScan, DtsScanned
<1>4. Dts!HeadKnown <=> s.sync = Dts!Magic /\ l >= 6
  BY <1>3 DEF Dts!HeadKnown, Dts!Pos
<1>5. Dts!Misfit <=> DtsMisses(s)
  BY DEF Dts!Misfit, DtsMisses
<1>6. CASE Dts!FrameSync
  <2>1. /\ UNCHANGED <<turn, heard>> /\ out' = out + 1 /\ out < tail /\ s.sync # Dts!Magic
        /\ s' = [s EXCEPT !.sync = Append(Tail(@), w[out + 1].v)]
    BY <1>6 DEF Dts!FrameSync
  <2>2. /\ s'.sync = Append(Tail(s.sync), w[out + 1].v) /\ s'.pay = s.pay /\ s'.size = s.size
        /\ s'.info = s.info
    BY <1>3, <2>1 DEF DtsScanned
  <2> QED
    BY <1>1, <2>1, <2>2 DEF DtsSyncs
<1>7. CASE Dts!FrameHead
  <2>1. /\ UNCHANGED <<turn, heard>> /\ out' = out + 1 /\ out < tail /\ s.sync = Dts!Magic
        /\ s' = [s EXCEPT !.pay = Append(@, w[out + 1])]
    BY <1>7 DEF Dts!FrameHead
  <2>2. /\ s'.pay = Append(s.pay, w[out + 1]) /\ s'.sync = s.sync /\ s'.size = s.size
        /\ s'.info = s.info
    BY <1>3, <2>1 DEF DtsScanned
  <2>3. out + 1 <= tail /\ w[out + 1] \in DtsByte
    BY <1>2, <2>1
  <2>4. Taken(s.pay, s'.pay, w, out, 1)
    BY <1>2, <1>3, <2>2, <2>3, TakesByte
  <2> QED
    BY <1>1, <2>1, <2>2, <2>3, <2>4 DEF DtsTakes
<1>8. CASE Dts!FrameParse
  <2>1. /\ UNCHANGED <<turn, out, heard>> /\ s.sync = Dts!Magic /\ l >= 6 /\ s.size = 0
        /\ s' = [s EXCEPT !.size = Dts!SizeOf(s.pay[4]), !.info = Dts!InfoOf(s.pay[5])]
    BY <1>4, <1>8 DEF Dts!FrameParse
  <2>2. s'.sync = s.sync /\ s'.pay = s.pay /\ s'.size = Dts!SizeOf(s.pay[4])
        /\ s'.info = Dts!InfoOf(s.pay[5])
    BY <1>3, <2>1 DEF DtsScanned
  <2> QED
    BY <1>1, <2>1, <2>2 DEF DtsParses
<1>9. CASE Dts!FrameMisfit
  <2>1. /\ UNCHANGED <<turn, out, heard>> /\ s.sync = Dts!Magic /\ s.size # 0
        /\ DtsMisses(s) /\ s' = Dts!Resync
    BY <1>4, <1>5, <1>9 DEF Dts!FrameMisfit
  <2>2. s'.sync = Dts!None /\ s'.pay = << >> /\ s'.size = s.size /\ s'.info = s.info
    BY <1>3, <2>1 DEF Dts!Resync, DtsScanned
  <2> QED
    BY <1>1, <2>1, <2>2 DEF DtsSkips
<1>10. CASE Dts!FrameBody
  <2> DEFINE e == Dts!Least(out + s.size - (l + 4), tail)
             d == e - out
             more == SubSeq(w, out + 1, out + d)
  <2>1. UNCHANGED <<turn, heard>> /\ out' = e /\ out < tail /\ l + 4 < s.size
        /\ s' = [s EXCEPT !.pay = @ \o SubSeq(w, out + 1, e)] /\ s.sync = Dts!Magic
    BY <1>10 DEF Dts!FrameBody, Dts!Pos, Dts!Fits, Dts!HeadKnown
  <2>2. d \in Nat /\ out + d <= tail /\ out + d = e
    <3>1. l \in Nat /\ s.size \in Nat /\ out \in Nat /\ tail \in Nat
      BY <1>2, <1>3
    <3> HIDE DEF l
    <3> QED
      BY <2>1, <3>1, SMTT(30) DEF Dts!Least
  <2>3. s' = [s EXCEPT !.pay = @ \o more] /\ out' = out + d
    BY <2>1, <2>2
  <2> HIDE DEF d
  <2>4. out + d <= Len(w)
    BY <1>2, <2>2
  <2>5. s'.pay = s.pay \o more /\ s'.sync = s.sync /\ s'.size = s.size /\ s'.info = s.info
    BY <1>3, <2>3 DEF DtsScanned
  <2>6. Taken(s.pay, s'.pay, w, out, d)
    BY <1>2, <1>3, <2>2, <2>4, <2>5, TakesPiece
  <2> QED
    BY <1>1, <2>1, <2>2, <2>3, <2>5, <2>6 DEF DtsTakes
<1>11. CASE Dts!FramePlay
  <2>1. s' = [Dts!Resync EXCEPT !.size = 0]
    BY <1>11 DEF Dts!FramePlay
  <2>2. DtsReset(s')
    BY <1>3, <2>1 DEF Dts!Resync, DtsScanned, DtsReset
  <2> QED
    BY <1>1, <1>11, <2>2 DEF Dts!FramePlay, DtsEnds, DtsFull
<1>12. CASE Dts!FrameOut
  <2>1. UNCHANGED <<out, s, heard>> /\ turn' = "idle" /\ out >= tail
    BY <1>12 DEF Dts!FrameOut
  <2>2. ASSUME DtsDone(s) PROVE FALSE
    <3>1. Dts!HeadKnown /\ (s.size = 0 \/ Dts!Misfit \/ Dts!Pos >= s.size)
      BY <1>3, <1>4, <1>5, <2>2 DEF DtsDone, Dts!Pos
    <3> QED
      BY <1>12, <3>1 DEF Dts!FrameOut, Dts!Fits
  <2> QED
    BY <1>1, <2>1, <2>2 DEF DtsReturns
<1> QED
  BY <1>6, <1>7, <1>8, <1>9, <1>10, <1>11, <1>12 DEF Dts!Frame

LEMMA DtsFullTold ==
  ASSUME DtsInv, Len(heard) \in Nat, DtsFit(stream), NEW H, DtsAgrees(H), turn = "frame", DtsFull
  PROVE  /\ Len(heard) + 1 <= crossed
         /\ \A y : y.sync = Dts!None /\ y.pay = << >> /\ y.size = 0
                => DtsScanOK(stream, H, out, y, Len(heard) + 1)
<1> DEFINE w == stream
           n == Len(heard)
           h == H[n + 1]
           l == Len(s.pay)
<1>1. turn = "frame" /\ DtsFull
  OBVIOUS
<1>2. /\ w \in Seq(DtsByte) /\ Len(w) \in Nat /\ buf \in Nat /\ out \in Nat /\ tail \in Nat
      /\ out <= tail /\ tail <= Len(w)
  BY DtsSent DEF DtsInv, DtsPlaces
<1>3. /\ s.pay \in Seq(DtsByte) /\ s.size \in Nat /\ l \in Nat
      /\ l + 4 <= (IF s.size > 10 THEN s.size ELSE 10)
  BY DEF DtsInv, DtsScan, DtsScanned
<1>4. /\ Heads(DtsY(w), DtsE(w), H) /\ DtsCountOK(w, H, buf, c, crossed) /\ DtsTurns
      /\ DtsScanOK(w, H, out, s, n) /\ crossed \in Nat /\ n \in Nat
  BY DEF DtsAgrees, DtsCountOK
<1>5. buf = tail /\ (c.bfound >= 8 => c.bfound < c.fsize)
  BY <1>1, <1>4 DEF DtsTurns
<1>6. DtsCount(c)
  BY DEF DtsInv, DtsCounter, DtsCount
<1>7. out <= Len(w) /\ buf <= Len(w) /\ out <= buf
  BY <1>2, <1>5
<1>8. s.sync = Dts!Magic /\ s.size # 0 /\ l >= 6 /\ l + 4 >= s.size
  BY <1>3 DEF DtsFull, Dts!Fits, Dts!HeadKnown, Dts!Pos
<1>9. /\ n < Len(H) /\ h \in Nat /\ out = h + 4 + l /\ s.size = DtsZ(w, h)
      /\ DtsZ(w, h) \in Nat /\ DtsZ(w, h) > 9
  <2>1. l >= 4 /\ l \in Nat /\ out \in Nat /\ out <= Len(w)
    BY <1>2, <1>3, <1>7, <1>8
  <2>2. w \in Seq(DtsByte) /\ n \in Nat /\ DtsScanOK(w, H, out, s, n) /\ s.sync = Dts!Magic
    BY <1>2, <1>4, <1>8
  <2>3. Heads(DtsY(w), DtsE(w), H)
    BY <1>4
  <2>4. /\ n < Len(H) /\ h \in Nat /\ out = h + 4 + l /\ (s.size # 0 => s.size = DtsZ(w, h))
        /\ l >= 4 => DtsZ(w, h) \in Nat /\ DtsZ(w, h) > 9
    BY <2>1, <2>2, <2>3, DtsInTaking
  <2> QED
    BY <1>8, <2>1, <2>4
<1>10. l + 4 = s.size
  <2> HIDE DEF l
  <2> QED
    BY <1>3, <1>8, <1>9
<1>11. ASSUME NEW y, y.sync = Dts!None /\ y.pay = << >> /\ y.size = 0
       PROVE  out = DtsE(w)[h] /\ DtsScanOK(w, H, out, y, n + 1)
  BY <1>2, <1>3, <1>4, <1>7, <1>8, <1>10, <1>11, DtsScanNext
<1>12. out = DtsE(w)[h]
  <2>1. /\ Dts!ScanReset.sync = Dts!None /\ Dts!ScanReset.pay = << >>
        /\ Dts!ScanReset.size = 0
    BY DEF Dts!ScanReset
  <2> QED
    BY <1>11, <2>1
<1>13. h + 8 <= buf /\ DtsE(w)[h] <= buf
  <2> HIDE DEF l
  <2>1. h + 8 <= out
    BY <1>3, <1>8, <1>9
  <2>2. h + 8 <= buf
    BY <1>2, <1>7, <1>9, <2>1
  <2> QED
    BY <1>7, <1>12, <2>2
<1>14. n + 1 <= crossed
  BY <1>2, <1>4, <1>5, <1>6, <1>7, <1>9, <1>13, DtsPassed
<1> QED
  BY <1>11, <1>14

LEMMA DtsFrameAgree ==
  ASSUME DtsInv, heard \in Seq(DtsBursts), DtsFit(stream), NEW H, DtsAgrees(H), Dts!Frame
  PROVE  DtsAgrees(H)'
<1> DEFINE w == stream
           n == Len(heard)
           h == H[n + 1]
           l == Len(s.pay)
<1>1. UNCHANGED <<stream, tail, buf, c, crossed>> /\ turn = "frame"
  BY DtsKinds
<1>2. /\ w \in Seq(DtsByte) /\ Len(w) \in Nat /\ buf \in Nat /\ out \in Nat /\ tail \in Nat
      /\ out <= tail /\ tail <= Len(w)
  BY DtsSent DEF DtsInv, DtsPlaces
<1>3. /\ s.pay \in Seq(DtsByte) /\ s.size \in Nat /\ l \in Nat
  BY DEF DtsInv, DtsScan, DtsScanned
<1>4. /\ Heads(DtsY(w), DtsE(w), H) /\ DtsCountOK(w, H, buf, c, crossed) /\ DtsTurns
      /\ DtsScanOK(w, H, out, s, n) /\ crossed \in Nat /\ n \in Nat
  BY DEF DtsAgrees, DtsCountOK
<1>5. buf = tail /\ n <= crossed /\ (c.bfound >= 8 => c.bfound < c.fsize)
  BY <1>1, <1>4 DEF DtsTurns
<1>7. out <= Len(w) /\ buf <= Len(w) /\ out <= buf
  BY <1>2, <1>5
\* The frame in the payload.
<1>8. ASSUME s.sync = Dts!Magic
      PROVE  /\ n < Len(H) /\ h \in Nat /\ out = h + 4 + l /\ Slice(s.pay, w, h + 4)
  BY <1>2, <1>3, <1>4, <1>7, <1>8, DtsInTaking
\* All but the return of Frame().
<1>9. ASSUME DtsScanOK(w, H, out', s', n), out' \in out..tail, turn' = turn, UNCHANGED heard
      PROVE  DtsAgrees(H)'
  <2>1. DtsTurns'
    BY <1>1, <1>2, <1>4, <1>5, <1>9 DEF DtsTurns
  <2> QED
    BY <1>1, <1>4, <1>9, <2>1 DEF DtsAgrees
<1>10. CASE DtsSyncs
  <2>1. DtsScanOK(w, H, out + 1, s', n) /\ out + 1 \in out..tail
    BY <1>2, <1>4, <1>5, <1>7, <1>10, DtsScanSync DEF DtsSyncs
  <2> QED
    BY <1>9, <1>10, <2>1 DEF DtsSyncs
<1>11. CASE DtsTakes
  <2>1. PICK d \in Nat : out' = out + d /\ out + d <= tail /\ Taken(s.pay, s'.pay, w, out, d)
    BY <1>11 DEF DtsTakes
  <2>2. DtsScanOK(w, H, out + d, s', n)
    BY <1>2, <1>3, <1>4, <1>8, <1>11, <2>1, DtsScanTake DEF DtsTakes
  <2> QED
    BY <1>2, <1>9, <1>11, <2>1, <2>2 DEF DtsTakes
<1>13. CASE DtsParses
  <2>1. s.sync = Dts!Magic /\ l >= 6
    BY <1>13 DEF DtsParses
  <2>2. h + 9 <= Len(w)
    BY <1>2, <1>3, <1>7, <1>8, <2>1, SMTT(40)
  <2>3. s.pay[4] = w[h + 8] /\ s.pay[5] = w[h + 9]
    <3>1. 4 \in 1..l /\ 5 \in 1..l /\ h + 4 + 4 = h + 8 /\ h + 4 + 5 = h + 9
      BY <1>3, <1>8, <2>1, SMTT(40)
    <3> QED
      BY <1>8, <2>1, <3>1 DEF Slice
  <2>4. s'.size = DtsZ(w, h) /\ s'.info = Dts!InfoOf(w[h + 9]) /\ h \in Nat
        /\ s'.sync = s.sync /\ s'.pay = s.pay /\ out' = out
    BY <1>8, <1>13, <2>1, <2>3 DEF DtsParses, DtsZ
  <2>5. ~DtsMisses(s')
    <3>1. h + 8 \in 1..Len(w) /\ h + 9 \in 1..Len(w)
      BY <1>2, <2>2, <2>4
    <3>2. w[h + 8].z <= Dts!InfoOf(w[h + 9]).burst /\ w[h + 9].r = Rate
      BY <3>1 DEF DtsFit
    <3>3. Dts!InfoOf(w[h + 9]).rate = w[h + 9].r
      BY DEF Dts!InfoOf
    <3>4. s'.info.burst >= s'.size /\ s'.info.rate = Rate
      BY <2>4, <3>2, <3>3 DEF DtsZ, Dts!SizeOf
    <3>5. s'.info.burst \in Nat /\ s'.size \in Nat
      <4>1. w[h + 8] \in DtsByte /\ w[h + 9] \in DtsByte
        BY <1>2, <3>1
      <4>2. w[h + 8].z \in Nat /\ w[h + 9].burst \in Nat
        BY <4>1 DEF DtsByte
      <4>3. s'.size \in Nat
        BY <2>4, <4>2 DEF DtsZ, Dts!SizeOf
      <4> QED
        BY <2>4, <4>2, <4>3 DEF Dts!InfoOf, Dts!Least, Dts!SPDIF_BURST_SIZE
    <3> QED
      BY <3>4, <3>5 DEF DtsMisses
  <2>6. DtsScanOK(w, H, out, s', n)
    BY <1>3, <1>8, <2>1, <2>4, <2>5 DEF DtsScanOK, DtsTaking
  <2> QED
    BY <1>2, <1>9, <1>13, <2>6 DEF DtsParses
<1>14. CASE DtsSkips
  BY <1>4, <1>14 DEF DtsSkips, DtsScanOK
<1>15. CASE DtsEnds
  <2>1. heard' = Append(heard, Dts!Burst) /\ UNCHANGED <<turn, out>>
    BY <1>15 DEF DtsEnds
  <2>2. Len(heard') = n + 1
    BY <2>1
  <2>3. n + 1 <= crossed /\ DtsScanOK(w, H, out, s', n + 1)
    BY <1>1, <1>4, <1>15, DtsFullTold DEF DtsEnds, DtsReset
  <2>4. DtsTurns'
    BY <1>1, <1>4, <1>5, <1>7, <2>1, <2>2, <2>3 DEF DtsTurns
  <2> QED
    BY <1>1, <1>4, <2>1, <2>2, <2>3, <2>4 DEF DtsAgrees
<1>16. CASE DtsReturns
  <2>1. UNCHANGED <<out, s, heard>> /\ turn' = "idle" /\ out >= tail /\ ~DtsDone(s)
    BY <1>16 DEF DtsReturns
  <2>2. out = tail /\ out = buf
    BY <1>2, <1>5, <2>1
  <2>3. n = crossed
    BY <1>2, <1>3, <1>4, <1>5, <1>7, <2>1, <2>2, DtsLevel
  <2>4. DtsTurns'
    BY <1>1, <1>4, <1>5, <2>1, <2>2, <2>3 DEF DtsTurns
  <2> QED
    BY <1>1, <1>4, <2>1, <2>4 DEF DtsAgrees
<1> QED
  BY <1>10, <1>11, <1>13, <1>14, <1>15, <1>16, DtsKinds

\* Whatever the stream: the payload is the stream's, behind a sync word; a
\* size that was left behind is one that misfits.
DtsHeld == /\ heard \in Seq(DtsBursts)
           /\ IF s.sync = Dts!Magic
              THEN \E j \in DtsY(stream) : DtsTaking(stream, j, out, s)
              ELSE /\ s.pay = << >> /\ (s.size # 0 => DtsMisses(s))
                   /\ \E b \in Nat : DtsSeek(stream, b, out, s.sync)
\* A burst that was made of a whole frame has only its bytes.
DtsPure == Dts!TrueSyncs => \A k \in 1..Len(heard) : Dts!Whole(heard[k].f) => heard[k].pure

LEMMA DtsSyncAt == \A j : j \in DtsY(stream) <=> j \in 0..Len(stream) - 4 /\ Dts!SyncAt(j)
BY DEF DtsY, Dts!SyncAt

\* A burst is the bytes behind a sync word.
LEMMA DtsEnded ==
  ASSUME DtsInv, DtsHeld, DtsFull
  PROVE  \E j \in DtsY(stream) :
            /\ j \in Nat /\ out = j + 4 + Len(s.pay) /\ Slice(s.pay, stream, j + 4)
            /\ j + 4 \in 1..Len(stream) /\ Dts!Synced = stream[j + 4].f
            /\ s.size = DtsZ(stream, j) /\ s.size # 0 /\ Len(s.pay) \in Nat
            /\ s.size > 9 => Len(s.pay) + 4 = s.size
<1> DEFINE w == stream
           l == Len(s.pay)
<1>1. /\ w \in Seq(DtsByte) /\ Len(w) \in Nat /\ out \in Nat
  BY DtsSent DEF DtsInv, DtsPlaces
<1>2. /\ s.pay \in Seq(DtsByte) /\ s.size \in Nat /\ l \in Nat
      /\ l + 4 <= (IF s.size > 10 THEN s.size ELSE 10)
  BY DEF DtsInv, DtsScan, DtsScanned
<1>3. s.sync = Dts!Magic /\ s.size # 0 /\ l >= 6 /\ l + 4 >= s.size /\ ~DtsMisses(s)
  BY <1>2 DEF DtsFull, Dts!Fits, Dts!HeadKnown, Dts!Pos, Dts!Misfit, DtsMisses
<1>4. PICK j \in DtsY(w) : DtsTaking(w, j, out, s)
  BY <1>3 DEF DtsHeld
<1>5. j \in Nat /\ j \in 0..Len(w) - 4
  BY <1>1, <1>4 DEF DtsY
<1>6. out = j + 4 + l /\ Slice(s.pay, w, j + 4) /\ s.size = DtsZ(w, j)
  BY <1>3, <1>4 DEF DtsTaking
<1> HIDE DEF l
<1>7. j + 4 \in 1..Len(w) /\ out - l = j + 4
  BY <1>1, <1>2, <1>5, <1>6
<1>8. Dts!Synced = w[j + 4].f
  BY <1>7 DEF Dts!Synced, l
<1>9. s.size > 9 => l + 4 = s.size
  BY <1>2, <1>3
<1> QED
  BY <1>2, <1>3, <1>4, <1>5, <1>6, <1>7, <1>8, <1>9 DEF l

LEMMA DtsBurst ==
  ASSUME DtsInv, DtsHeld, DtsFull
  PROVE  /\ Dts!Burst \in DtsBursts /\ Dts!Burst.f = Dts!Synced
         /\ Dts!TrueSyncs /\ Dts!Whole(Dts!Synced) => Dts!Burst.pure
<1> DEFINE w == stream
           l == Len(s.pay)
           n == Dts!Synced
<1>1. /\ w \in Seq(DtsByte) /\ Len(w) \in Nat /\ s.info.burst \in Nat
  BY DtsSent, BurstSize DEF DtsInv, DtsPlaces, DtsScan, DtsScanned, DtsInfo
<1>2. PICK j \in DtsY(w) :
            /\ j \in Nat /\ out = j + 4 + l /\ Slice(s.pay, w, j + 4)
            /\ j + 4 \in 1..Len(w) /\ n = w[j + 4].f
            /\ s.size = DtsZ(w, j) /\ s.size # 0 /\ l \in Nat
            /\ s.size > 9 => l + 4 = s.size
  BY DtsEnded
<1>3. n \in Nat
  <2>1. w[j + 4] \in DtsByte
    BY <1>1, <1>2
  <2> QED
    BY <1>2, <2>1 DEF DtsByte
<1> HIDE DEF n
<1>4. ASSUME Dts!TrueSyncs, Dts!Whole(n)
      PROVE  \A k \in 1..l : s.pay[k].f = n /\ s.pay[k].i = k + 3
  <2>1. w[j + 4].i = 3
    <3>1. j \in 0..Len(w) - 4 /\ Dts!SyncAt(j)
      BY <1>2, DtsSyncAt
    <3> QED
      BY <1>4, <3>1 DEF Dts!TrueSyncs
  <2>2. PICK i \in Dts!Starts : Dts!WholeAt(n, i)
    BY <1>4 DEF Dts!Whole
  <2>3. i \in Nat /\ i + 8 \in 1..Len(w)
    BY <1>1, <2>2 DEF Dts!Starts
  <2>4. w[i + 8].z \in Nat
    <3>1. w[i + 8] \in DtsByte
      BY <1>1, <2>3
    <3> QED
      BY <3>1 DEF DtsByte
  <2>5. /\ w[i + 8].z > 9 /\ Dts!Places(n) = i + 1..i + w[i + 8].z
        /\ \A k \in Dts!Places(n) : w[k].i = k - i - 1
    BY <2>2 DEF Dts!WholeAt
  <2>6. i = j
    <3>1. j + 4 \in Dts!Places(n)
      BY <1>2 DEF Dts!Places
    <3>2. w[j + 4].i = (j + 4) - i - 1
      BY <2>5, <3>1
    <3> QED
      BY <1>2, <2>1, <2>3, <3>2
  <2>7. s.size = w[j + 8].z
    BY <1>2 DEF DtsZ, Dts!SizeOf
  <2>8. l + 4 = s.size
    <3> HIDE DEF l
    <3> QED
      BY <1>2, <2>5, <2>6, <2>7
  <2> SUFFICES ASSUME NEW k \in 1..l PROVE s.pay[k].f = n /\ s.pay[k].i = k + 3
    OBVIOUS
  <2>9. s.pay[k] = w[j + 4 + k]
    BY <1>2 DEF Slice
  <2>10. j + 4 + k \in Dts!Places(n) /\ (j + 4 + k) - j - 1 = k + 3
    <3> HIDE DEF l
    <3> QED
      BY <1>2, <2>5, <2>6, <2>7, <2>8
  <2>11. w[j + 4 + k].f = n
    BY <2>10 DEF Dts!Places
  <2>12. w[j + 4 + k].i = (j + 4 + k) - j - 1
    BY <2>5, <2>6, <2>10
  <2> QED
    BY <2>9, <2>10, <2>11, <2>12
<1>5. Dts!Burst.f = n /\ Dts!Burst.size = s.info.burst
      /\ (Dts!Burst.pure <=> \A k \in 1..l : s.pay[k].f = n /\ s.pay[k].i = k + 3)
  BY DEF Dts!Burst, n
<1>6. Dts!Burst \in DtsBursts
  BY <1>1, <1>3 DEF Dts!Burst, DtsBursts, n
<1> QED
  BY <1>4, <1>5, <1>6 DEF n

LEMMA DtsHeldReset ==
  ASSUME s'.sync = Dts!None, s'.pay = << >>, s'.size # 0 => DtsMisses(s'), out' \in Nat,
         heard' \in Seq(DtsBursts)
  PROVE  DtsHeld'
<1>1. DtsSeek(stream', out', out', s'.sync)
  BY DtsSeekNew
<1>2. s'.sync # Dts!Magic
  BY DEF Dts!None, Dts!Magic
<1> QED
  BY <1>1, <1>2 DEF DtsHeld

LEMMA DtsHeldKeeps == DtsInv /\ DtsHeld /\ Dts!Next => DtsHeld'
<1> SUFFICES ASSUME DtsInv, DtsHeld, Dts!Next PROVE DtsHeld'
  OBVIOUS
<1> DEFINE w == stream
<1>1. /\ w \in Seq(DtsByte) /\ Len(w) \in Nat /\ out \in Nat /\ tail \in Nat
      /\ out <= tail /\ tail <= Len(w) /\ s.pay \in Seq(DtsByte) /\ Len(s.pay) \in Nat
      /\ heard \in Seq(DtsBursts)
  BY DtsSent DEF DtsInv, DtsPlaces, DtsScan, DtsScanned, DtsHeld
<1>2. CASE UNCHANGED <<stream, out, s, heard>>
  BY <1>2 DEF DtsHeld
<1>3. CASE Dts!Clear
  <2>1. DtsReset(s') /\ out' \in Nat /\ heard' = << >>
    BY <1>3 DEF Dts!Clear, Dts!Refeed, Dts!ScanReset, DtsReset
  <2>2. heard' \in Seq(DtsBursts)
    BY <2>1
  <2> QED
    BY <2>1, <2>2, DtsHeldReset DEF DtsReset
<1>4. CASE Dts!Frame
  <2>1. stream' = stream /\ tail' = tail
    BY <1>4, DtsKinds
  <2>2. CASE DtsSyncs
    <3>1. PICK b \in Nat : DtsSeek(w, b, out, s.sync)
      BY <2>2 DEF DtsHeld, DtsSyncs
    <3>2. /\ s'.sync = Append(Tail(s.sync), w[out + 1].v) /\ out < Len(w) /\ out' = out + 1
          /\ s'.pay = << >> /\ s'.size = s.size /\ s'.info = s.info /\ UNCHANGED heard
          /\ s.size # 0 => DtsMisses(s)
      BY <1>1, <2>2 DEF DtsSyncs, DtsHeld
    <3>3. /\ s'.sync = Dts!Magic => Found(DtsY(w), b, out - 3)
          /\ s'.sync # Dts!Magic => DtsSeek(w, b, out + 1, s'.sync)
      BY <1>1, <3>1, <3>2, DtsSeekOn
    <3>6. s'.size # 0 => DtsMisses(s')
      BY <3>2 DEF DtsMisses
    <3>4. CASE s'.sync = Dts!Magic
      <4>1. out - 3 \in DtsY(w)
        BY <3>3, <3>4 DEF Found
      <4>2. Len(s'.pay) = 0 /\ Slice(s'.pay, w, out - 3 + 4) /\ out + 1 = out - 3 + 4 + Len(s'.pay)
        BY <1>1, <3>2 DEF Slice
      <4>3. DtsTaking(w, out - 3, out + 1, s')
        BY <3>6, <4>2 DEF DtsTaking
      <4> QED
        BY <1>1, <2>1, <3>2, <3>4, <4>1, <4>3 DEF DtsHeld
    <3>5. CASE s'.sync # Dts!Magic
      BY <1>1, <2>1, <3>2, <3>3, <3>5, <3>6 DEF DtsHeld
    <3> QED
      BY <3>4, <3>5
  <2>3. CASE DtsTakes
    <3>1. PICK d \in Nat : out' = out + d /\ Taken(s.pay, s'.pay, w, out, d)
      BY <2>3 DEF DtsTakes
    <3>2. PICK j \in DtsY(w) : DtsTaking(w, j, out, s)
      BY <2>3 DEF DtsTakes, DtsHeld
    <3>3. j \in Nat
      BY <1>1, <3>2, DtsYNat
    <3>4. DtsTaking(w, j, out + d, s')
      BY <1>1, <2>3, <3>1, <3>2, <3>3, DtsTakingOn DEF DtsTakes
    <3> QED
      BY <1>1, <2>1, <2>3, <3>1, <3>2, <3>4 DEF DtsHeld, DtsTakes
  <2>4. CASE DtsParses
    <3>1. PICK j \in DtsY(w) : DtsTaking(w, j, out, s)
      BY <2>4 DEF DtsParses, DtsHeld
    <3>2. s.pay[4] = w[j + 8] /\ s.pay[5] = w[j + 9]
      <4>1. j \in Nat /\ 4 \in 1..Len(s.pay) /\ 5 \in 1..Len(s.pay)
        BY <1>1, <2>4, <3>1, DtsYNat DEF DtsParses
      <4>2. j + 4 + 4 = j + 8 /\ j + 4 + 5 = j + 9
        BY <4>1
      <4> QED
        BY <3>1, <4>1, <4>2 DEF DtsTaking, Slice
    <3>3. DtsTaking(w, j, out', s')
      BY <2>4, <3>1, <3>2 DEF DtsTaking, DtsParses, DtsZ
    <3> QED
      BY <1>1, <2>1, <2>4, <3>1, <3>3 DEF DtsHeld, DtsParses
  <2>5. CASE DtsSkips
    <3>1. DtsMisses(s')
      BY <2>5 DEF DtsSkips, DtsMisses
    <3> QED
      BY <1>1, <2>5, <3>1, DtsHeldReset DEF DtsSkips
  <2>6. CASE DtsEnds
    <3>1. heard' \in Seq(DtsBursts)
      BY <1>1, <2>6, DtsBurst DEF DtsEnds
    <3> QED
      BY <1>1, <2>6, <3>1, DtsHeldReset DEF DtsEnds, DtsReset
  <2>7. CASE DtsReturns
    BY <1>2, <2>1, <2>7 DEF DtsReturns
  <2> QED
    BY <1>4, <2>2, <2>3, <2>4, <2>5, <2>6, <2>7, DtsKinds
<1>5. CASE Dts!Feed
  BY <1>2, <1>5 DEF Dts!Feed
<1>6. CASE Dts!Count
  BY <1>2, <1>6 DEF Dts!Count, Dts!CountSync, Dts!CountFound, Dts!CountHead,
                Dts!CountBody, Dts!CountCross, Dts!CountOut, Dts!Counting
<1> QED
  BY <1>3, <1>4, <1>5, <1>6 DEF Dts!Next

\* What the properties ask of a stream, of the same stream.
LEMMA DtsSameStream ==
  ASSUME stream' = stream
  PROVE  /\ Dts!TrueSyncs' = Dts!TrueSyncs /\ Dts!BurstsFit' = Dts!BurstsFit
         /\ \A n : Dts!Whole(n)' = Dts!Whole(n)
<1>1. Dts!TrueSyncs' = Dts!TrueSyncs
  BY DEF Dts!TrueSyncs, Dts!SyncAt
<1>2. Dts!BurstsFit' = Dts!BurstsFit
  BY DEF Dts!BurstsFit
<1>3. ASSUME NEW n PROVE Dts!Whole(n)' = Dts!Whole(n)
  BY DEF Dts!Whole, Dts!WholeAt, Dts!Places, Dts!Starts, Dts!SyncAt
<1> QED
  BY <1>1, <1>2, <1>3

LEMMA DtsSteady ==
  ASSUME Dts!Feed \/ Dts!Count \/ (DtsInv /\ Dts!Frame) PROVE stream' = stream
<1>1. CASE Dts!Feed
  BY <1>1 DEF Dts!Feed
<1>2. CASE Dts!Count
  BY <1>2 DEF Dts!Count, Dts!CountSync, Dts!CountFound, Dts!CountHead,
              Dts!CountBody, Dts!CountCross, Dts!CountOut, Dts!Counting
<1>3. CASE DtsInv /\ Dts!Frame
  BY <1>3, DtsKinds
<1> QED
  BY <1>1, <1>2, <1>3

LEMMA DtsPureKeeps == DtsInv /\ DtsHeld /\ DtsPure /\ Dts!Next => DtsPure'
<1> SUFFICES ASSUME DtsInv, DtsHeld, DtsPure, Dts!Next PROVE DtsPure'
  OBVIOUS
<1>1. CASE UNCHANGED <<stream, heard>>
  BY <1>1, DtsSameStream DEF DtsPure
<1>2. CASE Dts!Clear
  <2>1. heard' = << >>
    BY <1>2 DEF Dts!Clear, Dts!Refeed
  <2> QED
    BY <2>1 DEF DtsPure
<1>3. CASE Dts!Frame
  <2>1. stream' = stream
    BY <1>3, DtsKinds
  <2>2. CASE UNCHANGED heard
    BY <1>1, <2>1, <2>2
  <2>3. CASE DtsEnds
    <3> DEFINE b == Dts!Burst
               n == Len(heard)
    <3>1. /\ heard \in Seq(DtsBursts) /\ b \in DtsBursts /\ DtsFull /\ heard' = Append(heard, b)
      BY <2>3, DtsBurst DEF DtsEnds, DtsHeld
    <3>2. b.f = Dts!Synced /\ (Dts!TrueSyncs /\ Dts!Whole(Dts!Synced) => b.pure)
      BY <3>1, DtsBurst
    <3> HIDE DEF b
    <3>3. /\ n \in Nat /\ Len(heard') = n + 1 /\ heard'[n + 1] = b
          /\ \A k \in 1..n : heard'[k] = heard[k]
      BY <3>1, Appended
    <3> HIDE DEF n
    <3>4. SUFFICES ASSUME Dts!TrueSyncs, NEW k \in 1..n + 1, Dts!Whole(heard'[k].f)
                   PROVE  heard'[k].pure
      BY <2>1, <3>3, DtsSameStream DEF DtsPure
    <3>5. CASE k = n + 1
      BY <3>2, <3>3, <3>4, <3>5
    <3>6. CASE k # n + 1
      <4>1. k \in 1..n
        BY <3>3, <3>6
      <4> QED
        BY <3>3, <3>4, <4>1 DEF DtsPure, n
    <3> QED
      BY <3>5, <3>6
  <2> QED
    BY <1>3, <2>2, <2>3, DtsKinds DEF DtsSyncs, DtsTakes, DtsParses, DtsSkips, DtsReturns
<1>4. CASE Dts!Feed
  BY <1>1, <1>4 DEF Dts!Feed
<1>5. CASE Dts!Count
  BY <1>1, <1>5 DEF Dts!Count, Dts!CountSync, Dts!CountFound, Dts!CountHead,
                Dts!CountBody, Dts!CountCross, Dts!CountOut, Dts!Counting
<1> QED
  BY <1>2, <1>3, <1>4, <1>5 DEF Dts!Next

\* Where a DTS frame begins, or the stream ends; a frame that fits its burst.
DtsBorder(w, b) == b = Len(w) \/ (b \in 0..Len(w) - 1 /\ w[b + 1].i = 0)
DtsAllSound == Dts!TrueSyncs /\ \A n \in Dts!FrameNo : Dts!Sound(n)
DtsSoundAt(w, b) ==
    /\ b \in DtsY(w) /\ DtsZ(w, b) \in Nat /\ DtsZ(w, b) > 9 /\ b + DtsZ(w, b) <= Len(w)
    /\ \A k \in 1..DtsZ(w, b) : w[b + k].f = w[b + 1].f
    /\ w[b + 9].r = Rate /\ ~(Dts!InfoOf(w[b + 9]).burst < DtsZ(w, b))
    /\ DtsBorder(w, b + DtsZ(w, b))

LEMMA DtsWholePlaces ==
  ASSUME DtsInv, NEW n, NEW j \in Dts!Starts, Dts!WholeAt(n, j)
  PROVE  /\ j \in Nat /\ DtsZ(stream, j) \in Nat /\ DtsZ(stream, j) > 9
         /\ j + DtsZ(stream, j) <= Len(stream) /\ j \in DtsY(stream)
         /\ \A k \in 1..Len(stream) : stream[k].f = n <=> k \in j + 1..j + DtsZ(stream, j)
         /\ \A k \in j + 1..j + DtsZ(stream, j) : stream[k].i = k - j - 1
<1> DEFINE w == stream
           z == DtsZ(w, j)
<1>1. w \in Seq(DtsByte) /\ Len(w) \in Nat /\ \A k \in 1..Len(w) : w[k] \in DtsByte
  BY DtsSent DEF DtsInv, DtsPlaces
<1>2. j \in Nat /\ j + 10 <= Len(w)
  BY <1>1 DEF Dts!Starts
<1>3. z \in Nat
  <2>1. w[j + 8] \in DtsByte
    BY <1>1, <1>2
  <2> QED
    BY <2>1 DEF DtsByte, DtsZ, Dts!SizeOf
<1>4. z > 9 /\ Dts!Places(n) = j + 1..j + z /\ \A k \in Dts!Places(n) : w[k].i = k - j - 1
  BY DEF Dts!WholeAt, DtsZ, Dts!SizeOf
<1>5. j \in DtsY(w)
  <2>1. j \in 0..Len(w) - 4
    BY <1>1, <1>2
  <2> QED
    BY <2>1, DtsSyncAt DEF Dts!WholeAt
<1> HIDE DEF z
<1>6. \A k \in 1..Len(w) : w[k].f = n <=> k \in j + 1..j + z
  BY <1>4 DEF Dts!Places
<1>7. j + z <= Len(w)
  <2>1. j + z \in j + 1..j + z
    BY <1>2, <1>3, <1>4
  <2>2. j + z \in 1..Len(w)
    BY <1>4, <2>1 DEF Dts!Places
  <2> QED
    BY <1>1, <2>2
<1> QED
  BY <1>2, <1>3, <1>4, <1>5, <1>6, <1>7 DEF z

\* Of sound frames, one begins where the last one ended.
LEMMA DtsSoundFrom ==
  ASSUME DtsInv, DtsAllSound, NEW b \in Nat, b < Len(stream), DtsBorder(stream, b)
  PROVE  DtsSoundAt(stream, b) /\ Dts!Whole(stream[b + 1].f)
<1> DEFINE w == stream
           n == w[b + 1].f
           z == DtsZ(w, b)
<1>1. w \in Seq(DtsByte) /\ Len(w) \in Nat /\ \A k \in 1..Len(w) : w[k] \in DtsByte
  BY DtsSent DEF DtsInv, DtsPlaces
<1>2. b + 1 \in 1..Len(w) /\ w[b + 1].i = 0
  BY <1>1 DEF DtsBorder
<1>3. \A k \in 1..Len(w) : Dts!Sound(w[k].f)
  BY DEF DtsAllSound, Dts!FrameNo
<1>4. PICK j \in Dts!Starts : Dts!WholeAt(n, j)
  BY <1>2, <1>3 DEF Dts!Sound, Dts!Whole
<1>5. j = b
  <2>1. /\ j \in Nat /\ DtsZ(w, j) \in Nat
        /\ \A k \in 1..Len(w) : w[k].f = n <=> k \in j + 1..j + DtsZ(w, j)
        /\ \A k \in j + 1..j + DtsZ(w, j) : w[k].i = k - j - 1
    BY <1>4, DtsWholePlaces
  <2>2. b + 1 \in j + 1..j + DtsZ(w, j)
    BY <1>2, <2>1
  <2>3. 0 = (b + 1) - j - 1
    BY <1>2, <2>1, <2>2
  <2> QED
    BY <2>1, <2>3
<1>6. /\ z \in Nat /\ z > 9 /\ b + z <= Len(w) /\ b \in DtsY(w)
      /\ \A k \in 1..Len(w) : w[k].f = n <=> k \in b + 1..b + z
  BY <1>4, <1>5, DtsWholePlaces
<1> HIDE DEF z
<1>7. \A k \in 1..z : w[b + k].f = n
  <2> SUFFICES ASSUME NEW k \in 1..z PROVE w[b + k].f = n
    OBVIOUS
  <2>1. b + k \in 1..Len(w) /\ b + k \in b + 1..b + z
    BY <1>1, <1>6
  <2> QED
    BY <1>6, <2>1
<1>8. w[b + 9].r = Rate /\ ~(Dts!InfoOf(w[b + 9]).burst < z)
  <2>1. b + 9 \in Dts!Places(n) /\ b + 8 \in Dts!Places(n)
    <3>1. 9 \in 1..z /\ 8 \in 1..z /\ b + 9 \in 1..Len(w) /\ b + 8 \in 1..Len(w)
      BY <1>1, <1>6
    <3> QED
      BY <1>7, <3>1 DEF Dts!Places
  <2>2. ~Dts!Misfits(n)
    BY <1>2, <1>3 DEF Dts!Sound
  <2>3. w[b + 9].r = Rate /\ ~(Dts!InfoOf(w[b + 9]).burst < w[b + 8].z)
    BY <2>1, <2>2 DEF Dts!Misfits
  <2> QED
    BY <2>3 DEF z, DtsZ, Dts!SizeOf
<1>9. DtsBorder(w, b + z)
  <2>1. CASE b + z < Len(w)
    <3> DEFINE k == b + z
               m == w[k + 1].f
    <3>1. k \in 1..Len(w) /\ k + 1 \in 1..Len(w) /\ k \in b + 1..b + z /\ k + 1 \notin b + 1..b + z
      BY <1>1, <1>6, <2>1
    <3>2. w[k].f = n /\ m # n
      BY <1>6, <3>1
    <3>3. PICK i \in Dts!Starts : Dts!WholeAt(m, i)
      BY <1>3, <3>1 DEF Dts!Sound, Dts!Whole
    <3>4. /\ i \in Nat /\ DtsZ(w, i) \in Nat
          /\ \A l \in 1..Len(w) : w[l].f = m <=> l \in i + 1..i + DtsZ(w, i)
          /\ \A l \in i + 1..i + DtsZ(w, i) : w[l].i = l - i - 1
      BY <3>3, DtsWholePlaces
    <3>5. k + 1 \in i + 1..i + DtsZ(w, i) /\ k \notin i + 1..i + DtsZ(w, i)
      BY <3>1, <3>2, <3>4
    <3>6. w[k + 1].i = (k + 1) - i - 1
      BY <3>4, <3>5
    <3> HIDE DEF k, m
    <3>7. k = i /\ k \in 0..Len(w) - 1 /\ w[k + 1].i = 0
      BY <1>1, <3>1, <3>4, <3>5, <3>6
    <3> QED
      BY <3>7 DEF DtsBorder, k
  <2>2. CASE ~(b + z < Len(w))
    <3>1. b + z = Len(w)
      BY <1>1, <1>6, <2>2
    <3> QED
      BY <3>1 DEF DtsBorder
  <2> QED
    BY <2>1, <2>2
<1> QED
  BY <1>2, <1>3, <1>6, <1>7, <1>8, <1>9 DEF DtsSoundAt, Dts!Sound, z

LEMMA DtsSoundStart == DtsInv /\ DtsAllSound => DtsBorder(stream, 0)
<1> SUFFICES ASSUME DtsInv, DtsAllSound PROVE DtsBorder(stream, 0)
  OBVIOUS
<1>1. Len(stream) \in Nat
  BY DtsSent DEF DtsInv, DtsPlaces
<1>2. CASE Len(stream) = 0
  BY <1>2 DEF DtsBorder
<1>3. CASE Len(stream) # 0
  <2>1. 1 \in 1..Len(stream)
    BY <1>1, <1>3
  <2>2. PICK j \in Dts!Starts : Dts!WholeAt(stream[1].f, j)
    BY <2>1 DEF DtsAllSound, Dts!FrameNo, Dts!Sound, Dts!Whole
  <2>3. /\ j \in Nat /\ 1 \in j + 1..j + DtsZ(stream, j) /\ DtsZ(stream, j) \in Nat
        /\ \A k \in j + 1..j + DtsZ(stream, j) : stream[k].i = k - j - 1
    BY <2>1, <2>2, DtsWholePlaces
  <2>4. j = 0 /\ stream[1].i = 1 - j - 1
    BY <2>3
  <2> QED
    BY <1>1, <1>3, <2>4 DEF DtsBorder
<1> QED
  BY <1>2, <1>3

\* When all frames are sound the scanner is in a frame, or where one begins, and
\* all before it was played in a burst of its own length.
DtsPlayed(k) == \E i \in 1..Len(heard) :
                   /\ heard[i].f = stream[k].f /\ heard[i].pure
                   /\ \E l \in 1..Len(stream) : /\ stream[l].f = stream[k].f
                                                /\ heard[i].size = Dts!InfoOf(stream[l]).burst
DtsInPhase(b) ==
    /\ b \in Nat /\ b <= out /\ DtsBorder(stream, b)
    /\ s.size # 0 => ~DtsMisses(s)
    /\ IF s.sync = Dts!Magic
       THEN b < Len(stream) /\ DtsTaking(stream, b, out, s)
       ELSE s.pay = << >> /\ s.size = 0 /\ DtsSeek(stream, b, out, s.sync)
    /\ \A k \in 1..b : DtsPlayed(k)
    /\ turn = "idle" => ~DtsDone(s)
DtsPhase == DtsAllSound => \E b : DtsInPhase(b)

LEMMA DtsPlayedSame ==
  ASSUME UNCHANGED <<stream, heard>>, NEW k PROVE DtsPlayed(k)' <=> DtsPlayed(k)
BY DEF DtsPlayed

LEMMA DtsInPhaseSame ==
  ASSUME UNCHANGED <<stream, heard, out, s, turn>>, NEW b PROVE DtsInPhase(b)' <=> DtsInPhase(b)
<1>1. \A k : DtsPlayed(k)' <=> DtsPlayed(k)
  BY DtsPlayedSame
<1> QED
  BY <1>1 DEF DtsInPhase

LEMMA DtsStartPhase ==
  DtsInv /\ out = 0 /\ s = Dts!ScanReset /\ heard = << >> => DtsPhase
<1> SUFFICES ASSUME DtsInv, out = 0, s = Dts!ScanReset, heard = << >>, DtsAllSound
             PROVE  DtsInPhase(0)
  BY DEF DtsPhase
<1>1. DtsBorder(stream, 0)
  BY DtsSoundStart
<1>2. DtsSeek(stream, 0, 0, Dts!None) /\ Dts!None # Dts!Magic
  BY DtsSeekNew DEF Dts!None, Dts!Magic
<1> QED
  BY <1>1, <1>2 DEF DtsInPhase, DtsDone, Dts!ScanReset

LEMMA DtsFramePhase ==
  ASSUME DtsInv, DtsHeld, DtsAllSound, NEW b, DtsInPhase(b), Dts!Frame
  PROVE  \E d : DtsInPhase(d)'
<1> DEFINE w == stream
           z == DtsZ(w, b)
           l == Len(s.pay)
<1>1. /\ w \in Seq(DtsByte) /\ Len(w) \in Nat /\ out \in Nat /\ tail \in Nat /\ out <= tail
      /\ tail <= Len(w) /\ s.pay \in Seq(DtsByte) /\ l \in Nat /\ s.size \in Nat
  BY DtsSent DEF DtsInv, DtsPlaces, DtsScan, DtsScanned
<1>2. UNCHANGED <<stream, tail>> /\ turn = "frame"
  BY DtsKinds
<1>3. b \in Nat /\ b <= out /\ DtsBorder(w, b) /\ (s.size # 0 => ~DtsMisses(s))
  BY DEF DtsInPhase
<1>4. ASSUME UNCHANGED heard PROVE \A k \in 1..b : DtsPlayed(k)'
  <2>1. \A k \in 1..b : DtsPlayed(k)
    BY DEF DtsInPhase
  <2>2. \A k : DtsPlayed(k)' <=> DtsPlayed(k)
    BY <1>2, <1>4, DtsPlayedSame
  <2> QED
    BY <2>1, <2>2
<1>5. ASSUME b < Len(w) PROVE DtsSoundAt(w, b) /\ Dts!Whole(w[b + 1].f)
  BY <1>3, <1>5, DtsSoundFrom
<1>6. ASSUME s.sync = Dts!Magic PROVE b < Len(w) /\ DtsTaking(w, b, out, s)
  BY <1>6 DEF DtsInPhase
<1>7. CASE DtsSyncs
  <2>1. s.pay = << >> /\ s.size = 0 /\ DtsSeek(w, b, out, s.sync) /\ b < Len(w) /\ out < Len(w)
    BY <1>1, <1>3, <1>7 DEF DtsInPhase, DtsSyncs
  <2>2. /\ s'.sync = Append(Tail(s.sync), w[out + 1].v) /\ out' = out + 1
        /\ s'.pay = << >> /\ s'.size = 0 /\ heard' = heard /\ turn' = turn
    BY <1>7, <2>1 DEF DtsSyncs
  <2>3. /\ s'.sync = Dts!Magic => Found(DtsY(w), b, out - 3)
        /\ s'.sync # Dts!Magic => DtsSeek(w, b, out + 1, s'.sync)
    BY <1>1, <1>3, <2>1, <2>2, DtsSeekOn
  <2>4. DtsBorder(stream', b) /\ b <= out'
    BY <1>1, <1>2, <1>3, <2>2
  <2>5. CASE s'.sync = Dts!Magic
    <3>1. b \in DtsY(w)
      BY <1>5, <2>1 DEF DtsSoundAt
    <3>2. b <= out - 3 /\ \A j \in b..out - 3 - 1 : j \notin DtsY(w)
      BY <2>3, <2>5 DEF Found
    <3>3. b = out - 3
      <4>1. ASSUME b < out - 3 PROVE FALSE
        <5>1. b \in b..out - 3 - 1
          BY <1>1, <1>3, <4>1
        <5> QED
          BY <3>1, <3>2, <5>1
      <4> QED
        BY <1>1, <1>3, <3>2, <4>1
    <3>4. out + 1 = b + 4 + Len(s'.pay) /\ Slice(s'.pay, w, b + 4)
      BY <1>1, <1>3, <2>2, <3>3 DEF Slice
    <3>5. DtsTaking(w, b, out + 1, s')
      BY <2>2, <3>4 DEF DtsTaking
    <3> QED
      BY <1>2, <1>3, <1>4, <2>1, <2>2, <2>4, <2>5, <3>5 DEF DtsInPhase
  <2>6. CASE s'.sync # Dts!Magic
    BY <1>2, <1>3, <1>4, <2>2, <2>3, <2>4, <2>6 DEF DtsInPhase
  <2> QED
    BY <2>5, <2>6
<1>8. CASE DtsTakes
  <2>1. PICK d \in Nat : out' = out + d /\ Taken(s.pay, s'.pay, w, out, d)
    BY <1>8 DEF DtsTakes
  <2>2. /\ s.sync = Dts!Magic /\ s'.sync = s.sync /\ s'.size = s.size /\ s'.info = s.info
        /\ heard' = heard /\ turn' = turn
    BY <1>8 DEF DtsTakes
  <2>3. b < Len(w) /\ DtsTaking(w, b, out, s)
    BY <1>6, <2>2
  <2>4. DtsTaking(w, b, out + d, s')
    BY <1>1, <1>3, <2>1, <2>2, <2>3, DtsTakingOn
  <2>5. b <= out' /\ (s'.size # 0 => ~DtsMisses(s'))
    BY <1>1, <1>3, <2>1, <2>2 DEF DtsMisses
  <2> QED
    BY <1>2, <1>3, <1>4, <2>1, <2>2, <2>3, <2>4, <2>5 DEF DtsInPhase
<1>9. CASE DtsParses
  <2>1. b < Len(w) /\ DtsTaking(w, b, out, s) /\ l >= 6
    BY <1>6, <1>9 DEF DtsParses
  <2>2. s.pay[4] = w[b + 8] /\ s.pay[5] = w[b + 9]
    <3>1. 4 \in 1..Len(s.pay) /\ 5 \in 1..Len(s.pay) /\ b + 4 + 4 = b + 8 /\ b + 4 + 5 = b + 9
      BY <1>1, <1>3, <2>1
    <3> QED
      BY <2>1, <3>1 DEF DtsTaking, Slice
  <2>3. s'.size = z /\ s'.info = Dts!InfoOf(w[b + 9]) /\ s'.pay = s.pay /\ out' = out
    BY <1>9, <2>2 DEF DtsParses, DtsZ
  <2>4. DtsTaking(w, b, out', s')
    BY <2>1, <2>3 DEF DtsTaking
  <2>5. ~DtsMisses(s')
    BY <1>5, <2>1, <2>3 DEF DtsSoundAt, DtsMisses, Dts!InfoOf
  <2> QED
    BY <1>2, <1>3, <1>4, <1>9, <2>1, <2>4, <2>5 DEF DtsInPhase, DtsParses
<1>10. CASE DtsSkips
  BY <1>3, <1>10 DEF DtsSkips
<1>11. CASE DtsEnds
  <2>1. /\ DtsReset(s') /\ s.sync = Dts!Magic /\ l >= 6 /\ s.size # 0 /\ ~DtsMisses(s)
        /\ heard' = Append(heard, Dts!Burst) /\ out' = out /\ turn' = turn
    BY <1>1, <1>11
    DEF DtsEnds, DtsFull, Dts!Fits, Dts!HeadKnown, Dts!Pos, Dts!Misfit, DtsMisses
  <2>2. b < Len(w) /\ DtsTaking(w, b, out, s)
    BY <1>6, <2>1
  <2>3. /\ z \in Nat /\ z > 9 /\ b + z <= Len(w) /\ DtsBorder(w, b + z)
        /\ \A k \in 1..z : w[b + k].f = w[b + 1].f
    BY <1>5, <2>2 DEF DtsSoundAt
  <2>4. s.size = z /\ out = b + 4 + l /\ s.info = Dts!InfoOf(w[b + 9])
    BY <2>1, <2>2 DEF DtsTaking
  <2>5. PICK j \in DtsY(w) :
            /\ j \in Nat /\ out = j + 4 + l
            /\ Dts!Synced = w[j + 4].f /\ (s.size > 9 => l + 4 = s.size)
    BY <1>11, DtsEnded DEF DtsEnds
  <2>6. j = b /\ out = b + z /\ 4 \in 1..z /\ 9 \in 1..z
    <3> HIDE DEF l, z
    <3> QED
      BY <1>1, <1>3, <2>3, <2>4, <2>5
  <2>7. Dts!Synced = w[b + 1].f
    BY <2>3, <2>5, <2>6
  <2>8. /\ Dts!Burst \in DtsBursts /\ Dts!Burst.f = w[b + 1].f /\ Dts!Burst.pure
        /\ Dts!Burst.size = Dts!InfoOf(w[b + 9]).burst
    <3>1. Dts!Whole(Dts!Synced) /\ Dts!TrueSyncs
      BY <1>5, <2>2, <2>7 DEF DtsAllSound
    <3>2. /\ Dts!Burst \in DtsBursts /\ Dts!Burst.f = Dts!Synced /\ Dts!Burst.pure
      BY <1>11, <3>1, DtsBurst DEF DtsEnds
    <3>3. Dts!Burst.size = s.info.burst
      BY DEF Dts!Burst
    <3> QED
      BY <2>4, <2>7, <3>2, <3>3
  <2>9. ASSUME NEW k \in 1..out PROVE DtsPlayed(k)'
    <3> DEFINE m == Len(heard)
               u == Dts!Burst
    <3>1. heard \in Seq(DtsBursts) /\ m \in Nat
      BY DEF DtsHeld
    <3>2. /\ u \in DtsBursts /\ u.f = w[b + 1].f /\ u.pure
          /\ u.size = Dts!InfoOf(w[b + 9]).burst /\ heard' = Append(heard, u)
      BY <2>1, <2>8
    <3> HIDE DEF u
    <3>3. /\ Len(heard') = m + 1 /\ heard'[m + 1] = u
          /\ \A i \in 1..m : heard'[i] = heard[i]
      BY <3>1, <3>2, Appended
    <3> HIDE DEF m
    <3>4. CASE k \in 1..b
      <4>1. PICK i \in 1..m : /\ heard[i].f = w[k].f /\ heard[i].pure
                              /\ \E h \in 1..Len(w) : /\ w[h].f = w[k].f
                                                      /\ heard[i].size = Dts!InfoOf(w[h]).burst
        BY <3>4 DEF DtsInPhase, DtsPlayed, m
      <4>2. i \in 1..m + 1 /\ heard'[i] = heard[i]
        BY <3>1, <3>3, <4>1
      <4> QED
        BY <1>2, <3>3, <4>1, <4>2 DEF DtsPlayed
    <3>5. CASE k \notin 1..b
      <4>1. k - b \in 1..z /\ b + (k - b) = k /\ b + 9 \in 1..Len(w)
        <5> HIDE DEF z
        <5> QED
          BY <1>1, <1>3, <2>3, <2>6, <2>9, <3>5
      <4>2. w[k].f = w[b + 1].f /\ w[b + 9].f = w[b + 1].f
        <5>1. w[b + (k - b)].f = w[b + 1].f /\ w[b + 9].f = w[b + 1].f
          BY <2>3, <2>6, <4>1
        <5> QED
          BY <4>1, <5>1
      <4>3. m + 1 \in 1..m + 1
        BY <3>1
      <4> QED
        BY <1>2, <3>2, <3>3, <4>1, <4>2, <4>3, SMTT(40) DEF DtsPlayed
    <3> QED
      BY <3>4, <3>5
  <2>10. DtsSeek(w, out, out, Dts!None) /\ Dts!None # Dts!Magic
    BY <1>1, DtsSeekNew DEF Dts!None, Dts!Magic
  <2>11. DtsInPhase(out)'
    BY <1>1, <1>2, <2>1, <2>3, <2>6, <2>9, <2>10 DEF DtsInPhase, DtsReset
  <2> QED
    BY <2>11
<1>12. CASE DtsReturns
  BY <1>2, <1>4, <1>12 DEF DtsReturns, DtsInPhase, DtsMisses, DtsDone
<1> QED
  BY <1>7, <1>8, <1>9, <1>10, <1>11, <1>12, DtsKinds

LEMMA DtsPhaseKeeps == DtsInv /\ DtsInv' /\ DtsHeld /\ DtsPhase /\ Dts!Next => DtsPhase'
<1> SUFFICES ASSUME DtsInv, DtsInv', DtsHeld, DtsPhase, Dts!Next PROVE DtsPhase'
  OBVIOUS
<1>1. ASSUME stream' = stream PROVE DtsAllSound' = DtsAllSound
  <2>1. ASSUME NEW n PROVE Dts!Misfits(n)' = Dts!Misfits(n)
    BY <1>1 DEF Dts!Misfits, Dts!Places
  <2> QED
    BY <1>1, <2>1, DtsSameStream DEF DtsAllSound, Dts!FrameNo, Dts!Sound
<1>2. CASE UNCHANGED <<stream, out, s, heard>> /\ turn' # "idle"
  <2>1. SUFFICES ASSUME DtsAllSound PROVE \E b : DtsInPhase(b)'
    BY <1>1, <1>2, Zenon DEF DtsPhase
  <2>2. PICK b : DtsInPhase(b)
    BY <2>1 DEF DtsPhase
  <2>3. DtsInPhase(b)'
    BY <1>2, <2>2 DEF DtsInPhase, DtsPlayed
  <2> QED
    BY <2>3
<1>3. CASE Dts!Clear
  <2>1. out' = 0 /\ s' = Dts!ScanReset /\ heard' = << >>
    BY <1>3 DEF Dts!Clear, Dts!Refeed
  <2>2. (DtsInv /\ out = 0 /\ s = Dts!ScanReset /\ heard = << >> => DtsPhase)'
    BY DtsStartPhase, PTL
  <2> QED
    BY <2>1, <2>2 DEF Dts!ScanReset, Dts!NoInfo
<1>4. CASE Dts!Frame
  <2>1. stream' = stream
    BY <1>4, DtsKinds
  <2>2. SUFFICES ASSUME DtsAllSound PROVE \E b : DtsInPhase(b)'
    BY <1>1, <2>1, Zenon DEF DtsPhase
  <2>3. PICK b : DtsInPhase(b)
    BY <2>2 DEF DtsPhase
  <2> QED
    BY <1>4, <2>2, <2>3, DtsFramePhase
<1>5. CASE Dts!Feed
  BY <1>2, <1>5 DEF Dts!Feed
<1>6. CASE Dts!Count
  <2>1. UNCHANGED <<stream, out, s, heard>> /\ turn' # "idle"
    BY <1>6 DEF Dts!Count, Dts!CountSync, Dts!CountFound, Dts!CountHead, Dts!CountBody,
                Dts!CountCross, Dts!CountOut, Dts!Counting
  <2> QED
    BY <1>2, <2>1
<1> QED
  BY <1>3, <1>4, <1>5, <1>6 DEF Dts!Next

DtsAgree == Dts!BurstsFit => \E H : DtsAgrees(H)
\* The DTS scanner of any stream.
DtsGood == DtsInv /\ DtsHeld /\ DtsPure /\ DtsAgree /\ DtsPhase

LEMMA DtsAgreeStart == Dts!Init => DtsAgree
BY DtsFreshAgrees DEF Dts!Init, DtsAgree

LEMMA DtsAgreeKeeps == DtsInv /\ DtsHeld /\ DtsAgree /\ Dts!Next => DtsAgree'
<1> SUFFICES ASSUME DtsInv, DtsHeld, DtsAgree, Dts!Next PROVE DtsAgree'
  OBVIOUS
<1>1. CASE Dts!Clear
  <2>1. /\ stream' \in DtsStreams /\ buf' = 0 /\ out' = 0 /\ turn' = "idle" /\ tail' = 0
        /\ crossed' = 0 /\ heard' = << >> /\ c' = Dts!CountReset /\ s' = Dts!ScanReset
    BY <1>1 DEF Dts!Clear, Dts!Refeed, Dts!CountReset, Dts!ScanReset, Dts!NoInfo
  <2>2. (stream \in DtsStreams /\ buf = 0 /\ out = 0 /\ turn = "idle" /\ tail = 0
         /\ crossed = 0 /\ heard = << >> /\ c = Dts!CountReset /\ s = Dts!ScanReset
         => DtsAgrees(<< >>))'
    BY DtsFreshAgrees, PTL
  <2>3. DtsAgrees(<< >>)'
    BY <2>1, <2>2 DEF Dts!CountReset, Dts!ScanReset, Dts!NoInfo
  <2> QED
    BY <2>3 DEF DtsAgree
<1>2. CASE ~Dts!Clear
  <2>1. Dts!Feed \/ Dts!Count \/ Dts!Frame
    BY <1>2 DEF Dts!Next
  <2>2. stream' = stream
    BY <2>1, DtsSteady
  <2>3. SUFFICES ASSUME Dts!BurstsFit PROVE \E G : DtsAgrees(G)'
    BY <2>2, DtsSameStream, Zenon DEF DtsAgree
  <2>4. PICK H : DtsAgrees(H)
    BY <2>3 DEF DtsAgree
  <2>5. DtsFit(stream) /\ heard \in Seq(DtsBursts) /\ Len(heard) \in Nat
    BY <2>3, DtsStreamFits DEF DtsHeld
  <2> QED
    BY <2>1, <2>3, <2>4, <2>5, DtsFeedAgree, DtsCountAgree, DtsFrameAgree
<1> QED
  BY <1>1, <1>2

LEMMA DtsGoodStart == Dts!Init => DtsGood
<1> SUFFICES ASSUME Dts!Init PROVE DtsGood
  OBVIOUS
<1>1. out = 0 /\ s = Dts!ScanReset /\ heard = << >>
  BY DEF Dts!Init
<1>2. DtsHeld
  <2>1. DtsSeek(stream, 0, 0, Dts!None) /\ Dts!None # Dts!Magic
    BY DtsSeekNew DEF Dts!None, Dts!Magic
  <2> QED
    BY <1>1, <2>1 DEF DtsHeld, Dts!ScanReset
<1> QED
  BY <1>1, <1>2, DtsInitInv, DtsAgreeStart, DtsStartPhase DEF DtsGood, DtsPure

LEMMA DtsGoodKeeps == DtsGood /\ Dts!Next => DtsGood'
<1> SUFFICES ASSUME DtsGood, Dts!Next PROVE DtsGood'
  OBVIOUS
<1>1. DtsInv'
  BY DtsKeeps DEF DtsGood
<1> QED
  BY <1>1, DtsHeldKeeps, DtsPureKeeps, DtsAgreeKeeps, DtsPhaseKeeps DEF DtsGood

LEMMA DtsGoodStays ==
  ASSUME DtsGood, UNCHANGED <<stream, buf, out, tail, turn, s, c, heard, crossed>>
  PROVE  DtsGood'
<1>1. DtsInv'
  BY DEF DtsGood, DtsInv, DtsPlaces, DtsScan, DtsCounter
<1>2. DtsHeld'
  BY DEF DtsGood, DtsHeld
<1>3. DtsPure'
  BY DtsSameStream DEF DtsGood, DtsPure
<1>4. DtsAgree'
  <2> SUFFICES ASSUME DtsAgree PROVE DtsAgree'
    BY DEF DtsGood
  <2> QED
    BY DtsSameStream DEF DtsAgree, DtsAgrees, DtsTurns
<1>5. DtsPhase'
  <2> SUFFICES ASSUME DtsPhase PROVE DtsPhase'
    BY DEF DtsGood
  <2>1. ASSUME NEW n PROVE Dts!Misfits(n)' = Dts!Misfits(n)
    BY DEF Dts!Misfits, Dts!Places
  <2>2. DtsAllSound' = DtsAllSound
    BY <2>1, DtsSameStream DEF DtsAllSound, Dts!FrameNo, Dts!Sound
  <2>3. \A b : DtsInPhase(b)' <=> DtsInPhase(b)
    BY DtsInPhaseSame
  <2> QED
    BY <2>2, <2>3 DEF DtsPhase
<1> QED
  BY <1>1, <1>2, <1>3, <1>4, <1>5 DEF DtsGood

\* At the end of a sound stream every frame was played.
LEMMA DtsAllPlayed ==
  ASSUME DtsGood, DtsAllSound, Dts!AllHeard PROVE Dts!LostOnlyBehindDamage
<1> DEFINE w == stream
<1>1. PICK b : DtsInPhase(b)
  BY DEF DtsGood, DtsPhase
<1>2. /\ w \in Seq(DtsByte) /\ Len(w) \in Nat /\ out = Len(w) /\ turn = "idle"
      /\ s.pay \in Seq(DtsByte) /\ Len(s.pay) \in Nat /\ s.size \in Nat
      /\ heard \in Seq(DtsBursts)
  BY DtsSent DEF DtsGood, DtsInv, DtsPlaces, DtsScan, DtsScanned, DtsHeld, Dts!AllHeard
<1>3. b \in Nat /\ b <= Len(w) /\ DtsBorder(w, b) /\ ~DtsDone(s) /\ (s.size # 0 => ~DtsMisses(s))
  BY <1>1, <1>2 DEF DtsInPhase
<1>4. ASSUME b < Len(w) PROVE FALSE
  <2>1. DtsSoundAt(w, b)
    BY <1>3, <1>4, DtsSoundFrom DEF DtsGood
  <2> DEFINE z == DtsZ(w, b)
             l == Len(s.pay)
  <2>2. z \in Nat /\ z > 9 /\ b + z <= Len(w) /\ b \in DtsY(w)
    BY <2>1 DEF DtsSoundAt
  <2>3. CASE s.sync = Dts!Magic
    <3>1. /\ Len(w) = b + 4 + l /\ (s.size # 0 => s.size = z)
          /\ ~(l >= 6 /\ (s.size = 0 \/ l + 4 >= s.size)) /\ l \in Nat
      BY <1>1, <1>2, <1>3, <2>3 DEF DtsInPhase, DtsTaking, DtsDone
    <3> HIDE DEF z, l
    <3> QED
      BY <1>2, <1>3, <2>2, <3>1
  <2>4. CASE s.sync # Dts!Magic
    <3>1. \A j \in b..Len(w) - 4 : j \notin DtsY(w)
      BY <1>1, <1>2, <2>4 DEF DtsInPhase, DtsSeek
    <3>2. b \in b..Len(w) - 4
      <4> HIDE DEF z
      <4> QED
        BY <1>2, <1>3, <2>2
    <3> QED
      BY <2>2, <3>1, <3>2
  <2> QED
    BY <2>3, <2>4
<1>5. b = Len(w)
  BY <1>2, <1>3, <1>4
<1>6. ASSUME NEW n \in Dts!FrameNo
      PROVE  \E k \in Dts!Places(n) :
                [f |-> n, pure |-> TRUE, size |-> Dts!InfoOf(w[k]).burst] \in Dts!Range(heard)
  <2>1. PICK k \in 1..Len(w) : w[k].f = n
    BY DEF Dts!FrameNo
  <2>2. PICK i \in 1..Len(heard) : /\ heard[i].f = n /\ heard[i].pure
                                   /\ \E h \in 1..Len(w) : /\ w[h].f = n
                                         /\ heard[i].size = Dts!InfoOf(w[h]).burst
    BY <1>1, <1>5, <2>1, ZenonT(40) DEF DtsInPhase, DtsPlayed
  <2>3. PICK h \in 1..Len(w) : w[h].f = n /\ heard[i].size = Dts!InfoOf(w[h]).burst
    BY <2>2
  <2>4. heard[i] \in DtsBursts /\ i \in DOMAIN heard
    BY <1>2, <2>2
  <2>5. heard[i] = [f |-> n, pure |-> TRUE, size |-> Dts!InfoOf(w[h]).burst]
    BY <2>2, <2>3, <2>4 DEF DtsBursts
  <2>6. heard[i] \in Dts!Range(heard)
    BY <2>4 DEF Dts!Range
  <2> QED
    BY <2>3, <2>5, <2>6 DEF Dts!Places
<1> QED
  BY <1>6 DEF Dts!LostOnlyBehindDamage

LEMMA DtsGoodShows == DtsGood => Dts!PureUnlessDamaged /\ Dts!CountsAsFramed
BY DEF DtsGood, DtsPure, DtsAgree, DtsAgrees, DtsTurns, Dts!PureUnlessDamaged, Dts!CountsAsFramed

-----------------------------------------------------------------------------
(* The Mpeg audio counter and scanner on a stream of whole frames, where the *)
(* end of each is where the next begins.                                     *)

\* A frame ends or begins behind place e; one begins there; the stream is
\* whole frames, one behind the other.
Mp2Border(w, e) == e = Len(w) \/ (e \in 0..Len(w) - 1 /\ w[e + 1].i = 0)
Mp2Z(w, e) == Mp2!SizeOf(w[e + 3])
Mp2Marks(w, e) == w[e + 1].v = "ff" /\ w[e + 2].v = "e0"
Mp2At(w, e) ==
    /\ Mp2Z(w, e) \in Nat /\ Mp2Z(w, e) >= MAD_BUFFER_GUARD /\ e + Mp2Z(w, e) <= Len(w)
    /\ w[e + 3].r = Rate /\ Mp2Marks(w, e)
    /\ \A k \in 1..Mp2Z(w, e) : w[e + k].f = w[e + 1].f /\ w[e + k].i = k - 1 /\ w[e + k].ok
    /\ Mp2Border(w, e + Mp2Z(w, e))
    /\ e + Mp2Z(w, e) < Len(w) => w[e + Mp2Z(w, e) + 1].f = w[e + 1].f + 1
Mp2Cut(w) == /\ Mp2Border(w, 0)
             /\ \A e \in 0..Len(w) - 1 : Mp2Border(w, e) => Mp2At(w, e)
             /\ \A j \in 0..Len(w) - 2 : Mp2Marks(w, j) => Mp2Border(w, j)

\* What Count() knows, behind place p of a frame that begins behind b.
Mp2Left(b, p, n) == IF spdif \/ b = 0 THEN 0
                    ELSE IF n = 0 THEN MAD_BUFFER_GUARD
                    ELSE IF p - b <= MAD_BUFFER_GUARD THEN MAD_BUFFER_GUARD - (p - b) ELSE 0
Mp2Half == <<"1f", "ff">>
Mp2CountOK(w, b, p, x) ==
    /\ b \in 0..Len(w) /\ Mp2Border(w, b)
    /\ x.guard = Mp2Left(b, p, x.bfound)
    /\ \/ x.sync = Mp2!None /\ x.bfound = 0 /\ p = b
       \/ x.sync = Mp2Half /\ x.bfound = 0 /\ p = b + 1 /\ b < Len(w)
       \/ x.sync = Mp2!Magic /\ x.bfound \in {0, 2} /\ p = b + 2 /\ b < Len(w)
       \/ /\ x.sync = Mp2!Magic /\ x.bfound >= 3 /\ p = b + x.bfound /\ b < Len(w)
          /\ x.fsize = Mp2Z(w, b) /\ x.bfound <= x.fsize

\* What Frame() knows: the payload is the stream's, the guard bytes are those
\* before p, taken or still to be scanned (q).
Mp2Seek(w, b, p, sync) ==
    /\ b \in 0..p /\ \A j \in b..p - 2 : ~Mp2Marks(w, j)
    /\ sync = <<IF b <= p - 2 THEN w[p - 1].v ELSE IF b = p - 1 THEN "1f" ELSE "00",
                IF b <= p - 1 THEN w[p].v ELSE "1f">>
Mp2Body(w, j, p, q, y) ==
    /\ Mp2Border(w, j) /\ j < Len(w)
    /\ p = j + 2 + Len(y.pay) + Len(y.guard) + Len(q)
    /\ Slice(y.pay, w, j + 2)
    /\ y.size # 0 => Len(y.pay) >= 1 /\ y.size = Mp2Z(w, j) /\ y.rate = w[j + 3].r
    /\ y.guard # << >> => y.size # 0 /\ Len(y.pay) + 2 = y.size /\ q = << >>
    /\ q # << >> => p = j + MAD_BUFFER_GUARD
Mp2Seeks(w, b, p, q, y) ==
    /\ y.pay = << >> /\ y.size = 0 /\ y.guard = << >> /\ Mp2Seek(w, b, p - Len(q), y.sync)
    /\ q # << >> => p = b + MAD_BUFFER_GUARD /\ Mp2Border(w, b)
Mp2Turned(w, p, q, y) ==
    /\ y.pay = << >> /\ y.size = 0 /\ y.sync = Mp2!None /\ q = << >>
    /\ Len(y.guard) = MAD_BUFFER_GUARD /\ p >= MAD_BUFFER_GUARD
    /\ Mp2Border(w, p - MAD_BUFFER_GUARD)
Mp2ScanOK(w, p, q, y) ==
    /\ Len(q) <= p /\ Slice(q, w, p - Len(q))
    /\ Len(y.guard) <= p /\ Slice(y.guard, w, p - Len(y.guard))
    /\ spdif => q = << >> /\ y.guard = << >>
    /\ IF y.sync = Mp2!Magic THEN \E j \in 0..Len(w) : Mp2Body(w, j, p, q, y)
       ELSE Mp2Turned(w, p, q, y) \/ \E b \in 0..Len(w) : Mp2Seeks(w, b, p, q, y)

\* Frame() has all it needs of a frame.
Mp2Ends == Mp2!Ready \/ (spdif /\ Mp2!Fits /\ Mp2!Pos >= s.size)
Mp2Mark(e) == IF spdif THEN e ELSE e + MAD_BUFFER_GUARD
Mp2Passed(b, p, e) == IF spdif THEN e <= b ELSE e + MAD_BUFFER_GUARD <= p
Mp2Tells(b) ==
    /\ \A e \in 1..Len(stream) :
          Mp2Border(stream, e) /\ Mp2Passed(b, buf, e) => ret \/ Mp2Mark(e) <= out
    /\ Mp2Ends => ret /\ turn = "frame"
Mp2Turns == /\ out <= buf
            /\ turn # "count" => buf = tail /\ (c.bfound >= 3 => c.bfound < c.fsize)
            /\ turn = "idle" => out = tail
Mp2Along == /\ Mp2Turns /\ Mp2ScanOK(stream, out, obuf, s)
            /\ \E b \in 0..Len(stream) : Mp2CountOK(stream, b, buf, c) /\ Mp2Tells(b)

LEMMA Mp2Sizes ==
  ASSUME NEW w \in Seq(Mp2Byte), NEW e \in Nat, e + 3 <= Len(w)
  PROVE  Mp2Z(w, e) \in Nat
<1>1. e + 3 \in 1..Len(w)
  OBVIOUS
<1>2. w[e + 3] \in Mp2Byte
  BY <1>1
<1> QED
  BY <1>2, Mp2SizeOf DEF Mp2Z

\* The bytes of a whole frame.
LEMMA Mp2WholePlaces ==
  ASSUME Mp2Inv, NEW n, NEW j \in 0..Len(stream) - 3, Mp2!WholeAt(n, j)
  PROVE  /\ j \in Nat /\ Mp2Z(stream, j) \in Nat /\ Mp2Z(stream, j) >= MAD_BUFFER_GUARD
         /\ j + Mp2Z(stream, j) <= Len(stream)
         /\ stream[j + 3].r = Rate /\ Mp2Marks(stream, j)
         /\ \A k \in 1..Len(stream) : stream[k].f = n <=> k \in j + 1..j + Mp2Z(stream, j)
         /\ \A k \in 1..Mp2Z(stream, j) :
               stream[j + k].f = n /\ stream[j + k].i = k - 1 /\ stream[j + k].ok
<1> DEFINE w == stream
           z == Mp2Z(w, j)
<1>1. w \in Seq(Mp2Byte) /\ Len(w) \in Nat
  BY Mp2Sent DEF Mp2Inv, Mp2Places
<1>2. j \in Nat /\ j + 3 <= Len(w)
  BY <1>1
<1>3. z \in Nat
  BY <1>1, <1>2, Mp2Sizes
<1>4. z >= MAD_BUFFER_GUARD /\ w[j + 3].r = Rate /\ Mp2!Places(n) = j + 1..j + z
  BY DEF Mp2!WholeAt, Mp2Z
<1>5. Mp2Marks(w, j)
  BY DEF Mp2!WholeAt, Mp2!SyncAt, Mp2!Magic, Mp2Marks
<1>6. ASSUME NEW k \in Mp2!Places(n) PROVE w[k].i = (k - j) - 1 /\ w[k].ok
  BY <1>6 DEF Mp2!WholeAt
<1> HIDE DEF z
<1>7. \A k \in 1..Len(w) : w[k].f = n <=> k \in j + 1..j + z
  BY <1>4 DEF Mp2!Places
<1>8. j + z <= Len(w)
  <2>1. j + z \in j + 1..j + z
    BY <1>2, <1>3, <1>4, GuardAssumption
  <2>2. j + z \in 1..Len(w)
    BY <1>4, <2>1 DEF Mp2!Places
  <2> QED
    BY <1>1, <2>2
<1>9. ASSUME NEW k \in 1..z PROVE w[j + k].f = n /\ w[j + k].i = k - 1 /\ w[j + k].ok
  <2>1. j + k \in Mp2!Places(n)
    BY <1>2, <1>3, <1>4
  <2>2. w[j + k].i = ((j + k) - j) - 1 /\ w[j + k].ok
    BY <1>6, <2>1
  <2>3. ((j + k) - j) - 1 = k - 1
    BY <1>2
  <2> QED
    BY <2>1, <2>2, <2>3 DEF Mp2!Places
<1> QED
  BY <1>2, <1>3, <1>4, <1>5, <1>7, <1>8, <1>9 DEF z

\* Of whole frames, the bytes with place 0 are the first ones.
LEMMA Mp2StartsAt ==
  ASSUME Mp2Inv, Mp2!Intact, NEW k \in 1..Len(stream)
  PROVE  \E j \in 0..Len(stream) - 3 :
            /\ Mp2!WholeAt(stream[k].f, j) /\ k \in j + 1..j + Mp2Z(stream, j)
            /\ stream[k].i = 0 <=> k = j + 1
<1> DEFINE n == stream[k].f
<1>1. stream \in Seq(Mp2Byte) /\ Len(stream) \in Nat
  BY Mp2Sent DEF Mp2Inv, Mp2Places
<1>2. n \in Mp2!FrameNo
  BY DEF Mp2!FrameNo
<1>3. PICK j \in 0..Len(stream) - 3 : Mp2!WholeAt(n, j)
  BY <1>2 DEF Mp2!Intact, Mp2!Whole
<1>4. /\ j \in Nat /\ Mp2Z(stream, j) \in Nat
      /\ \A i \in 1..Len(stream) : stream[i].f = n <=> i \in j + 1..j + Mp2Z(stream, j)
      /\ \A i \in 1..Mp2Z(stream, j) : stream[j + i].i = i - 1
  BY <1>3, Mp2WholePlaces
<1>5. k \in j + 1..j + Mp2Z(stream, j)
  BY <1>4
<1>6. stream[k].i = 0 <=> k = j + 1
  <2>1. (k - j) \in 1..Mp2Z(stream, j) /\ j + (k - j) = k
    BY <1>4, <1>5
  <2>2. stream[j + (k - j)].i = (k - j) - 1
    BY <1>4, <2>1
  <2> QED
    BY <1>4, <2>1, <2>2
<1> QED
  BY <1>3, <1>5, <1>6

LEMMA Mp2IntactAt ==
  ASSUME Mp2Inv, Mp2!Intact, NEW e \in 0..Len(stream) - 1, Mp2Border(stream, e)
  PROVE  Mp2At(stream, e)
<1> DEFINE w == stream
           n == w[e + 1].f
           z == Mp2Z(w, e)
<1>1. w \in Seq(Mp2Byte) /\ Len(w) \in Nat /\ \A k \in 1..Len(w) : w[k] \in Mp2Byte
  BY Mp2Sent DEF Mp2Inv, Mp2Places
<1>2. e \in Nat /\ e + 1 \in 1..Len(w) /\ w[e + 1].i = 0
  BY <1>1 DEF Mp2Border
<1>3. PICK j \in 0..Len(w) - 3 : Mp2!WholeAt(n, j) /\ (w[e + 1].i = 0 <=> e + 1 = j + 1)
  BY <1>2, Mp2StartsAt
<1>4. Mp2!WholeAt(n, e) /\ e \in 0..Len(w) - 3
  <2>1. j = e
    BY <1>1, <1>2, <1>3
  <2> QED
    BY <1>3, <2>1
<1>5. /\ z \in Nat /\ z >= MAD_BUFFER_GUARD /\ e + z <= Len(w) /\ w[e + 3].r = Rate
      /\ Mp2Marks(w, e)
      /\ \A k \in 1..Len(w) : w[k].f = n <=> k \in e + 1..e + z
      /\ \A k \in 1..z : w[e + k].f = n /\ w[e + k].i = k - 1 /\ w[e + k].ok
  BY <1>4, Mp2WholePlaces
<1> HIDE DEF z
<1>6. ASSUME e + z < Len(w)
      PROVE  w[e + z + 1].f = n + 1 /\ w[e + z + 1].i = 0
  <2> DEFINE k == e + z
             a == w[k].f
             m == w[k + 1].f
  <2>1. k \in 1..Len(w) - 1 /\ k + 1 \in 1..Len(w)
    BY <1>1, <1>2, <1>5, <1>6, GuardAssumption
  <2>2. m \in {a, a + 1}
    <3>1. w \in Mp2Streams
      BY DEF Mp2Inv, Mp2Places
    <3> QED
      BY <2>1, <3>1, OrderAssumption
  <2>3. k \in e + 1..e + z /\ k + 1 \notin e + 1..e + z
    BY <1>2, <1>5, GuardAssumption
  <2>4. a = n
    BY <1>1, <1>5, <2>1, <2>3
  <2>5. m # n
    BY <1>5, <2>1, <2>3
  <2>6. PICK i \in 0..Len(w) - 3 : /\ Mp2!WholeAt(m, i) /\ k + 1 \in i + 1..i + Mp2Z(w, i)
                                   /\ w[k + 1].i = 0 <=> k + 1 = i + 1
    BY <2>1, Mp2StartsAt
  <2>7. /\ i \in Nat /\ Mp2Z(w, i) \in Nat
        /\ \A l \in 1..Len(w) : w[l].f = m <=> l \in i + 1..i + Mp2Z(w, i)
    BY <2>6, Mp2WholePlaces
  <2> HIDE DEF k, m, a
  <2>8. k \notin i + 1..i + Mp2Z(w, i)
    <3>1. k \in 1..Len(w) /\ w[k].f # m
      BY <1>1, <2>1, <2>4, <2>5 DEF a
    <3> QED
      BY <2>7, <3>1
  <2>9. k = i
    BY <2>1, <2>6, <2>7, <2>8
  <2>10. w[k + 1].i = 0 /\ m = n + 1
    BY <2>2, <2>4, <2>5, <2>6, <2>9
  <2> QED
    BY <2>10 DEF k, m
<1>7. Mp2Border(w, e + z)
  <2>1. CASE e + z < Len(w)
    <3>1. e + z \in 0..Len(w) - 1
      BY <1>1, <1>2, <1>5, <2>1
    <3> QED
      BY <1>6, <2>1, <3>1 DEF Mp2Border
  <2>2. CASE ~(e + z < Len(w))
    <3>1. e + z = Len(w)
      BY <1>1, <1>2, <1>5, <2>2
    <3> QED
      BY <3>1 DEF Mp2Border
  <2> QED
    BY <2>1, <2>2
<1> QED
  BY <1>5, <1>6, <1>7 DEF Mp2At, z

LEMMA Mp2IntactCut == Mp2Inv /\ Mp2!Intact => Mp2Cut(stream)
<1> SUFFICES ASSUME Mp2Inv, Mp2!Intact PROVE Mp2Cut(stream)
  OBVIOUS
<1> DEFINE w == stream
<1>1. w \in Seq(Mp2Byte) /\ Len(w) \in Nat
  BY Mp2Sent DEF Mp2Inv, Mp2Places
<1>2. Mp2Border(w, 0)
  <2>1. CASE Len(w) = 0
    BY <2>1 DEF Mp2Border
  <2>2. CASE Len(w) # 0
    <3>1. 1 \in 1..Len(w) /\ 0 \in 0..Len(w) - 1
      BY <1>1, <2>2
    <3>2. PICK j \in 0..Len(w) - 3 : /\ 1 \in j + 1..j + Mp2Z(w, j)
                                     /\ w[1].i = 0 <=> 1 = j + 1
      BY <3>1, Mp2StartsAt
    <3>3. j = 0
      BY <1>1, <3>2
    <3> QED
      BY <3>1, <3>2, <3>3 DEF Mp2Border
  <2> QED
    BY <2>1, <2>2
<1>3. \A e \in 0..Len(w) - 1 : Mp2Border(w, e) => Mp2At(w, e)
  BY Mp2IntactAt
<1>4. ASSUME NEW j \in 0..Len(w) - 2, Mp2Marks(w, j) PROVE Mp2Border(w, j)
  <2>1. Mp2!SyncAt(j)
    BY <1>4 DEF Mp2Marks, Mp2!SyncAt, Mp2!Magic
  <2>2. w[j + 1].i = 0 /\ j \in 0..Len(w) - 1
    BY <1>1, <2>1 DEF Mp2!Intact
  <2> QED
    BY <2>2 DEF Mp2Border
<1> QED
  BY <1>2, <1>3, <1>4 DEF Mp2Cut

LEMMA Mp2Begins ==
  ASSUME NEW w \in Seq(Mp2Byte), Mp2Cut(w), NEW e \in Nat, Mp2Border(w, e), e # Len(w)
  PROVE  /\ Mp2At(w, e) /\ Mp2Z(w, e) \in Nat /\ Mp2Z(w, e) >= MAD_BUFFER_GUARD
         /\ e + Mp2Z(w, e) <= Len(w) /\ Mp2Border(w, e + Mp2Z(w, e))
<1>1. e \in 0..Len(w) - 1
  BY DEF Mp2Border
<1> QED
  BY <1>1 DEF Mp2Cut, Mp2At

LEMMA Mp2Apart ==
  ASSUME NEW w \in Seq(Mp2Byte), Mp2Cut(w), NEW d \in Nat, NEW e \in Nat,
         Mp2Border(w, d), Mp2Border(w, e), d < e
  PROVE  d # Len(w) /\ d + Mp2Z(w, d) <= e
<1> DEFINE z == Mp2Z(w, d)
<1>1. Len(w) \in Nat /\ e <= Len(w)
  BY DEF Mp2Border
<1>2. d # Len(w)
  BY <1>1
<1>3. z \in Nat /\ d + z <= Len(w) /\ \A k \in 1..z : w[d + k].i = k - 1
  BY <1>2, Mp2Begins DEF Mp2At
<1> HIDE DEF z
<1>4. ASSUME ~(d + z <= e) PROVE FALSE
  <2>1. e # Len(w)
    BY <1>1, <1>3, <1>4
  <2>2. w[e + 1].i = 0
    BY <2>1 DEF Mp2Border
  <2>3. (e + 1) - d \in 1..z /\ d + ((e + 1) - d) = e + 1
    BY <1>3, <1>4
  <2>4. w[d + ((e + 1) - d)].i = ((e + 1) - d) - 1
    BY <1>3, <2>3
  <2> QED
    BY <2>2, <2>3, <2>4
<1> QED
  BY <1>2, <1>4 DEF z

\* The places of the counter in a frame that begins behind b.
LEMMA Mp2CountAt ==
  ASSUME NEW w \in Seq(Mp2Byte), Mp2Cut(w), NEW b, NEW p \in Nat, NEW x, x.bfound \in Nat,
         Mp2CountOK(w, b, p, x)
  PROVE  /\ b \in Nat /\ b <= p /\ Mp2Border(w, b)
         /\ p # b => b # Len(w)
         /\ x.bfound < 3 => p <= b + 2
         /\ x.bfound >= 3 => p = b + x.bfound /\ x.fsize = Mp2Z(w, b) /\ x.bfound <= x.fsize
                             /\ b # Len(w)
<1>1. Len(w) \in Nat
  OBVIOUS
<1> QED
  BY <1>1 DEF Mp2CountOK

LEMMA Mp2Within ==
  ASSUME NEW w \in Seq(Mp2Byte), Mp2Cut(w), NEW b, NEW p \in Nat, NEW x, x.bfound \in Nat,
         Mp2CountOK(w, b, p, x), x.bfound >= 3 => x.bfound < x.fsize,
         NEW e \in Nat, Mp2Border(w, e), e <= p
  PROVE  e <= b
<1>1. /\ b \in Nat /\ b <= p /\ Mp2Border(w, b)
      /\ x.bfound < 3 => p <= b + 2
      /\ x.bfound >= 3 => p = b + x.bfound /\ x.fsize = Mp2Z(w, b) /\ x.bfound <= x.fsize
  BY Mp2CountAt
<1>2. ASSUME b < e PROVE FALSE
  <2>1. b # Len(w) /\ b + Mp2Z(w, b) <= e
    BY <1>1, <1>2, Mp2Apart
  <2>2. Mp2Z(w, b) \in Nat /\ Mp2Z(w, b) >= MAD_BUFFER_GUARD
    BY <1>1, <2>1, Mp2Begins
  <2> QED
    BY <1>1, <2>1, <2>2, GuardAssumption
<1> QED
  BY <1>1, <1>2

\* Of the guards that end in a frame, all but that of the frame before end
\* where it begins.
LEMMA Mp2MarkOf ==
  ASSUME NEW w \in Seq(Mp2Byte), Mp2Cut(w), NEW b \in Nat, Mp2Border(w, b), b # Len(w),
         NEW e \in Nat, Mp2Border(w, e), e + MAD_BUFFER_GUARD <= b + Mp2Z(w, b)
  PROVE  e = b \/ e + MAD_BUFFER_GUARD <= b
<1>1. Mp2Z(w, b) \in Nat
  BY Mp2Begins
<1>2. ~(b < e)
  <2>1. b < e => b + Mp2Z(w, b) <= e
    BY Mp2Apart
  <2> QED
    BY <1>1, <2>1, GuardAssumption
<1>3. ASSUME e < b PROVE e + MAD_BUFFER_GUARD <= b
  <2>1. e # Len(w) /\ e + Mp2Z(w, e) <= b
    BY <1>3, Mp2Apart
  <2>2. Mp2Z(w, e) \in Nat /\ Mp2Z(w, e) >= MAD_BUFFER_GUARD
    BY <2>1, Mp2Begins
  <2> QED
    BY <2>1, <2>2, GuardAssumption
<1> QED
  BY <1>2, <1>3

LEMMA Mp2CountStep ==
  ASSUME Mp2Inv, Mp2Cut(stream), Mp2Along, Mp2!Count PROVE Mp2Along'
<1> DEFINE w == stream
           G == MAD_BUFFER_GUARD
<1>1. /\ UNCHANGED <<stream, spdif, tail, out, s, obuf, last, heard, running, rest>>
      /\ turn = "count"
  BY DEF Mp2!Count, Mp2!CountSync, Mp2!CountFound, Mp2!CountHead, Mp2!CountBody, Mp2!CountCross,
         Mp2!CountOut, Mp2!Counting, Mp2!frameVars, Mp2!madVars
<1>2. /\ w \in Seq(Mp2Byte) /\ Len(w) \in Nat /\ tail \in Nat /\ buf \in Nat /\ out \in Nat
      /\ tail <= Len(w) /\ buf <= tail /\ G \in Nat /\ G >= 4
  BY Mp2Sent, GuardAssumption DEF Mp2Inv, Mp2Places
<1>3. /\ c \in [sync : {c.sync}, bfound : Nat, fsize : Nat, guard : Nat]
      /\ c.bfound \in Nat /\ c.fsize \in Nat /\ c.guard \in Nat
  BY DEF Mp2Inv, Mp2Counter
<1>4. Mp2Turns /\ Mp2ScanOK(w, out, obuf, s) /\ out <= buf
  BY DEF Mp2Along, Mp2Turns
<1>5. PICK b \in 0..Len(w) : Mp2CountOK(w, b, buf, c) /\ Mp2Tells(b)
  BY DEF Mp2Along
<1>6. /\ b \in Nat /\ b <= buf /\ Mp2Border(w, b)
      /\ buf # b => b # Len(w)
      /\ c.bfound < 3 => buf <= b + 2
      /\ c.bfound >= 3 => /\ buf = b + c.bfound /\ c.fsize = Mp2Z(w, b)
                          /\ c.bfound <= c.fsize /\ b # Len(w)
      /\ c.guard = Mp2Left(b, buf, c.bfound)
  <2>1. c.guard = Mp2Left(b, buf, c.bfound)
    BY <1>5 DEF Mp2CountOK
  <2>2. /\ b \in Nat /\ b <= buf /\ Mp2Border(w, b)
        /\ buf # b => b # Len(w)
        /\ c.bfound < 3 => buf <= b + 2
        /\ c.bfound >= 3 => buf = b + c.bfound /\ c.fsize = Mp2Z(w, b) /\ c.bfound <= c.fsize
                            /\ b # Len(w)
    BY <1>2, <1>3, <1>5, Mp2CountAt
  <2> QED
    BY <2>1, <2>2
<1>7. ~Mp2Ends /\ (Mp2Ends' <=> Mp2Ends)
  <2>1. ~Mp2Ends
    BY <1>1, <1>5 DEF Mp2Tells
  <2>2. Mp2Ends' <=> Mp2Ends
    BY <1>1 DEF Mp2Ends, Mp2!Ready, Mp2!Fits, Mp2!HeadKnown, Mp2!Pos, Mp2!GuardFull
  <2> QED
    BY <2>1, <2>2
<1>8. ASSUME NEW a \in 0..Len(w), Mp2CountOK(w, a, buf', c'), out <= buf',
             turn' = "count" \/ (turn' = "frame" /\ buf' = tail
                                 /\ (c'.bfound >= 3 => c'.bfound < c'.fsize)),
             \A e \in 1..Len(w) : Mp2Border(w, e) /\ Mp2Passed(a, buf', e)
                                     => ret' \/ Mp2Mark(e) <= out
      PROVE  Mp2Along'
  <2>1. Mp2Tells(a)'
    BY <1>1, <1>7, <1>8 DEF Mp2Tells, Mp2Passed, Mp2Mark
  <2>2. Mp2Turns'
    BY <1>1, <1>8 DEF Mp2Turns
  <2>3. Mp2ScanOK(w, out, obuf, s)'
    BY <1>1, <1>4 DEF Mp2ScanOK, Mp2Body, Mp2Turned, Mp2Seeks
  <2>4. Mp2CountOK(w, a, buf, c)'
    BY <1>1, <1>8 DEF Mp2CountOK, Mp2Left
  <2> QED
    BY <1>1, <1>8, <2>1, <2>2, <2>3, <2>4 DEF Mp2Along
<1>9. ASSUME NEW e \in 1..Len(w), Mp2Border(w, e), Mp2Passed(b, buf, e)
      PROVE  ret \/ Mp2Mark(e) <= out
  BY <1>5, <1>9 DEF Mp2Tells
\* Steps that stay in the frame.
<1>10. ASSUME b # Len(w), Mp2CountOK(w, b, buf', c'), buf' \in Nat, buf <= buf',
              buf' <= b + Mp2Z(w, b),
              turn' = turn, ret => ret',
              b # 0 /\ ~spdif /\ buf < b + G /\ b + G <= buf' => ret'
       PROVE  Mp2Along'
  <2>1. out <= buf'
    BY <1>2, <1>4, <1>10
  <2>2. ASSUME NEW e \in 1..Len(w), Mp2Border(w, e), Mp2Passed(b, buf', e)
        PROVE  ret' \/ Mp2Mark(e) <= out
    <3>1. CASE Mp2Passed(b, buf, e)
      BY <1>9, <1>10, <2>2, <3>1
    <3>2. CASE ~Mp2Passed(b, buf, e)
      <4>1. ~spdif /\ e + G <= buf' /\ ~(e + G <= buf)
        BY <2>2, <3>2 DEF Mp2Passed
      <4>2. e + G <= b + Mp2Z(w, b)
        <5>1. Mp2Z(w, b) \in Nat
          BY <1>2, <1>6, <1>10, Mp2Begins
        <5> QED
          BY <1>2, <1>6, <1>10, <4>1, <5>1
      <4>3. e = b
        <5>1. e = b \/ e + G <= b
          BY <1>2, <1>6, <1>10, <2>2, <4>2, Mp2MarkOf
        <5> QED
          BY <1>2, <1>6, <4>1, <5>1
      <4>4. b # 0 /\ buf < b + G /\ b + G <= buf'
        BY <1>2, <1>6, <4>1, <4>3
      <4> QED
        BY <1>10, <4>1, <4>4
    <3> QED
      BY <3>1, <3>2
  <2> QED
    BY <1>1, <1>5, <1>8, <1>10, <2>1, <2>2
<1>11. b # Len(w) => /\ Mp2At(w, b) /\ Mp2Z(w, b) \in Nat /\ Mp2Z(w, b) >= G
                     /\ b + Mp2Z(w, b) <= Len(w) /\ Mp2Border(w, b + Mp2Z(w, b))
                     /\ w[b + 1].v = "ff" /\ w[b + 2].v = "e0"
  BY <1>2, <1>6, Mp2Begins DEF Mp2At, Mp2Marks
<1>12. CASE Mp2!CountSync
  <2>1. /\ UNCHANGED <<turn, ret>> /\ c.sync # Mp2!Magic /\ c.bfound < 2 /\ buf < tail
        /\ buf' = buf + 1 /\ c' = [c EXCEPT !.sync = <<@[2], w[buf + 1].v>>]
    BY <1>12 DEF Mp2!CountSync
  <2>2. /\ c'.sync = <<c.sync[2], w[buf + 1].v>> /\ c'.bfound = c.bfound
        /\ c'.guard = c.guard /\ c'.fsize = c.fsize
    BY <1>3, <2>1
  <2>3. b # Len(w) /\ c.bfound = 0
        /\ (\/ c.sync = Mp2!None /\ buf = b
            \/ c.sync = Mp2Half /\ buf = b + 1)
    BY <1>2, <1>3, <1>5, <1>6, <2>1 DEF Mp2CountOK
  <2>4. \/ c'.sync = Mp2Half /\ buf' = b + 1
        \/ c'.sync = Mp2!Magic /\ buf' = b + 2
    <3>1. CASE c.sync = Mp2!None /\ buf = b
      BY <1>11, <2>1, <2>2, <2>3, <3>1 DEF Mp2!None, Mp2Half
    <3>2. CASE c.sync = Mp2Half /\ buf = b + 1
      <4>1. w[buf + 1].v = "e0" /\ buf + 1 = b + 2
        BY <1>6, <1>11, <2>3, <3>2
      <4> QED
        BY <2>1, <2>2, <3>2, <4>1 DEF Mp2Half, Mp2!Magic
    <3> QED
      BY <2>3, <3>1, <3>2
  <2>5. Mp2CountOK(w, b, buf', c')
    <3>1. c'.bfound = 0 /\ c'.guard = Mp2Left(b, buf', 0) /\ b < Len(w)
      BY <1>2, <1>5, <1>6, <2>2, <2>3 DEF Mp2Left
    <3> QED
      BY <1>5, <1>6, <2>4, <3>1 DEF Mp2CountOK
  <2>6. /\ buf' \in Nat /\ buf <= buf' /\ buf' <= b + Mp2Z(w, b)
        /\ ~(b + G <= buf')
    <3>1. b \in Nat /\ Mp2Z(w, b) \in Nat /\ Mp2Z(w, b) >= G /\ b + 1 <= buf' /\ buf' <= b + 2
      BY <1>2, <1>6, <1>11, <2>1, <2>3, <2>4
    <3> QED
      BY <1>2, <2>1, <3>1
  <2> QED
    BY <1>10, <2>1, <2>3, <2>5, <2>6
<1>13. CASE Mp2!CountFound
  <2>1. /\ UNCHANGED <<turn, buf, ret>> /\ c.sync = Mp2!Magic /\ c.bfound < 2
        /\ c' = [c EXCEPT !.bfound = 2, !.guard = IF @ = G THEN @ - 2 ELSE 0]
    BY <1>13 DEF Mp2!CountFound
  <2>2. /\ c'.sync = c.sync /\ c'.bfound = 2 /\ c'.fsize = c.fsize
        /\ c'.guard = IF c.guard = G THEN c.guard - 2 ELSE 0
    BY <1>3, <2>1
  <2>3. b < Len(w) /\ c.bfound = 0 /\ buf = b + 2
    BY <1>2, <1>3, <1>5, <1>6, <2>1 DEF Mp2CountOK, Mp2!Magic, Mp2!None, Mp2Half
  <2>4. c'.guard = Mp2Left(b, buf, 2)
    BY <1>2, <1>6, <2>2, <2>3 DEF Mp2Left
  <2>5. Mp2CountOK(w, b, buf', c')
    BY <1>5, <1>6, <2>1, <2>2, <2>3, <2>4 DEF Mp2CountOK
  <2>6. buf' <= b + Mp2Z(w, b) /\ b # Len(w) /\ ~(b + G <= buf')
    BY <1>2, <1>6, <1>11, <2>1, <2>3
  <2> QED
    BY <1>2, <1>10, <2>1, <2>5, <2>6
<1>14. CASE Mp2!CountHead
  <2> DEFINE g == IF c.guard # 0 /\ c.guard = G - 2 THEN c.guard - 1 ELSE 0
  <2>1. /\ UNCHANGED <<turn, ret>> /\ c.bfound = 2 /\ buf < tail
    BY <1>14 DEF Mp2!CountHead
  <2>3. c.sync = Mp2!Magic /\ b < Len(w) /\ buf = b + 2
    BY <1>2, <1>3, <1>5, <1>6, <2>1 DEF Mp2CountOK
  <2>4. Mp2!SizeOf(w[buf + 1]) = Mp2Z(w, b) /\ Mp2!SizeOf(w[buf + 1]) # 0
    <3>1. buf + 1 = b + 3
      BY <1>6, <2>3
    <3>2. Mp2!SizeOf(w[buf + 1]) = Mp2Z(w, b)
      BY <3>1 DEF Mp2Z
    <3> QED
      BY <1>2, <1>6, <1>11, <2>3, <3>2
  <2>5. /\ buf' = buf + 1
        /\ c' = [c EXCEPT !.bfound = 3, !.guard = g, !.fsize = Mp2!SizeOf(w[buf + 1])]
    BY <1>14, <2>4 DEF Mp2!CountHead
  <2>2. /\ c'.sync = c.sync /\ c'.bfound = 3 /\ c'.fsize = Mp2Z(w, b) /\ c'.guard = g
    BY <1>3, <2>4, <2>5
  <2>6. c'.guard = Mp2Left(b, buf', 3) /\ buf' = b + 3
    BY <1>2, <1>6, <2>1, <2>2, <2>3, <2>5 DEF Mp2Left
  <2>7. Mp2CountOK(w, b, buf', c')
    <3>1. 3 <= Mp2Z(w, b)
      BY <1>2, <1>11, <2>3
    <3> QED
      BY <1>5, <1>6, <2>2, <2>3, <2>6, <3>1 DEF Mp2CountOK
  <2>8. buf' \in Nat /\ buf <= buf' /\ buf' <= b + Mp2Z(w, b) /\ b # Len(w) /\ ~(b + G <= buf')
    BY <1>2, <1>6, <1>11, <2>3, <2>6
  <2> QED
    BY <1>10, <2>1, <2>7, <2>8
<1>15. CASE Mp2!CountBody
  <2> DEFINE n == Mp2!Least(c.fsize - c.bfound, tail - buf)
             m == Mp2!Least(n, c.guard)
  <2>1. /\ UNCHANGED turn /\ c.bfound >= 3 /\ c.bfound < c.fsize /\ buf < tail
        /\ buf' = buf + n /\ ret' = (ret \/ (c.guard # 0 /\ n >= c.guard))
        /\ c' = [c EXCEPT !.bfound = @ + n, !.guard = @ - m]
    BY <1>15 DEF Mp2!CountBody
  <2>2. /\ c'.sync = c.sync /\ c'.bfound = c.bfound + n /\ c'.fsize = c.fsize
        /\ c'.guard = c.guard - m
    BY <1>3, <2>1
  <2>3. n \in Nat /\ n <= c.fsize - c.bfound
    BY <1>2, <1>3, <2>1, SMTT(40) DEF Mp2!Least
  <2>4. m = IF n < c.guard THEN n ELSE c.guard
    BY DEF Mp2!Least
  <2> HIDE DEF n, m
  <2>5. b # Len(w) /\ b < Len(w) /\ c.sync = Mp2!Magic
    BY <1>2, <1>3, <1>5, <1>6, <2>1 DEF Mp2CountOK
  <2>6. buf' = b + c'.bfound /\ c'.bfound <= c'.fsize /\ c'.bfound >= 3 /\ buf' \in Nat
        /\ buf <= buf' /\ buf' <= b + Mp2Z(w, b)
    <3> DEFINE x == c.bfound
               z == c.fsize
    <3>1. /\ x \in Nat /\ z \in Nat /\ b \in Nat /\ n \in Nat /\ n <= z - x /\ x >= 3 /\ buf = b + x
          /\ z = Mp2Z(w, b) /\ buf' = buf + n /\ c'.bfound = x + n /\ c'.fsize = z
      BY <1>3, <1>6, <2>1, <2>2, <2>3
    <3> HIDE DEF x, z
    <3>2. x + n <= z /\ x + n >= 3 /\ buf' = b + (x + n) /\ buf <= buf' /\ buf' \in Nat
          /\ buf' <= b + z
      BY <3>1
    <3> QED
      BY <3>1, <3>2
  <2>7. c'.guard = Mp2Left(b, buf', c'.bfound)
    <3>1. CASE spdif \/ b = 0
      <4>1. c.guard = 0
        BY <1>6, <3>1 DEF Mp2Left
      <4>3. n \in Nat /\ m = IF n < 0 THEN n ELSE 0
        BY <2>3, <2>4, <4>1
      <4>4. m = 0
        BY <4>3
      <4>2. c'.guard = 0
        BY <2>2, <4>1, <4>4
      <4> QED
        BY <3>1, <4>2 DEF Mp2Left
    <3>2. CASE ~(spdif \/ b = 0)
      <4> DEFINE x == c.bfound
                 g == c.guard
      <4>1. /\ x \in Nat /\ g \in Nat /\ x >= 3 /\ buf - b = x /\ buf' - b = x + n
            /\ c'.guard = g - m /\ m = (IF n < g THEN n ELSE g) /\ c'.bfound = x + n
        BY <1>3, <1>6, <2>1, <2>2, <2>3, <2>4
      <4>2. g = IF x <= G THEN G - x ELSE 0
        BY <1>6, <3>2, <4>1 DEF Mp2Left
      <4>3. Mp2Left(b, buf', c'.bfound) = IF x + n <= G THEN G - (x + n) ELSE 0
        <5>1. c'.bfound # 0
          BY <2>3, <4>1
        <5> QED
          BY <3>2, <4>1, <5>1 DEF Mp2Left
      <4> HIDE DEF x, g
      <4> QED
        BY <1>2, <2>3, <4>1, <4>2, <4>3
    <3> QED
      BY <3>1, <3>2
  <2>8. Mp2CountOK(w, b, buf', c')
    BY <1>5, <1>6, <2>1, <2>2, <2>5, <2>6, <2>7 DEF Mp2CountOK
  <2>9. ASSUME b # 0, ~spdif, buf < b + G, b + G <= buf' PROVE ret'
    <3>1. c.guard = G - (buf - b)
      BY <1>2, <1>3, <1>6, <2>1, <2>9 DEF Mp2Left
    <3>2. c.guard # 0 /\ n >= c.guard
      BY <1>2, <1>6, <2>1, <2>3, <2>9, <3>1
    <3> QED
      BY <2>1, <3>2
  <2> QED
    BY <1>10, <2>1, <2>5, <2>6, <2>8, <2>9
<1>16. CASE Mp2!CountCross
  <2> DEFINE a == b + Mp2Z(w, b)
  <2>1. /\ UNCHANGED <<turn, buf>> /\ c.bfound >= 3 /\ c.bfound >= c.fsize
        /\ c' = [c EXCEPT !.bfound = 0, !.sync = Mp2!None, !.guard = IF spdif THEN @ ELSE G]
        /\ ret' = (ret \/ spdif)
    BY <1>16 DEF Mp2!CountCross
  <2>2. /\ c'.sync = Mp2!None /\ c'.bfound = 0
        /\ c'.guard = IF spdif THEN c.guard ELSE G
    BY <1>3, <2>1
  <2>3. buf = a /\ Mp2Border(w, a) /\ a \in 0..Len(w) /\ a # 0
    BY <1>2, <1>3, <1>6, <1>11, <2>1
  <2> HIDE DEF a
  <2>4. c'.guard = Mp2Left(a, buf, 0)
    BY <1>6, <2>2, <2>3 DEF Mp2Left
  <2>5. Mp2CountOK(w, a, buf', c')
    BY <2>1, <2>2, <2>3, <2>4 DEF Mp2CountOK
  <2>6. ASSUME NEW e \in 1..Len(w), Mp2Border(w, e), Mp2Passed(a, buf', e)
        PROVE  ret' \/ Mp2Mark(e) <= out
    <3>1. CASE spdif
      BY <2>1, <3>1
    <3>2. CASE ~spdif
      <4>1. Mp2Passed(b, buf, e)
        BY <2>1, <2>6, <3>2 DEF Mp2Passed
      <4> QED
        BY <1>9, <2>1, <2>6, <4>1
    <3> QED
      BY <3>1, <3>2
  <2> QED
    BY <1>1, <1>4, <1>8, <2>1, <2>3, <2>5, <2>6
<1>17. CASE Mp2!CountOut
  <2>1. /\ UNCHANGED <<buf, c, ret>> /\ turn' = "frame" /\ buf >= tail
        /\ ~(c.bfound >= 3 /\ c.bfound >= c.fsize)
    BY <1>17 DEF Mp2!CountOut, Mp2!countVars
  <2>2. buf = tail /\ (c.bfound >= 3 => c.bfound < c.fsize)
    BY <1>2, <1>3, <2>1
  <2> QED
    BY <1>4, <1>5, <1>8, <1>9, <2>1, <2>2
<1> QED
  BY <1>12, <1>13, <1>14, <1>15, <1>16, <1>17 DEF Mp2!Count

LEMMA Mp2Facts ==
  ASSUME Mp2Inv
  PROVE  /\ stream \in Seq(Mp2Byte) /\ Len(stream) \in Nat
         /\ out \in Nat /\ tail \in Nat /\ buf \in Nat
         /\ out <= tail /\ buf <= tail /\ tail <= Len(stream)
         /\ s \in Mp2Scanned(s.sync) /\ s.size \in Nat
         /\ s.pay \in Seq(Mp2Byte) /\ Len(s.pay) \in Nat
         /\ Len(s.pay) + 2 <= (IF s.size > 3 THEN s.size ELSE 3)
         /\ s.guard \in Seq(Mp2Byte) /\ Len(s.guard) \in Nat /\ Len(s.guard) <= MAD_BUFFER_GUARD
         /\ (s.guard = << >> <=> Len(s.guard) = 0)
         /\ obuf \in Seq(Mp2Byte) /\ Len(obuf) \in Nat /\ (obuf = << >> <=> Len(obuf) = 0)
         /\ MAD_BUFFER_GUARD \in Nat /\ MAD_BUFFER_GUARD >= 4
<1>1. /\ stream \in Seq(Mp2Byte) /\ Len(stream) \in Nat
      /\ out \in Nat /\ tail \in Nat /\ buf \in Nat
      /\ out <= tail /\ buf <= tail /\ tail <= Len(stream)
  BY Mp2Sent DEF Mp2Inv, Mp2Places
<1>2. /\ s \in Mp2Scanned(s.sync) /\ s.size \in Nat /\ s.pay \in Seq(Mp2Byte)
      /\ s.guard \in Seq(Mp2Byte) /\ Len(s.guard) <= MAD_BUFFER_GUARD
      /\ Len(s.pay) + 2 <= (IF s.size > 3 THEN s.size ELSE 3)
  BY DEF Mp2Inv, Mp2Scan, Mp2Scanned
<1>3. obuf \in Seq(Mp2Byte)
  BY DEF Mp2Inv, Mp2Kept
<1>4. \A seq \in Seq(Mp2Byte) : Len(seq) \in Nat /\ (seq = << >> <=> Len(seq) = 0)
  OBVIOUS
<1>5. Len(s.pay) \in Nat /\ Len(s.guard) \in Nat /\ (s.guard = << >> <=> Len(s.guard) = 0)
      /\ Len(obuf) \in Nat /\ (obuf = << >> <=> Len(obuf) = 0)
  BY <1>2, <1>3, <1>4
<1> QED
  BY <1>1, <1>2, <1>3, <1>5, GuardAssumption

LEMMA Mp2SeekOn ==
  ASSUME NEW w, NEW b \in Nat, NEW p \in Nat, NEW sync, Mp2Seek(w, b, p, sync),
         NEW next, next = <<sync[2], w[p + 1].v>>
  PROVE  /\ next = Mp2!Magic => /\ b <= p - 1 /\ Mp2Marks(w, p - 1)
                                /\ \A j \in b..p - 2 : ~Mp2Marks(w, j)
         /\ next # Mp2!Magic => Mp2Seek(w, b, p + 1, next)
<1>1. b <= p /\ \A j \in b..p - 2 : ~Mp2Marks(w, j)
  BY DEF Mp2Seek
<1>2. next = <<IF b <= p - 1 THEN w[p].v ELSE "1f", w[p + 1].v>>
  BY DEF Mp2Seek
<1>3. next = <<IF b <= p + 1 - 2 THEN w[p + 1 - 1].v ELSE IF b = p + 1 - 1 THEN "1f" ELSE "00",
               IF b <= p + 1 - 1 THEN w[p + 1].v ELSE "1f">>
  BY <1>1, <1>2
<1>4. p - 1 + 1 = p /\ p - 1 + 2 = p + 1
  OBVIOUS
<1>5. next = Mp2!Magic <=> b <= p - 1 /\ Mp2Marks(w, p - 1)
  BY <1>2, <1>4 DEF Mp2!Magic, Mp2Marks
<1>6. ASSUME next # Mp2!Magic PROVE Mp2Seek(w, b, p + 1, next)
  <2>1. \A j \in b..p + 1 - 2 : ~Mp2Marks(w, j)
    <3> SUFFICES ASSUME NEW j \in b..p - 1 PROVE ~Mp2Marks(w, j)
      OBVIOUS
    <3>1. j \in b..p - 2 \/ (j = p - 1 /\ b <= p - 1)
      BY <1>1
    <3> QED
      BY <1>1, <1>5, <1>6, <3>1
  <2> QED
    BY <1>1, <1>3, <2>1 DEF Mp2Seek
<1> QED
  BY <1>1, <1>5, <1>6

\* The next d bytes of the guard, or of the piece.
Mp2Reads(d) ==
    /\ out' \in Nat /\ out <= out' /\ Len(obuf') \in Nat /\ Len(obuf') <= out'
    /\ out' - Len(obuf') = out - Len(obuf) + d
    /\ Slice(obuf', stream, out' - Len(obuf'))
    /\ obuf' # << >> => obuf # << >> /\ out' = out
    /\ obuf = << >> => out' = out + d

LEMMA Mp2ReadsByte ==
  ASSUME Mp2Inv, Len(obuf) <= out, Slice(obuf, stream, out - Len(obuf)), Mp2!More, Mp2!Consumed
  PROVE  /\ Mp2Reads(1) /\ Mp2!NextByte = stream[out - Len(obuf) + 1]
         /\ out - Len(obuf) + 1 \in 1..Len(stream)
<1> DEFINE w == stream
           q == Len(obuf)
<1>1. /\ Len(w) \in Nat /\ out \in Nat /\ out <= tail /\ tail \in Nat /\ tail <= Len(w)
      /\ obuf \in Seq(Mp2Byte) /\ q \in Nat /\ (obuf = << >> <=> q = 0)
  BY Mp2Facts
<1>2. CASE obuf # << >>
  <2> DEFINE t == Tail(obuf)
  <2>1. obuf' = t /\ out' = out /\ Mp2!NextByte = obuf[1]
    BY <1>2 DEF Mp2!Consumed, Mp2!NextByte
  <2>2. Len(t) = q - 1 /\ \A k \in 1..q - 1 : t[k] = obuf[k + 1]
    BY <1>1, <1>2
  <2> HIDE DEF t
  <2>3. q >= 1 /\ out - q + 1 \in 1..Len(w) /\ out - (q - 1) = out - q + 1
    BY <1>1, <1>2
  <2>4. ASSUME NEW k \in 1..q - 1 PROVE t[k] = w[out - (q - 1) + k]
    <3>1. k + 1 \in 1..q /\ out - q + (k + 1) = out - (q - 1) + k
      BY <1>1
    <3>2. obuf[k + 1] = w[out - q + (k + 1)]
      BY <3>1 DEF Slice
    <3> QED
      BY <2>2, <3>1, <3>2
  <2>5. Slice(obuf', w, out' - Len(obuf'))
    BY <2>1, <2>2, <2>4 DEF Slice
  <2>6. Mp2!NextByte = w[out - q + 1]
    <3>1. 1 \in 1..q
      BY <1>1, <2>3
    <3> QED
      BY <2>1, <3>1 DEF Slice
  <2>7. Mp2Reads(1)
    BY <1>1, <1>2, <2>1, <2>2, <2>3, <2>5 DEF Mp2Reads
  <2> QED
    BY <2>3, <2>6, <2>7
<1>3. CASE obuf = << >>
  <2>1. obuf' = obuf /\ out' = out + 1 /\ Mp2!NextByte = w[out + 1] /\ out < tail /\ q = 0
    BY <1>1, <1>3 DEF Mp2!Consumed, Mp2!NextByte, Mp2!More
  <2>2. Slice(obuf', w, out' - Len(obuf'))
    BY <1>1, <2>1 DEF Slice
  <2>3. Mp2Reads(1)
    BY <1>1, <1>3, <2>1, <2>2 DEF Mp2Reads
  <2> QED
    BY <1>1, <2>1, <2>3
<1> QED
  BY <1>2, <1>3

LEMMA Mp2ReadsPiece ==
  ASSUME Mp2Inv, Len(obuf) <= out, Slice(obuf, stream, out - Len(obuf)), Mp2!More,
         NEW from, from = IF obuf # << >> THEN obuf ELSE SubSeq(stream, out + 1, tail),
         NEW n \in Nat, n <= Len(from),
         IF obuf # << >> THEN obuf' = SubSeq(obuf, n + 1, Len(obuf)) /\ out' = out
                         ELSE out' = out + n /\ obuf' = obuf
  PROVE  /\ Mp2Reads(n) /\ Len(from) \in Nat /\ Len(from) # 0
         /\ Taken(s.pay, s.pay \o SubSeq(from, 1, n), stream, out - Len(obuf), n)
<1> DEFINE w == stream
           q == Len(obuf)
           part == SubSeq(from, 1, n)
<1>1. /\ w \in Seq(Mp2Byte) /\ Len(w) \in Nat /\ out \in Nat /\ out <= tail /\ tail \in Nat
      /\ tail <= Len(w) /\ obuf \in Seq(Mp2Byte) /\ q \in Nat /\ (obuf = << >> <=> q = 0)
      /\ s.pay \in Seq(Mp2Byte)
  BY Mp2Facts
<1>2. /\ from \in Seq(Mp2Byte) /\ Len(from) \in Nat /\ Len(from) # 0
      /\ \A k \in 1..Len(from) : from[k] = w[out - q + k]
  <2>1. CASE obuf # << >>
    BY <1>1, <2>1 DEF Slice
  <2>2. CASE obuf = << >>
    <3> DEFINE d == tail - out
    <3>1. d \in Nat /\ d # 0 /\ out + d = tail /\ q = 0
      BY <1>1, <2>2 DEF Mp2!More
    <3> HIDE DEF d
    <3>2. from = SubSeq(w, out + 1, out + d) /\ out + d <= Len(w)
      BY <1>1, <2>2, <3>1
    <3>3. from \in Seq(Mp2Byte) /\ Len(from) = d /\ \A k \in 1..d : from[k] = w[out + k]
      BY <1>1, <3>1, <3>2, SubSeqOf
    <3> QED
      BY <1>1, <3>1, <3>3
  <2> QED
    BY <2>1, <2>2
<1>3. part \in Seq(Mp2Byte) /\ Len(part) = n /\ \A k \in 1..n : part[k] = w[out - q + k]
  <2>1. SubSeq(from, 0 + 1, 0 + n) = part /\ 0 + n <= Len(from) /\ 0 \in Nat
    BY <1>2
  <2>2. /\ part \in Seq(Mp2Byte) /\ Len(part) = n
        /\ \A k \in 1..n : part[k] = from[0 + k]
    BY <1>2, <2>1, SubSeqOf, SMTT(40)
  <2>3. \A k \in 1..n : part[k] = from[k] /\ k \in 1..Len(from)
    BY <1>2, <2>2
  <2> QED
    BY <1>2, <2>2, <2>3
<1> HIDE DEF part
<1>4. Taken(s.pay, s.pay \o part, w, out - q, n)
  <2>1. /\ Len(s.pay \o part) = Len(s.pay) + Len(part)
        /\ \A k \in 1..Len(s.pay) : (s.pay \o part)[k] = s.pay[k]
        /\ \A k \in 1..Len(part) : (s.pay \o part)[Len(s.pay) + k] = part[k]
    <3>1. s.pay \in Seq(Mp2Byte) /\ part \in Seq(Mp2Byte)
      BY <1>1, <1>3
    <3> QED
      BY <3>1, Longer
  <2> QED
    BY <1>3, <2>1 DEF Taken
<1>5. Mp2Reads(n)
  <2>1. CASE obuf # << >>
    <3> DEFINE d == q - n
               t == SubSeq(obuf, n + 1, n + d)
    <3>1. /\ d \in Nat /\ n + d = q /\ n <= q /\ q <= out
          /\ obuf \in Seq(Mp2Byte) /\ n + d <= Len(obuf)
      BY <1>1, <2>1
    <3> HIDE DEF d, q
    <3>2. obuf' = t /\ out' = out
      <4> USE DEF q
      <4> QED
        BY <2>1, <3>1
    <3>3. Len(t) = d /\ \A k \in 1..d : t[k] = obuf[n + k]
      BY <3>1, SubSeqOf
    <3> HIDE DEF t
    <3>4. out - d = out - q + n /\ d <= out
      <4> HIDE DEF q
      <4> QED
        BY <1>1, <3>1
    <3>5. ASSUME NEW k \in 1..d PROVE t[k] = w[out - d + k]
      <4>1. n + k \in 1..q /\ out - q + (n + k) = out - d + k
        <5> HIDE DEF q
        <5> QED
          BY <1>1, <3>1
      <4>2. obuf[n + k] = w[out - q + (n + k)]
        BY <4>1 DEF Slice, q
      <4> QED
        BY <3>3, <4>1, <4>2
    <3>6. Slice(obuf', w, out' - Len(obuf'))
      BY <3>2, <3>3, <3>5 DEF Slice
    <3> USE DEF q
    <3> QED
      BY <1>1, <2>1, <3>1, <3>2, <3>3, <3>4, <3>6 DEF Mp2Reads
  <2>2. CASE obuf = << >>
    <3>1. obuf' = obuf /\ out' = out + n /\ q = 0
      BY <1>1, <2>2
    <3>2. Slice(obuf', w, out' - Len(obuf'))
      BY <1>1, <3>1 DEF Slice
    <3> QED
      BY <1>1, <2>2, <3>1, <3>2 DEF Mp2Reads
  <2> QED
    BY <2>1, <2>2
<1> QED
  BY <1>2, <1>4, <1>5 DEF part

\* A frame of which all bytes are there.
LEMMA Mp2Full ==
  ASSUME Mp2Inv, Mp2Cut(stream), NEW j \in 0..Len(stream), Mp2Body(stream, j, out, obuf, s),
         s.size # 0, Len(s.pay) + 2 >= s.size
  PROVE  /\ j \in Nat /\ Mp2At(stream, j) /\ Mp2Z(stream, j) \in Nat
         /\ Mp2Z(stream, j) >= MAD_BUFFER_GUARD
         /\ Len(s.pay) + 2 = Mp2Z(stream, j) /\ obuf = << >>
         /\ out = j + Mp2Z(stream, j) + Len(s.guard)
         /\ Mp2Border(stream, j + Mp2Z(stream, j)) /\ j + Mp2Z(stream, j) \in 1..Len(stream)
<1> DEFINE w == stream
           z == Mp2Z(w, j)
           m == Len(s.pay)
           g == Len(s.guard)
           q == Len(obuf)
           G == MAD_BUFFER_GUARD
<1>1. /\ w \in Seq(Mp2Byte) /\ Len(w) \in Nat /\ out \in Nat /\ s.size \in Nat
      /\ m \in Nat /\ m + 2 <= (IF s.size > 3 THEN s.size ELSE 3)
      /\ g \in Nat /\ q \in Nat /\ (obuf = << >> <=> q = 0) /\ G \in Nat /\ G >= 4
  BY Mp2Facts
<1>2. /\ Mp2Border(w, j) /\ j \in Nat /\ j # Len(w) /\ out = j + 2 + m + g + q /\ s.size = z
      /\ (obuf # << >> => out = j + G)
  <2>1. /\ Mp2Border(w, j) /\ j < Len(w) /\ out = j + 2 + m + g + q /\ s.size = z
        /\ (obuf # << >> => out = j + G)
    BY DEF Mp2Body
  <2>2. j \in Nat /\ j # Len(w)
    BY <1>1, <2>1
  <2> QED
    BY <2>1, <2>2
<1>3. Mp2At(w, j) /\ z \in Nat /\ z >= G /\ j + z <= Len(w) /\ Mp2Border(w, j + z)
  BY <1>1, <1>2, Mp2Begins
<1> HIDE DEF z, m, g, q
<1>4. m + 2 = z
  <2>1. m + 2 >= z
    BY <1>2 DEF m
  <2> QED
    BY <1>1, <1>2, <1>3, <2>1
<1>5. obuf = << >> /\ q = 0
  BY <1>1, <1>2, <1>3, <1>4
<1>6. out = j + z + g /\ j + z \in 1..Len(w)
  BY <1>1, <1>2, <1>3, <1>4, <1>5
<1> QED
  BY <1>2, <1>3, <1>4, <1>5, <1>6 DEF z, m, g

LEMMA Mp2EndsAt ==
  Mp2Inv /\ Mp2Cut(stream) /\ Mp2ScanOK(stream, out, obuf, s) /\ Mp2Ends
    => \E e \in 1..Len(stream) : Mp2Border(stream, e) /\ Mp2Mark(e) = out
<1> SUFFICES ASSUME Mp2Inv, Mp2Cut(stream), Mp2ScanOK(stream, out, obuf, s), Mp2Ends
             PROVE  \E e \in 1..Len(stream) : Mp2Border(stream, e) /\ Mp2Mark(e) = out
  OBVIOUS
<1>1. /\ s.sync = Mp2!Magic /\ s.size # 0 /\ Len(s.pay) + 2 >= s.size
      /\ ~spdif => Len(s.guard) = MAD_BUFFER_GUARD
  BY DEF Mp2Ends, Mp2!Ready, Mp2!Fits, Mp2!HeadKnown, Mp2!Pos, Mp2!GuardFull
<1>2. PICK j \in 0..Len(stream) : Mp2Body(stream, j, out, obuf, s)
  BY <1>1 DEF Mp2ScanOK
<1>3. /\ out = j + Mp2Z(stream, j) + Len(s.guard) /\ Mp2Border(stream, j + Mp2Z(stream, j))
      /\ j + Mp2Z(stream, j) \in 1..Len(stream)
  BY <1>1, <1>2, Mp2Full
<1>4. spdif => Len(s.guard) = 0
  BY Mp2Facts DEF Mp2ScanOK
<1>5. Mp2Mark(j + Mp2Z(stream, j)) = out
  BY <1>1, <1>3, <1>4 DEF Mp2Mark
<1> QED
  BY <1>3, <1>5
\* What a step of Frame() has to show.
Mp2Goes == /\ Mp2ScanOK(stream, out', obuf', s') /\ out <= out'
           /\ Mp2Ends' => out < out' /\ turn' = "frame"
           /\ turn' = turn \/ (turn' = "idle" /\ out' = tail)

LEMMA Mp2GoesOn ==
  ASSUME Mp2Inv, Mp2Inv', Mp2Cut(stream), Mp2Along, turn = "frame",
         UNCHANGED <<stream, spdif, tail, buf, c, ret>>, Mp2Goes
  PROVE  Mp2Along'
<1> DEFINE w == stream
           G == MAD_BUFFER_GUARD
<1>1. /\ w \in Seq(Mp2Byte) /\ Len(w) \in Nat /\ out \in Nat /\ buf \in Nat /\ G \in Nat
  BY Mp2Facts
<1>2. out' \in Nat /\ out' <= tail
  BY DEF Mp2Inv, Mp2Places
<1>3. Mp2Turns /\ buf = tail /\ (c.bfound >= 3 => c.bfound < c.fsize)
  BY DEF Mp2Along, Mp2Turns
<1>4. Mp2Turns'
  BY <1>2, <1>3 DEF Mp2Turns, Mp2Goes
<1>5. PICK b \in 0..Len(w) : Mp2CountOK(w, b, buf, c) /\ Mp2Tells(b)
  BY DEF Mp2Along
<1>6. Mp2CountOK(w, b, buf, c)'
  BY <1>5 DEF Mp2CountOK, Mp2Left
<1>7. ASSUME NEW e \in 1..Len(w), Mp2Border(w, e), Mp2Passed(b, buf, e)
      PROVE  ret \/ Mp2Mark(e) <= out'
  <2>1. ret \/ Mp2Mark(e) <= out
    BY <1>5, <1>7 DEF Mp2Tells
  <2>2. Mp2Mark(e) \in Nat /\ out <= out'
    BY <1>1, <1>7 DEF Mp2Mark, Mp2Goes
  <2> QED
    BY <1>1, <1>2, <2>1, <2>2
<1>8. ASSUME Mp2Ends' PROVE ret /\ turn' = "frame"
  <2>1. out < out' /\ turn' = "frame" /\ Mp2ScanOK(stream, out, obuf, s)' /\ Mp2Cut(stream)'
    BY <1>8 DEF Mp2Goes, Mp2ScanOK, Mp2Body, Mp2Turned, Mp2Seeks
  <2>2. (\E e \in 1..Len(stream) : Mp2Border(stream, e) /\ Mp2Mark(e) = out)'
    <3>1. (Mp2Inv /\ Mp2Cut(stream) /\ Mp2ScanOK(stream, out, obuf, s) /\ Mp2Ends
             => \E e \in 1..Len(stream) : Mp2Border(stream, e) /\ Mp2Mark(e) = out)'
      BY Mp2EndsAt, PTL
    <3> QED
      BY <1>8, <2>1, <3>1
  <2>3. PICK e \in 1..Len(w) : Mp2Border(w, e) /\ Mp2Mark(e) = out'
    BY <2>2 DEF Mp2Mark
  <2>4. Mp2Passed(b, buf, e)
    <3>1. e \in Nat /\ out' <= buf
      BY <1>1, <1>2, <1>3
    <3>2. CASE spdif
      <4>1. e <= buf
        BY <2>3, <3>1, <3>2 DEF Mp2Mark
      <4>2. c.bfound \in Nat
        BY DEF Mp2Inv, Mp2Counter
      <4>3. e <= b
        BY <1>1, <1>3, <1>5, <2>3, <3>1, <4>1, <4>2, Mp2Within
      <4> QED
        BY <3>2, <4>3 DEF Mp2Passed
    <3>3. CASE ~spdif
      BY <2>3, <3>1, <3>3 DEF Mp2Mark, Mp2Passed
    <3> QED
      BY <3>2, <3>3
  <2>5. ret \/ Mp2Mark(e) <= out
    BY <1>5, <2>4, <2>3 DEF Mp2Tells
  <2> QED
    BY <1>1, <1>2, <2>1, <2>3, <2>5
<1>9. Mp2Tells(b)'
  BY <1>7, <1>8 DEF Mp2Tells, Mp2Passed, Mp2Mark
<1>10. Mp2ScanOK(stream, out, obuf, s)'
  BY DEF Mp2Goes, Mp2ScanOK, Mp2Body, Mp2Turned, Mp2Seeks
<1> QED
  BY <1>4, <1>5, <1>6, <1>9, <1>10 DEF Mp2Along

\* Where the search for the next frame stands: behind all bytes in which none
\* begins, or where the frame begins that is being collected.  A step passes
\* the begin of none.
Mp2Taken == IF s.sync = Mp2!Magic THEN Len(s.pay) + 2
            ELSE IF s.sync[2] = "ff" THEN 1 ELSE 0
Mp2Begun == out - Len(obuf) - Len(s.guard) - Mp2Taken
Mp2BegunIs == \A j \in Nat :
    Mp2Inv /\ s.sync = Mp2!Magic /\ Mp2Body(stream, j, out, obuf, s) => Mp2Begun = j
Mp2NoneNew ==
    /\ Mp2Begun \in Int /\ Mp2Begun' \in Int
    /\ \A e \in 0..Len(stream) - 1 :
          Mp2Border(stream, e) => ~(Mp2Begun <= e /\ e < Mp2Begun')

LEMMA Mp2BegunAt == Mp2BegunIs
<1> SUFFICES ASSUME NEW j \in Nat, Mp2Inv, s.sync = Mp2!Magic,
                    Mp2Body(stream, j, out, obuf, s)
             PROVE  Mp2Begun = j
  BY DEF Mp2BegunIs
<1> DEFINE a == Len(obuf)
           m == Len(s.pay)
           g == Len(s.guard)
<1>1. out \in Nat /\ a \in Nat /\ m \in Nat /\ g \in Nat
  BY Mp2Facts
<1>2. out = j + 2 + m + g + a
  BY DEF Mp2Body
<1>3. Mp2Begun = out - a - g - (m + 2)
  BY DEF Mp2Begun, Mp2Taken
<1> HIDE DEF a, m, g
<1> QED
  BY <1>1, <1>2, <1>3

LEMMA Mp2SameFrame ==
  ASSUME Mp2Inv, Mp2Inv', UNCHANGED stream, s.sync = Mp2!Magic, s'.sync = Mp2!Magic,
         NEW j \in Nat, Mp2Body(stream, j, out, obuf, s), Mp2Body(stream, j, out', obuf', s')
  PROVE  Mp2NoneNew
<1>1. Mp2Begun = j
  BY Mp2BegunAt DEF Mp2BegunIs
<1>2. Mp2BegunIs'
  BY Mp2BegunAt, PTL
<1>3. Mp2Body(stream, j, out, obuf, s)'
  BY DEF Mp2Body
<1>4. Mp2Begun' = j
  BY <1>2, <1>3 DEF Mp2BegunIs
<1> QED
  BY <1>1, <1>4 DEF Mp2NoneNew

LEMMA Mp2SeekStarts ==
  ASSUME NEW w, NEW b \in Nat PROVE Mp2Seek(w, b, b, Mp2!None)
BY DEF Mp2Seek, Mp2!None

LEMMA Mp2NoneIsNot == Mp2!None # Mp2!Magic
BY DEF Mp2!None, Mp2!Magic

LEMMA Mp2NewGoes ==
  ASSUME Mp2Inv, Mp2ScanOK(stream, out, obuf, s), Mp2!FrameNew PROVE Mp2Goes /\ Mp2NoneNew
<1> DEFINE w == stream
           G == MAD_BUFFER_GUARD
<1>1. /\ Len(w) \in Nat /\ out \in Nat /\ s.guard \in Seq(Mp2Byte) /\ Len(s.guard) \in Nat
      /\ (s.guard = << >> <=> Len(s.guard) = 0) /\ G \in Nat /\ G >= 4
      /\ s \in Mp2Scanned(s.sync)
  BY Mp2Facts
<1>2. /\ Len(s.guard) = G /\ s.pay = << >> /\ s.sync = Mp2!None
      /\ obuf' = s.guard /\ s' = [s EXCEPT !.guard = << >>] /\ UNCHANGED <<turn, out>>
  BY DEF Mp2!FrameNew, Mp2!GuardFull
<1>3. /\ s'.guard = << >> /\ s'.pay = << >> /\ s'.sync = Mp2!None /\ s'.size = s.size
  BY <1>1, <1>2 DEF Mp2Scanned
<1>4. ~spdif /\ G <= out /\ Slice(s.guard, w, out - G)
  BY <1>1, <1>2 DEF Mp2ScanOK
<1>5. Mp2Turned(w, out, obuf, s)
  <2>1. ~ \E b \in 0..Len(w) : Mp2Seeks(w, b, out, obuf, s)
    BY <1>1, <1>2 DEF Mp2Seeks
  <2> QED
    BY <1>2, <2>1, Mp2NoneIsNot DEF Mp2ScanOK
<1> DEFINE b == out - G
<1>6. b \in Nat /\ Mp2Border(w, b) /\ b + G = out /\ s.size = 0
  BY <1>1, <1>4, <1>5 DEF Mp2Turned
<1>7. b \in 0..Len(w)
  BY <1>1, <1>6 DEF Mp2Border
<1> HIDE DEF b
<1>8. Mp2Seeks(w, b, out, s.guard, s')
  <2>1. out - Len(s.guard) = b
    BY <1>1, <1>2, <1>6
  <2>2. Mp2Seek(w, b, b, s'.sync)
    BY <1>3, <1>6, Mp2SeekStarts
  <2> QED
    BY <1>3, <1>6, <2>1, <2>2 DEF Mp2Seeks
<1>9. Len(s'.guard) = 0 /\ Slice(s'.guard, w, out - Len(s'.guard))
  BY <1>3 DEF Slice
<1>10. Mp2ScanOK(w, out', obuf', s')
  BY <1>1, <1>2, <1>3, <1>4, <1>7, <1>8, <1>9, Mp2NoneIsNot DEF Mp2ScanOK, b
<1>11. ~Mp2Ends'
  BY <1>3, Mp2NoneIsNot DEF Mp2Ends, Mp2!Ready, Mp2!Fits, Mp2!HeadKnown
<1>12. Mp2Begun = out - G /\ Mp2Begun' = out - G
  <2> DEFINE a == Len(obuf)
             g == Len(s.guard)
             h == Len(s'.guard)
  <2>1. a = 0 /\ g = G /\ h = 0 /\ Len(obuf') = g /\ out' = out
    BY <1>2, <1>3, <1>5 DEF Mp2Turned
  <2>2. Mp2Taken = 0 /\ Mp2Taken' = 0
    BY <1>2, <1>3 DEF Mp2Taken, Mp2!Magic, Mp2!None
  <2>3. Mp2Begun = out - a - g - Mp2Taken /\ Mp2Begun' = out' - Len(obuf') - h - Mp2Taken'
    BY DEF Mp2Begun
  <2> HIDE DEF a, g, h
  <2> QED
    BY <1>1, <2>1, <2>2, <2>3
<1>13. Mp2NoneNew
  BY <1>1, <1>12 DEF Mp2NoneNew
<1> QED
  BY <1>1, <1>2, <1>10, <1>11, <1>13 DEF Mp2Goes

LEMMA Mp2SyncGoes ==
  ASSUME Mp2Inv, Mp2Cut(stream), Mp2ScanOK(stream, out, obuf, s), Mp2!FrameSync
  PROVE  Mp2Goes /\ Mp2NoneNew
<1> DEFINE w == stream
           G == MAD_BUFFER_GUARD
           p == out - Len(obuf)
           next == <<s.sync[2], w[p + 1].v>>
<1>1. /\ w \in Seq(Mp2Byte) /\ Len(w) \in Nat /\ out \in Nat /\ Len(obuf) \in Nat
      /\ G \in Nat /\ G >= 4 /\ s \in Mp2Scanned(s.sync)
  BY Mp2Facts
<1>2. /\ s.sync # Mp2!Magic /\ Len(s.guard) # G /\ Mp2!More /\ Mp2!Consumed
      /\ s' = [s EXCEPT !.sync = <<@[2], Mp2!NextByte.v>>] /\ UNCHANGED turn
  BY DEF Mp2!FrameSync, Mp2!GuardFull
<1>3. PICK b \in 0..Len(w) : Mp2Seeks(w, b, out, obuf, s)
  BY <1>2 DEF Mp2ScanOK, Mp2Turned
<1>4. Len(obuf) <= out /\ Slice(obuf, w, p)
  BY DEF Mp2ScanOK
<1>5. Mp2Reads(1) /\ Mp2!NextByte = w[p + 1] /\ p + 1 \in 1..Len(w)
  BY <1>2, <1>4, Mp2ReadsByte
<1>6. /\ s'.sync = next /\ s'.pay = << >> /\ s'.size = 0 /\ s'.guard = << >>
      /\ Mp2Seek(w, b, p, s.sync)
      /\ obuf # << >> => out = b + G /\ Mp2Border(w, b)
  BY <1>1, <1>2, <1>3, <1>5 DEF Mp2Seeks, Mp2Scanned
<1>7. p \in Nat /\ b \in Nat
  BY <1>1, <1>4
<1>8. /\ next = Mp2!Magic => /\ b <= p - 1 /\ Mp2Marks(w, p - 1)
                             /\ \A j \in b..p - 2 : ~Mp2Marks(w, j)
      /\ next # Mp2!Magic => Mp2Seek(w, b, p + 1, next)
  BY <1>6, <1>7, Mp2SeekOn
<1>9. /\ out' \in Nat /\ out <= out' /\ Len(obuf') \in Nat /\ Len(obuf') <= out'
      /\ out' - Len(obuf') = p + 1 /\ Slice(obuf', w, out' - Len(obuf'))
      /\ obuf' # << >> => obuf # << >> /\ out' = out
  BY <1>5 DEF Mp2Reads
<1>10. Len(s'.guard) = 0 /\ Len(s'.pay) = 0 /\ Slice(s'.guard, w, out' - Len(s'.guard))
       /\ \A j : Slice(s'.pay, w, j)
  BY <1>6 DEF Slice
<1>11. spdif => obuf' = << >>
  BY <1>9 DEF Mp2ScanOK
<1> HIDE DEF p, next
<1>12. ASSUME next = Mp2!Magic PROVE Mp2ScanOK(w, out', obuf', s')
  <2> DEFINE j == p - 1
  <2>1. j \in 0..Len(w) - 2 /\ b <= j /\ j < Len(w) /\ j + 2 = p + 1 /\ j - 1 = p - 2
    BY <1>1, <1>5, <1>7, <1>8, <1>12
  <2>2. Mp2Border(w, j)
    BY <1>8, <1>12, <2>1 DEF Mp2Cut
  <2>3. ASSUME obuf' # << >> PROVE out' = j + G
    <3>1. out' = b + G /\ Mp2Border(w, b)
      BY <1>6, <1>9, <2>3
    <3>2. Mp2Marks(w, b)
      <4>1. b # Len(w)
        BY <1>1, <1>7, <2>1
      <4> QED
        BY <1>1, <1>7, <3>1, <4>1, Mp2Begins DEF Mp2At
    <3>3. b = j
      <4>1. b \notin b..p - 2
        BY <1>8, <1>12, <3>2
      <4> QED
        BY <1>7, <2>1, <4>1
    <3> QED
      BY <3>1, <3>3
  <2>4. out' = j + 2 + Len(s'.pay) + Len(s'.guard) + Len(obuf')
    <3> DEFINE a == Len(obuf')
               r == out'
    <3>1. r - a = p + 1 /\ r \in Nat /\ a \in Nat /\ j + 2 = p + 1 /\ j \in Nat
      BY <1>9, <2>1
    <3>2. Len(s'.pay) = 0 /\ Len(s'.guard) = 0
      BY <1>10
    <3> HIDE DEF a, r, j
    <3>3. r = j + 2 + 0 + 0 + a
      BY <1>7, <3>1
    <3> QED
      BY <3>2, <3>3 DEF a, r
  <2> HIDE DEF j
  <2>5. Mp2Body(w, j, out', obuf', s')
    BY <1>6, <1>10, <2>1, <2>2, <2>3, <2>4 DEF Mp2Body
  <2>6. j \in 0..Len(w) /\ s'.sync = Mp2!Magic
    BY <1>1, <1>6, <1>12, <2>1
  <2> QED
    BY <1>6, <1>9, <1>10, <1>11, <2>5, <2>6 DEF Mp2ScanOK
<1>13. ASSUME next # Mp2!Magic PROVE Mp2ScanOK(w, out', obuf', s')
  <2>1. Mp2Seeks(w, b, out', obuf', s')
    BY <1>6, <1>8, <1>9, <1>13 DEF Mp2Seeks
  <2> QED
    BY <1>6, <1>9, <1>10, <1>11, <1>13, <2>1 DEF Mp2ScanOK
<1>14. Mp2ScanOK(w, out', obuf', s')
  BY <1>12, <1>13
<1>15. ~Mp2Ends'
  BY <1>6 DEF Mp2Ends, Mp2!Ready, Mp2!Fits
<1>16. s.sync[2] = (IF b <= p - 1 THEN w[p].v ELSE "1f")
       /\ next[1] = s.sync[2] /\ next[2] = w[p + 1].v
  BY <1>6 DEF Mp2Seek, next
<1>17. Mp2Begun = p - (IF s.sync[2] = "ff" THEN 1 ELSE 0)
  <2> DEFINE g == Len(s.guard)
  <2>1. g = 0
    BY <1>3 DEF Mp2Seeks
  <2>2. Mp2Begun = p - g - (IF s.sync[2] = "ff" THEN 1 ELSE 0)
    BY <1>2 DEF Mp2Begun, Mp2Taken, p
  <2> HIDE DEF g
  <2> QED
    BY <1>7, <2>1, <2>2
<1>18. Mp2Begun' = p + 1 - (IF next = Mp2!Magic THEN 2 ELSE IF next[2] = "ff" THEN 1 ELSE 0)
  <2> DEFINE g == Len(s'.guard)
             a == Len(obuf')
             T == IF next = Mp2!Magic THEN 2 ELSE IF next[2] = "ff" THEN 1 ELSE 0
  <2>1. g = 0 /\ out' - a = p + 1
    BY <1>9, <1>10
  <2>2. T = Mp2Taken'
    BY <1>6, <1>10 DEF Mp2Taken
  <2>3. Mp2Begun' = out' - a - g - Mp2Taken'
    BY DEF Mp2Begun
  <2>4. T \in Int
    OBVIOUS
  <2> HIDE DEF g, a, T
  <2>5. Mp2Begun' = p + 1 - T
    BY <1>7, <2>1, <2>2, <2>3, <2>4
  <2> QED
    BY <2>5 DEF T
<1>19. ASSUME NEW e \in 0..Len(w) - 1, Mp2Border(w, e), Mp2Begun <= e, e < Mp2Begun'
       PROVE  FALSE
  <2>1. Mp2Marks(w, e) /\ w[e + 1].v = "ff" /\ e \in Nat
    <3>1. e # Len(w) /\ e \in Nat
      BY <1>1
    <3> QED
      BY <1>1, <1>19, <3>1, Mp2Begins DEF Mp2At, Mp2Marks
  <2>2. next # Mp2!Magic
    <3>1. next = Mp2!Magic => s.sync[2] = "ff"
      BY <1>16 DEF Mp2!Magic
    <3> QED
      BY <1>7, <1>17, <1>18, <1>19, <2>1, <3>1
  <2>3. e = p \/ (e = p - 1 /\ s.sync[2] = "ff")
    BY <1>7, <1>17, <1>18, <1>19, <2>1, <2>2
  <2>4. e # p
    <3>1. e = p => next[2] = "ff"
      BY <1>16, <2>1
    <3> QED
      BY <1>7, <1>18, <1>19, <2>2, <3>1
  <2>5. b <= p - 1 /\ e = p - 1
    BY <1>16, <2>3, <2>4
  <2>6. \A j \in b..(p + 1) - 2 : ~Mp2Marks(w, j)
    BY <1>8, <2>2 DEF Mp2Seek
  <2>7. e \in b..(p + 1) - 2
    BY <1>7, <2>5
  <2> QED
    BY <2>1, <2>6, <2>7
<1>20. Mp2NoneNew
  BY <1>7, <1>17, <1>18, <1>19 DEF Mp2NoneNew
<1> QED
  BY <1>2, <1>9, <1>14, <1>15, <1>20 DEF Mp2Goes

\* Inside a frame: what is known of it.
LEMMA Mp2Inside ==
  ASSUME Mp2Inv, Mp2Cut(stream), Mp2ScanOK(stream, out, obuf, s), s.sync = Mp2!Magic
  PROVE  \E j \in Nat :
            /\ j \in 0..Len(stream) /\ Mp2Body(stream, j, out, obuf, s)
            /\ Mp2At(stream, j) /\ Mp2Z(stream, j) \in Nat /\ Mp2Z(stream, j) >= MAD_BUFFER_GUARD
            /\ out - Len(obuf) = j + 2 + Len(s.pay) + Len(s.guard)
            /\ j < Len(stream)
<1>1. PICK j \in 0..Len(stream) : Mp2Body(stream, j, out, obuf, s)
  BY DEF Mp2ScanOK
<1>2. Mp2Border(stream, j) /\ j # Len(stream) /\ j \in Nat /\ j < Len(stream)
  BY Mp2Facts, <1>1 DEF Mp2Body
<1>3. /\ Mp2At(stream, j) /\ Mp2Z(stream, j) \in Nat /\ Mp2Z(stream, j) >= MAD_BUFFER_GUARD
  BY Mp2Facts, <1>2, Mp2Begins
<1>4. out - Len(obuf) = j + 2 + Len(s.pay) + Len(s.guard)
  <2> DEFINE a == Len(obuf)
             m == Len(s.pay)
             g == Len(s.guard)
  <2>1. out \in Nat /\ a \in Nat /\ m \in Nat /\ g \in Nat
    BY Mp2Facts
  <2>2. out = j + 2 + m + g + a
    BY <1>1 DEF Mp2Body
  <2> HIDE DEF a, m, g
  <2>3. out - a = j + 2 + m + g
    BY <1>2, <2>1, <2>2
  <2> QED
    BY <2>3 DEF a, m, g
<1> QED
  BY <1>1, <1>2, <1>3, <1>4

LEMMA Mp2HeadGoes ==
  ASSUME Mp2Inv, Mp2Inv', Mp2Cut(stream), Mp2ScanOK(stream, out, obuf, s), Mp2!FrameHead
  PROVE  Mp2Goes /\ Mp2NoneNew
<1> DEFINE w == stream
           p == out - Len(obuf)
           pay == Append(s.pay, w[p + 1])
<1>1. /\ w \in Seq(Mp2Byte) /\ Len(w) \in Nat /\ out \in Nat /\ Len(obuf) \in Nat
      /\ s \in Mp2Scanned(s.sync) /\ Len(s.pay) \in Nat /\ s.pay \in Seq(Mp2Byte)
  BY Mp2Facts
<1>2. /\ s.sync = Mp2!Magic /\ Len(s.pay) + 2 < 3 /\ Mp2!More /\ Mp2!Consumed
      /\ s' = [s EXCEPT !.pay = Append(@, Mp2!NextByte)] /\ UNCHANGED turn
  BY DEF Mp2!FrameHead, Mp2!Pos
<1>3. PICK j \in Nat : /\ j \in 0..Len(w) /\ Mp2Body(w, j, out, obuf, s)
                       /\ p = j + 2 + Len(s.pay) + Len(s.guard)
  BY <1>2, Mp2Inside
<1>4. Len(obuf) <= out /\ Slice(obuf, w, p)
  BY DEF Mp2ScanOK
<1>5. Mp2Reads(1) /\ Mp2!NextByte = w[p + 1] /\ p + 1 \in 1..Len(w)
  BY <1>2, <1>4, Mp2ReadsByte
<1>6. Len(s.pay) = 0 /\ s.size = 0 /\ s.guard = << >>
  BY <1>1, <1>2, <1>3 DEF Mp2Body
<1>7. p \in Nat /\ Len(s.guard) = 0 /\ p = j + 2
  BY <1>1, <1>3, <1>6
<1>8. /\ s'.sync = Mp2!Magic /\ s'.pay = pay /\ s'.size = 0 /\ s'.guard = << >>
  BY <1>1, <1>2, <1>5, <1>6 DEF Mp2Scanned
<1>9. /\ out' \in Nat /\ out <= out' /\ Len(obuf') \in Nat /\ Len(obuf') <= out'
      /\ out' - Len(obuf') = p + 1 /\ Slice(obuf', w, out' - Len(obuf'))
      /\ obuf' # << >> => obuf # << >> /\ out' = out
  BY <1>5 DEF Mp2Reads
<1>10. Slice(pay, w, j + 2) /\ Len(pay) = 1
  <2>1. pay = Append(s.pay, w[p + 1]) /\ w[p + 1] \in Mp2Byte
    BY <1>1, <1>5
  <2>2. Taken(s.pay, pay, w, p, 1)
    BY <1>1, <1>7, <2>1, TakesByte
  <2>3. Slice(s.pay, w, j + 2) /\ p = (j + 2) + Len(s.pay) /\ 1 \in Nat /\ j + 2 \in Nat
    BY <1>3, <1>6, <1>7 DEF Mp2Body
  <2> HIDE DEF pay, p
  <2>4. Slice(pay, w, j + 2)
    BY <1>1, <2>2, <2>3, SliceTakes
  <2>5. Len(pay) = 1
    BY <1>6, <2>2 DEF Taken
  <2> QED
    BY <2>4, <2>5
<1>11. Len(s'.guard) = 0 /\ Slice(s'.guard, w, out' - Len(s'.guard))
  BY <1>8 DEF Slice
<1>12. spdif => obuf' = << >>
  BY <1>9 DEF Mp2ScanOK
<1> HIDE DEF p, pay
<1>13. out' = j + 2 + Len(s'.pay) + Len(s'.guard) + Len(obuf')
  <2> DEFINE a == Len(obuf')
             r == out'
  <2>1. r \in Nat /\ a \in Nat /\ r - a = p + 1 /\ Len(s'.pay) = 1 /\ Len(s'.guard) = 0
    BY <1>8, <1>9, <1>10, <1>11
  <2> HIDE DEF a, r
  <2>2. r = j + 2 + 1 + 0 + a
    BY <1>7, <2>1
  <2> QED
    BY <2>1, <2>2 DEF a, r
<1>14. Mp2Body(w, j, out', obuf', s')
  <2>1. obuf' # << >> => out' = j + MAD_BUFFER_GUARD
    BY <1>3, <1>9 DEF Mp2Body
  <2>2. Mp2Border(w, j) /\ j < Len(w)
    BY <1>3 DEF Mp2Body
  <2> QED
    BY <1>8, <1>10, <1>13, <2>1, <2>2 DEF Mp2Body
<1>15. Mp2ScanOK(w, out', obuf', s')
  BY <1>3, <1>8, <1>9, <1>11, <1>12, <1>14 DEF Mp2ScanOK
<1>16. ~Mp2Ends'
  BY <1>8 DEF Mp2Ends, Mp2!Ready, Mp2!Fits
<1>17. UNCHANGED stream
  BY DEF Mp2!FrameHead, Mp2!Framing
<1>18. Mp2NoneNew
  BY <1>2, <1>3, <1>8, <1>14, <1>17, Mp2SameFrame
<1> QED
  BY <1>2, <1>9, <1>15, <1>16, <1>18 DEF Mp2Goes

LEMMA Mp2ParseGoes ==
  ASSUME Mp2Inv, Mp2Inv', Mp2Cut(stream), Mp2ScanOK(stream, out, obuf, s), Mp2!FrameParse
  PROVE  Mp2Goes /\ Mp2NoneNew
<1> DEFINE w == stream
           b == s.pay[1]
<1>1. /\ Len(w) \in Nat /\ out \in Nat /\ Len(obuf) \in Nat
      /\ s \in Mp2Scanned(s.sync) /\ Len(s.pay) \in Nat
      /\ Len(s.pay) + 2 <= (IF s.size > 3 THEN s.size ELSE 3)
      /\ MAD_BUFFER_GUARD \in Nat /\ MAD_BUFFER_GUARD >= 4
  BY Mp2Facts
<1>2. /\ s.sync = Mp2!Magic /\ Len(s.pay) + 2 >= 3 /\ s.size = 0 /\ UNCHANGED <<turn, out, obuf>>
      /\ s' = IF Mp2!SizeOf(b) = 0 THEN Mp2!Resync
              ELSE [s EXCEPT !.size = Mp2!SizeOf(b), !.rate = b.r]
  BY DEF Mp2!FrameParse, Mp2!HeadKnown, Mp2!Pos
<1>3. PICK j \in Nat : /\ j \in 0..Len(w) /\ Mp2Body(w, j, out, obuf, s)
                       /\ Mp2At(w, j) /\ Mp2Z(w, j) \in Nat /\ Mp2Z(w, j) >= MAD_BUFFER_GUARD
  BY <1>2, Mp2Inside
<1>4. Len(s.pay) = 1 /\ b = w[j + 3]
  <2>1. Len(s.pay) = 1
    <3> DEFINE m == Len(s.pay)
    <3>1. m \in Nat /\ m + 2 <= 3 /\ m + 2 >= 3
      BY <1>1, <1>2
    <3> HIDE DEF m
    <3>2. m = 1
      BY <3>1
    <3> QED
      BY <3>2 DEF m
  <2>2. b = w[(j + 2) + 1]
    BY <1>3, <2>1 DEF Mp2Body, Slice
  <2>3. (j + 2) + 1 = j + 3
    BY <1>3
  <2> QED
    BY <2>1, <2>2, <2>3
<1>5. Mp2!SizeOf(b) = Mp2Z(w, j) /\ Mp2Z(w, j) # 0 /\ b.r = w[j + 3].r
  BY <1>1, <1>3, <1>4 DEF Mp2Z
<1>6. /\ s'.sync = Mp2!Magic /\ s'.pay = s.pay /\ s'.guard = s.guard /\ s'.size = Mp2Z(w, j)
      /\ s'.rate = w[j + 3].r
  BY <1>1, <1>2, <1>5 DEF Mp2Scanned
<1>7. s.guard = << >>
  BY <1>2, <1>3 DEF Mp2Body
<1>8. Mp2Body(w, j, out', obuf', s')
  <2>1. Len(s'.pay) >= 1
    BY <1>4, <1>6
  <2> QED
    BY <1>2, <1>3, <1>6, <1>7, <2>1 DEF Mp2Body
<1>9. Mp2ScanOK(w, out', obuf', s')
  BY <1>2, <1>3, <1>6, <1>8 DEF Mp2ScanOK
<1>10. ~Mp2Ends'
  <2>1. ~(Len(s'.pay) + 2 >= s'.size)
    <3>1. Len(s'.pay) = 1 /\ s'.size \in Nat /\ s'.size >= MAD_BUFFER_GUARD
      BY <1>3, <1>4, <1>6
    <3> QED
      BY <1>1, <3>1
  <2> QED
    BY <2>1 DEF Mp2Ends, Mp2!Ready, Mp2!Pos
<1>11. UNCHANGED stream
  BY DEF Mp2!FrameParse, Mp2!Framing
<1>12. Mp2NoneNew
  BY <1>2, <1>3, <1>6, <1>8, <1>11, Mp2SameFrame
<1> QED
  BY <1>1, <1>2, <1>9, <1>10, <1>12 DEF Mp2Goes

LEMMA Mp2RateFits ==
  ASSUME Mp2Inv, Mp2Cut(stream), Mp2ScanOK(stream, out, obuf, s) PROVE ~Mp2!FrameRate
<1> SUFFICES ASSUME Mp2!FrameRate PROVE FALSE
  OBVIOUS
<1>1. s.sync = Mp2!Magic /\ s.size # 0 /\ s.rate # Rate
  BY DEF Mp2!FrameRate, Mp2!HeadKnown
<1>2. PICK j \in Nat : Mp2Body(stream, j, out, obuf, s) /\ Mp2At(stream, j)
  BY <1>1, Mp2Inside
<1> QED
  BY <1>1, <1>2 DEF Mp2Body, Mp2At

LEMMA Mp2BodyGoes ==
  ASSUME Mp2Inv, Mp2Inv', Mp2Cut(stream), Mp2ScanOK(stream, out, obuf, s), Mp2!FrameBody,
         UNCHANGED spdif
  PROVE  Mp2Goes /\ Mp2NoneNew
<1> DEFINE w == stream
           p == out - Len(obuf)
           m == Len(s.pay)
           z == s.size
           from == IF obuf # << >> THEN obuf ELSE SubSeq(w, out + 1, tail)
           n == Mp2!Least(z - (m + 2), Len(from))
           pay == s.pay \o SubSeq(from, 1, n)
<1>1. /\ w \in Seq(Mp2Byte) /\ Len(w) \in Nat /\ out \in Nat /\ Len(obuf) \in Nat /\ tail \in Nat
      /\ tail <= Len(w) /\ obuf \in Seq(Mp2Byte) /\ (obuf = << >> <=> Len(obuf) = 0)
      /\ s \in Mp2Scanned(s.sync) /\ m \in Nat /\ s.pay \in Seq(Mp2Byte) /\ z \in Nat
      /\ out <= tail /\ MAD_BUFFER_GUARD \in Nat /\ MAD_BUFFER_GUARD >= 4
  BY Mp2Facts
<1>2. /\ s.sync = Mp2!Magic /\ z # 0 /\ m + 2 < z /\ m + 2 >= 3 /\ Mp2!More
      /\ s' = [s EXCEPT !.pay = pay] /\ UNCHANGED turn
      /\ IF obuf # << >> THEN obuf' = SubSeq(obuf, n + 1, Len(obuf)) /\ out' = out
                         ELSE out' = out + n /\ obuf' = obuf
  BY DEF Mp2!FrameBody, Mp2!Fits, Mp2!HeadKnown, Mp2!Pos
<1>3. PICK j \in Nat : /\ j \in 0..Len(w) /\ Mp2Body(w, j, out, obuf, s) /\ j < Len(w)
                       /\ p = j + 2 + m + Len(s.guard)
  BY <1>2, Mp2Inside
<1>4. Len(obuf) <= out /\ Slice(obuf, w, p)
  BY DEF Mp2ScanOK
<1>5. s.guard = << >> /\ Len(s.guard) = 0
  <2>1. m + 2 # z
    BY <1>1, <1>2
  <2>2. s.guard = << >>
    BY <1>3, <2>1 DEF Mp2Body
  <2> QED
    BY <2>2
<1>6. Len(from) \in Nat /\ Len(from) # 0
  <2>1. CASE obuf # << >>
    BY <1>1, <2>1
  <2>2. CASE obuf = << >>
    <3>1. out < tail
      BY <1>2, <2>2 DEF Mp2!More
    <3> QED
      BY <1>1, <2>2, <3>1
  <2> QED
    BY <2>1, <2>2
<1>7. n \in Nat /\ n >= 1 /\ n <= Len(from) /\ m + n + 2 <= z
  <2> DEFINE l == Len(from)
  <2>1. l \in Nat /\ l # 0 /\ n = (IF z - (m + 2) < l THEN z - (m + 2) ELSE l)
    BY <1>6 DEF Mp2!Least
  <2>2. m \in Nat /\ z \in Nat /\ m + 2 < z
    BY <1>1, <1>2
  <2> HIDE DEF l, n, m, z
  <2>3. n \in Nat /\ n >= 1 /\ n <= l /\ m + n + 2 <= z
    BY <2>1, <2>2
  <2> QED
    BY <2>3 DEF l
<1> HIDE DEF n
<1>8. Mp2Reads(n) /\ Taken(s.pay, pay, w, p, n)
  <2> DEFINE e == from
  <2>1. e = from
    OBVIOUS
  <2> HIDE DEF e
  <2>2. n \in Nat /\ n <= Len(e) /\ pay = s.pay \o SubSeq(e, 1, n)
    BY <1>7, <2>1
  <2> QED
    BY <1>2, <1>4, <2>1, <2>2, Mp2ReadsPiece
<1> HIDE DEF from
<1>9. /\ s'.sync = Mp2!Magic /\ s'.pay = pay /\ s'.size = z /\ s'.guard = << >> /\ s'.rate = s.rate
  BY <1>1, <1>2, <1>5 DEF Mp2Scanned
<1>10. /\ out' \in Nat /\ out <= out' /\ Len(obuf') \in Nat /\ Len(obuf') <= out'
       /\ out' - Len(obuf') = p + n /\ Slice(obuf', w, out' - Len(obuf'))
       /\ obuf' # << >> => obuf # << >> /\ out' = out
       /\ obuf = << >> => out' = out + n
  BY <1>8 DEF Mp2Reads
<1> HIDE DEF pay
<1>11. Slice(pay, w, j + 2) /\ Len(pay) = m + n
  <2>1. Slice(s.pay, w, j + 2) /\ j + 2 \in Nat /\ p = (j + 2) + m
    <3>1. p = j + 2 + m
      <4> HIDE DEF p, m
      <4> QED
        BY <1>1, <1>3, <1>5
    <3>2. Slice(s.pay, w, j + 2)
      BY <1>3 DEF Mp2Body
    <3>3. (j + 2) + m = j + 2 + m /\ j + 2 \in Nat
      <4> HIDE DEF m
      <4> QED
        BY <1>1
    <3> QED
      BY <3>1, <3>2, <3>3
  <2> HIDE DEF p
  <2>2. Slice(pay, w, j + 2)
    BY <1>1, <1>7, <1>8, <2>1, SliceTakes
  <2> QED
    BY <1>8, <2>2 DEF Taken
<1>12. Len(s'.guard) = 0 /\ Slice(s'.guard, w, out' - Len(s'.guard))
  BY <1>9 DEF Slice
<1>13. spdif => obuf' = << >> /\ obuf = << >>
  BY <1>10 DEF Mp2ScanOK
<1>14. out' = j + 2 + Len(s'.pay) + Len(s'.guard) + Len(obuf')
  <2> DEFINE a == Len(obuf')
             r == out'
  <2>1. r \in Nat /\ a \in Nat /\ r - a = p + n /\ Len(s'.pay) = m + n /\ Len(s'.guard) = 0
    BY <1>9, <1>10, <1>11, <1>12
  <2>2. p = j + 2 + m + 0 /\ m \in Nat
    BY <1>1, <1>3, <1>5
  <2> HIDE DEF a, r, p, m
  <2>3. r = j + 2 + (m + n) + 0 + a
    BY <1>7, <2>1, <2>2
  <2> QED
    BY <2>1, <2>3 DEF a, r
<1>15. Mp2Body(w, j, out', obuf', s')
  <2>1. obuf' # << >> => out' = j + MAD_BUFFER_GUARD
    BY <1>3, <1>10 DEF Mp2Body
  <2>2. Mp2Border(w, j) /\ j < Len(w) /\ z = Mp2Z(w, j) /\ s.rate = w[j + 3].r
    BY <1>2, <1>3 DEF Mp2Body
  <2>3. Len(s'.pay) >= 1
    <3> HIDE DEF m
    <3> QED
      BY <1>1, <1>7, <1>9, <1>11
  <2> QED
    BY <1>9, <1>11, <1>14, <2>1, <2>2, <2>3 DEF Mp2Body
<1>16. Mp2ScanOK(w, out', obuf', s')
  BY <1>3, <1>9, <1>10, <1>12, <1>13, <1>15 DEF Mp2ScanOK
<1>17. ASSUME Mp2Ends' PROVE out < out' /\ turn' = "frame"
  <2>1. spdif'
    BY <1>1, <1>12, <1>17 DEF Mp2Ends, Mp2!Ready, Mp2!GuardFull
  <2>2. out' = out + n
    BY <1>10, <1>13, <2>1
  <2>3. turn' = "frame"
    BY <1>2 DEF Mp2!FrameBody, Mp2!Framing
  <2> QED
    BY <1>1, <1>7, <2>2, <2>3
<1>18. UNCHANGED stream
  BY DEF Mp2!FrameBody, Mp2!Framing
<1>19. Mp2NoneNew
  BY <1>2, <1>3, <1>9, <1>15, <1>18, Mp2SameFrame
<1> QED
  BY <1>2, <1>10, <1>16, <1>17, <1>19 DEF Mp2Goes

\* A frame is done with, and what follows is looked for.
LEMMA Mp2DoneGoes ==
  ASSUME Mp2Inv, Mp2Cut(stream), Mp2ScanOK(stream, out, obuf, s),
         Mp2!FramePlay \/ (Mp2!Ready /\ s' = Mp2!Finished),
         UNCHANGED <<spdif, turn, out, obuf>>
  PROVE  Mp2Goes
<1> DEFINE w == stream
           g == Len(s.guard)
           G == MAD_BUFFER_GUARD
<1>1. /\ Len(w) \in Nat /\ out \in Nat /\ s \in Mp2Scanned(s.sync)
      /\ g \in Nat /\ G \in Nat /\ G >= 4 /\ (s.guard = << >> <=> g = 0)
  BY Mp2Facts
<1>2. /\ s.sync = Mp2!Magic /\ s.size # 0 /\ Len(s.pay) + 2 >= s.size
      /\ ~spdif => g = G
  BY DEF Mp2!FramePlay, Mp2!Ready, Mp2!Fits, Mp2!HeadKnown, Mp2!Pos, Mp2!GuardFull
<1>3. PICK j \in 0..Len(w) : Mp2Body(w, j, out, obuf, s)
  BY <1>2 DEF Mp2ScanOK
<1> DEFINE e == j + Mp2Z(w, j)
<1>4. obuf = << >> /\ out = e + g /\ Mp2Border(w, e) /\ e \in 1..Len(w)
  BY <1>2, <1>3, Mp2Full
<1> HIDE DEF e
<1>5. spdif => s.guard = << >> /\ g = 0
  BY <1>1 DEF Mp2ScanOK
<1>6. \/ s' = [Mp2!Resync EXCEPT !.size = 0] /\ (spdif \/ running)
      \/ s' = Mp2!ScanReset /\ ~spdif
  BY DEF Mp2!FramePlay, Mp2!Finished, Mp2!Ready
<1>7. /\ s'.sync = Mp2!None /\ s'.pay = << >> /\ s'.size = 0
      /\ s'.guard = s.guard \/ (s'.guard = << >> /\ ~spdif)
  <2>1. PICK none \in Seq(Mp2Byte) : none = << >> /\ Len(none) = 0
    BY Mp2Nothing
  <2>2. CASE s' = [Mp2!Resync EXCEPT !.size = 0]
    <3>1. Mp2!Resync = [s EXCEPT !.sync = Mp2!None, !.pay = none]
      BY <2>1 DEF Mp2!Resync
    <3>2. /\ s'.sync = Mp2!None /\ s'.pay = none /\ s'.size = 0 /\ s'.guard = s.guard
      BY <1>1, <2>2, <3>1 DEF Mp2Scanned
    <3> QED
      BY <2>1, <3>2
  <2>3. CASE s' = Mp2!ScanReset /\ ~spdif
    BY <2>3 DEF Mp2!ScanReset
  <2> QED
    BY <1>6, <2>2, <2>3
<1>8. Len(obuf') = 0 /\ obuf' = << >> /\ out' = out
  BY <1>4
<1>9. ASSUME s'.guard = << >>
      PROVE  (\E b \in 0..Len(w) : Mp2Seeks(w, b, out', obuf', s'))
             /\ Len(s'.guard) <= out' /\ Slice(s'.guard, w, out' - Len(s'.guard))
  <2>1. out' - Len(obuf') = out /\ out \in 0..Len(w)
    BY <1>1, <1>8, Mp2Facts
  <2>2. Mp2Seek(w, out, out, s'.sync)
    BY <1>1, <1>7, Mp2SeekStarts
  <2>3. Mp2Seeks(w, out, out', obuf', s')
    BY <1>7, <1>8, <1>9, <2>1, <2>2 DEF Mp2Seeks
  <2>4. Len(s'.guard) = 0
    BY <1>9
  <2> QED
    BY <1>1, <1>8, <1>9, <2>1, <2>3, <2>4 DEF Slice
<1>10. ASSUME s'.guard = s.guard, s.guard # << >>
       PROVE  Mp2Turned(w, out', obuf', s')
              /\ Len(s'.guard) <= out' /\ Slice(s'.guard, w, out' - Len(s'.guard))
  <2>1. Len(s'.guard) = G /\ ~spdif /\ out = e + G
    BY <1>2, <1>4, <1>5, <1>10
  <2>2. out >= G /\ out - G = e
    BY <1>1, <1>4, <2>1
  <2>3. Mp2Turned(w, out', obuf', s')
    BY <1>4, <1>7, <1>8, <2>1, <2>2 DEF Mp2Turned
  <2>4. Slice(s.guard, w, out - Len(s.guard)) /\ Len(s.guard) <= out
    BY DEF Mp2ScanOK
  <2> QED
    BY <1>8, <1>10, <2>3, <2>4
<1>11. Slice(obuf', w, out' - Len(obuf')) /\ Len(obuf') <= out'
  BY <1>1, <1>8 DEF Slice
<1>12. spdif => s'.guard = << >>
  BY <1>5, <1>7
<1>13. Mp2ScanOK(w, out', obuf', s')
  <2>1. CASE s'.guard = << >>
    BY <1>7, <1>8, <1>9, <1>11, <2>1, Mp2NoneIsNot DEF Mp2ScanOK
  <2>2. CASE s'.guard # << >>
    BY <1>7, <1>8, <1>10, <1>11, <1>12, <2>2, Mp2NoneIsNot DEF Mp2ScanOK
  <2> QED
    BY <2>1, <2>2
<1>14. ~Mp2Ends'
  BY <1>7 DEF Mp2Ends, Mp2!Ready, Mp2!Fits
<1> QED
  BY <1>1, <1>8, <1>13, <1>14 DEF Mp2Goes

\* libmad gets the bytes of one frame.
LEMMA Mp2ReadySound ==
  ASSUME Mp2Inv, Mp2Cut(stream), Mp2ScanOK(stream, out, obuf, s), Mp2!Ready
  PROVE  /\ Mp2!Sound
         /\ \A k \in 1..MAD_BUFFER_GUARD :
               s.guard[k].i = k - 1 /\ s.guard[k].f = s.pay[1].f + 1
<1> DEFINE w == stream
           m == Len(s.pay)
           G == MAD_BUFFER_GUARD
<1>1. /\ w \in Seq(Mp2Byte) /\ Len(w) \in Nat /\ out \in Nat /\ m \in Nat /\ G \in Nat /\ G >= 4
      /\ out <= tail /\ tail <= Len(w) /\ tail \in Nat
  BY Mp2Facts
<1>2. /\ s.sync = Mp2!Magic /\ s.size # 0 /\ m + 2 >= s.size /\ Len(s.guard) = G
  BY DEF Mp2!Ready, Mp2!Fits, Mp2!HeadKnown, Mp2!Pos, Mp2!GuardFull
<1>3. PICK j \in 0..Len(w) : Mp2Body(w, j, out, obuf, s)
  BY <1>2 DEF Mp2ScanOK
<1> DEFINE z == Mp2Z(w, j)
           e == j + z
<1>4. /\ j \in Nat /\ Mp2At(w, j) /\ z \in Nat /\ z >= G /\ m + 2 = z /\ out = j + z + Len(s.guard)
      /\ Mp2Border(w, e) /\ e \in 1..Len(w)
  BY <1>2, <1>3, Mp2Full
<1>5. /\ \A k \in 1..z : w[j + k].f = w[j + 1].f /\ w[j + k].i = k - 1 /\ w[j + k].ok
      /\ e < Len(w) => w[e + 1].f = w[j + 1].f + 1
  BY <1>4 DEF Mp2At
<1> HIDE DEF z
<1>6. ASSUME NEW k \in 1..m
      PROVE  s.pay[k].f = w[j + 1].f /\ s.pay[k].i = k + 1 /\ s.pay[k].ok
  <2>1. k + 2 \in 1..z /\ (j + 2) + k = j + (k + 2) /\ (k + 2) - 1 = k + 1
    <3> HIDE DEF m
    <3> QED
      BY <1>1, <1>4
  <2>2. s.pay[k] = w[(j + 2) + k]
    BY <1>3 DEF Mp2Body, Slice
  <2> QED
    BY <1>5, <2>1, <2>2
<1>7. s.pay[1].f = w[j + 1].f
  <2>1. 1 \in 1..m
    <3> HIDE DEF m
    <3> QED
      BY <1>1, <1>4
  <2> QED
    BY <1>6, <2>1
<1>8. Mp2!Sound
  BY <1>6, <1>7 DEF Mp2!Sound
<1>9. out = e + G /\ e + G <= Len(w) /\ e < Len(w) /\ e \in Nat
  BY <1>1, <1>2, <1>4
<1> HIDE DEF e
<1>10. Mp2At(w, e) /\ Mp2Z(w, e) \in Nat /\ Mp2Z(w, e) >= G
  <2>1. e # Len(w)
    BY <1>1, <1>9
  <2> QED
    BY <1>1, <1>4, <1>9, <2>1, Mp2Begins
<1>11. ASSUME NEW k \in 1..G PROVE s.guard[k].i = k - 1 /\ s.guard[k].f = s.pay[1].f + 1
  <2>1. s.guard[k] = w[e + k]
    <3>1. Slice(s.guard, w, out - Len(s.guard))
      BY DEF Mp2ScanOK
    <3>2. out - G = e
      BY <1>1, <1>9
    <3> QED
      BY <1>2, <3>1, <3>2 DEF Slice
  <2>2. k \in 1..Mp2Z(w, e)
    BY <1>1, <1>10
  <2>3. w[e + k].f = w[e + 1].f /\ w[e + k].i = k - 1
    BY <1>10, <2>2 DEF Mp2At
  <2>4. w[e + 1].f = w[j + 1].f + 1
    BY <1>5, <1>9
  <2> QED
    BY <1>7, <2>1, <2>3, <2>4
<1> QED
  BY <1>8, <1>11

LEMMA Mp2GuardGoes ==
  ASSUME Mp2Inv, Mp2Inv', Mp2Cut(stream), Mp2ScanOK(stream, out, obuf, s), Mp2!FrameGuard,
         UNCHANGED spdif
  PROVE  Mp2Goes /\ Mp2NoneNew
<1> DEFINE w == stream
           g == Len(s.guard)
           G == MAD_BUFFER_GUARD
           n == out' - out
           part == SubSeq(w, out + 1, out')
           guard == s.guard \o part
<1>1. /\ w \in Seq(Mp2Byte) /\ Len(w) \in Nat /\ out \in Nat /\ tail \in Nat /\ tail <= Len(w)
      /\ s \in Mp2Scanned(s.sync) /\ s.guard \in Seq(Mp2Byte)
      /\ g \in Nat /\ g <= G /\ G \in Nat /\ G >= 4
  BY Mp2Facts
<1>2. /\ ~spdif /\ s.sync = Mp2!Magic /\ s.size # 0 /\ Len(s.pay) + 2 >= s.size /\ g # G
      /\ out < tail /\ out' = Mp2!Least(out + G - g, tail) /\ s' = [s EXCEPT !.guard = guard]
      /\ UNCHANGED <<turn, obuf>>
  BY DEF Mp2!FrameGuard, Mp2!Fits, Mp2!HeadKnown, Mp2!Pos, Mp2!GuardFull
<1>3. turn' = "frame"
  BY DEF Mp2!FrameGuard, Mp2!Framing
<1>4. out' \in Nat /\ out < out' /\ out' <= tail
  <2>1. out' = IF out + G - g < tail THEN out + G - g ELSE tail
    BY <1>2 DEF Mp2!Least
  <2> HIDE DEF g
  <2> QED
    BY <1>1, <1>2, <2>1
<1>5. n \in Nat /\ n >= 1 /\ out' = out + n /\ out + n <= Len(w)
  <2>1. n \in Nat /\ out' = out + n
    <3>1. out \in Nat /\ out' \in Nat /\ out <= out'
      BY <1>1, <1>4
    <3> QED
      BY <3>1, Difference
  <2> HIDE DEF n
  <2> QED
    BY <1>1, <1>4, <2>1
<1> HIDE DEF n
<1>6. PICK j \in 0..Len(w) : Mp2Body(w, j, out, obuf, s)
  BY <1>2 DEF Mp2ScanOK
<1>7. obuf = << >> /\ j \in Nat /\ Len(s.pay) + 2 = Mp2Z(w, j) /\ Len(obuf) = 0
      /\ out = j + Mp2Z(w, j) + g /\ Mp2Z(w, j) \in Nat /\ s.size = Mp2Z(w, j)
  <2>1. /\ obuf = << >> /\ j \in Nat /\ Len(s.pay) + 2 = Mp2Z(w, j)
        /\ out = j + Mp2Z(w, j) + g /\ Mp2Z(w, j) \in Nat
    BY <1>2, <1>6, Mp2Full
  <2>2. s.size = Mp2Z(w, j)
    BY <1>2, <1>6 DEF Mp2Body
  <2> QED
    BY <2>1, <2>2
<1>8. Taken(s.guard, guard, w, out, n)
  <2>1. part = SubSeq(w, out + 1, out + n)
    BY <1>5
  <2> QED
    BY <1>1, <1>5, <2>1, TakesPiece
<1>9. Slice(guard, w, out - g) /\ Len(guard) = g + n
  <2>1. g <= out /\ Slice(s.guard, w, out - g)
    BY DEF Mp2ScanOK
  <2>2. out - g \in Nat /\ (out - g) + g = out
    <3> HIDE DEF g
    <3> QED
      BY <1>1, <2>1
  <2>3. Taken(s.guard, guard, w, (out - g) + Len(s.guard), n)
    BY <1>8, <2>2
  <2> HIDE DEF guard
  <2>4. Slice(guard, w, out - g)
    BY <1>1, <1>5, <2>1, <2>2, <2>3, SliceTakes
  <2> QED
    BY <1>8, <2>4 DEF Taken
<1>10. /\ s'.sync = Mp2!Magic /\ s'.pay = s.pay /\ s'.size = s.size /\ s'.guard = guard
       /\ s'.rate = s.rate
  BY <1>1, <1>2 DEF Mp2Scanned
<1> HIDE DEF guard
<1>11. Len(s'.guard) <= out' /\ out' - Len(s'.guard) = out - g
  <2>1. Len(s'.guard) = g + n
    BY <1>9, <1>10
  <2>2. g <= out
    BY DEF Mp2ScanOK
  <2> HIDE DEF g
  <2> QED
    BY <1>1, <1>5, <2>1, <2>2
<1>12. Slice(s'.guard, w, out' - Len(s'.guard))
  BY <1>9, <1>10, <1>11
<1>13. Mp2Body(w, j, out', obuf', s')
  <2>1. out' = j + 2 + Len(s'.pay) + Len(s'.guard) + Len(obuf')
    <3> DEFINE m == Len(s.pay)
               z == Mp2Z(w, j)
    <3>1. /\ Len(s'.pay) = m /\ Len(s'.guard) = g + n /\ Len(obuf') = 0
          /\ m + 2 = z /\ out' = out + n /\ out = j + z + g /\ z \in Nat
      BY <1>2, <1>5, <1>7, <1>9, <1>10
    <3>2. m \in Nat
      BY Mp2Facts
    <3> HIDE DEF m, z, g
    <3>3. j \in Nat /\ n \in Nat /\ g \in Nat
      BY <1>1, <1>5, <1>7
    <3>4. out' = j + 2 + m + (g + n) + 0
      BY <3>1, <3>2, <3>3
    <3> QED
      BY <3>1, <3>4 DEF m
  <2>2. Mp2Border(w, j) /\ j < Len(w) /\ Slice(s.pay, w, j + 2)
        /\ Len(s.pay) >= 1 /\ s.size = Mp2Z(w, j) /\ s.rate = w[j + 3].r
    BY <1>2, <1>6 DEF Mp2Body
  <2>3. obuf' = << >>
    BY <1>2, <1>7
  <2> QED
    BY <1>2, <1>7, <1>10, <2>1, <2>2, <2>3 DEF Mp2Body
<1>14. Slice(obuf', w, out' - Len(obuf')) /\ Len(obuf') <= out'
  BY <1>2, <1>4, <1>7 DEF Slice
<1>15. Mp2ScanOK(w, out', obuf', s')
  BY <1>2, <1>6, <1>10, <1>11, <1>12, <1>13, <1>14 DEF Mp2ScanOK
<1>16. UNCHANGED stream
  BY DEF Mp2!FrameGuard, Mp2!Framing
<1>17. Mp2NoneNew
  BY <1>2, <1>6, <1>7, <1>10, <1>13, <1>16, Mp2SameFrame
<1> QED
  BY <1>1, <1>2, <1>3, <1>4, <1>15, <1>17 DEF Mp2Goes

\* A frame is played, the one in which the guard ends that is thrown away when
\* libmad is started is not.
LEMMA Mp2DonePassed ==
  ASSUME Mp2Inv, Mp2Cut(stream), Mp2ScanOK(stream, out, obuf, s),
         Mp2!FramePlay \/ (Mp2!Ready /\ s' = Mp2!Finished),
         UNCHANGED <<spdif, turn, out, obuf>>
  PROVE  /\ Mp2Begun \in Int /\ Mp2Begun' \in Int /\ s.pay[1].f \in Nat
         /\ \A e \in 0..Len(stream) - 1 :
               Mp2Border(stream, e) /\ Mp2Begun <= e /\ e < Mp2Begun'
                 => \/ stream[e + 1].f = s.pay[1].f
                    \/ ~spdif /\ ~running /\ stream[e + 1].f = s.pay[1].f + 1
<1> DEFINE w == stream
           g == Len(s.guard)
           G == MAD_BUFFER_GUARD
<1>1. /\ w \in Seq(Mp2Byte) /\ Len(w) \in Nat /\ out \in Nat /\ s \in Mp2Scanned(s.sync)
      /\ g \in Nat /\ G \in Nat /\ G >= 4 /\ (s.guard = << >> <=> g = 0)
  BY Mp2Facts
<1>2. /\ s.sync = Mp2!Magic /\ s.size # 0 /\ Len(s.pay) + 2 >= s.size
      /\ ~spdif => g = G
  BY DEF Mp2!FramePlay, Mp2!Ready, Mp2!Fits, Mp2!HeadKnown, Mp2!Pos, Mp2!GuardFull
<1>3. PICK j \in 0..Len(w) : Mp2Body(w, j, out, obuf, s)
  BY <1>2 DEF Mp2ScanOK
<1> DEFINE z == Mp2Z(w, j)
           e == j + z
<1>4. /\ j \in Nat /\ Mp2At(w, j) /\ z \in Nat /\ z >= G /\ Len(s.pay) + 2 = z
      /\ obuf = << >> /\ out = e + g /\ Mp2Border(w, e) /\ e \in 1..Len(w) /\ Mp2Border(w, j)
  BY <1>2, <1>3, Mp2Full DEF Mp2Body
<1>5. Mp2Begun = j
  BY <1>2, <1>3, <1>4, Mp2BegunAt DEF Mp2BegunIs
<1>6. s.pay[1].f = w[j + 1].f /\ w[j + 1].f \in Nat
      /\ (e < Len(w) => w[e + 1].f = w[j + 1].f + 1)
  <2>1. \A k \in 1..z : w[j + k].f = w[j + 1].f
    BY <1>4 DEF Mp2At
  <2>2. e < Len(w) => w[e + 1].f = w[j + 1].f + 1
    BY <1>4 DEF Mp2At
  <2> DEFINE m == Len(s.pay)
  <2>3. m \in Nat /\ m + 2 = z /\ \A k \in 1..m : s.pay[k] = w[(j + 2) + k]
    BY <1>3, <1>4, Mp2Facts DEF Mp2Body, Slice
  <2>7. j \in Nat /\ z \in Nat /\ z >= 4 /\ j + z <= Len(w) /\ Len(w) \in Nat
    BY <1>1, <1>4
  <2> HIDE DEF m, z
  <2>4. 1 \in 1..m /\ 3 \in 1..z /\ (j + 2) + 1 = j + 3 /\ j + 1 \in 1..Len(w)
    BY <2>3, <2>7
  <2>5. s.pay[1] = w[j + 3] /\ w[j + 3].f = w[j + 1].f
    BY <2>1, <2>3, <2>4
  <2>6. w[j + 1] \in Mp2Byte
    BY <1>1, <2>4
  <2> QED
    BY <2>2, <2>5, <2>6 DEF Mp2Byte
<1> HIDE DEF z
<1>7. spdif => g = 0
  BY <1>1 DEF Mp2ScanOK
<1>8. Mp2Begun' = IF spdif \/ running THEN e ELSE e + G
  <2> DEFINE h == Len(s'.guard)
             a == Len(obuf')
  <2>1. a = 0 /\ out' = e + g
    BY <1>4
  <2>2. PICK none \in Seq(Mp2Byte) : none = << >> /\ Len(none) = 0
    BY Mp2Nothing
  <2>3. ASSUME s' = [Mp2!Resync EXCEPT !.size = 0] PROVE s'.sync = Mp2!None /\ h = g
    <3>1. Mp2!Resync = [s EXCEPT !.sync = Mp2!None, !.pay = none]
      BY <2>2 DEF Mp2!Resync
    <3> QED
      BY <1>1, <2>3, <3>1 DEF Mp2Scanned
  <2>4. ASSUME s' = Mp2!ScanReset PROVE s'.sync = Mp2!None /\ h = 0
    BY <2>4 DEF Mp2!ScanReset
  <2>5. /\ s'.sync = Mp2!None
        /\ IF spdif \/ running THEN h = g ELSE h = 0
    BY <2>3, <2>4 DEF Mp2!FramePlay, Mp2!Finished, Mp2!Ready
  <2>6. Mp2Taken' = 0
    BY <2>5 DEF Mp2Taken, Mp2!Magic, Mp2!None
  <2>7. Mp2Begun' = out' - a - h - Mp2Taken'
    BY DEF Mp2Begun
  <2>8. ~spdif => g = G
    BY <1>2
  <2> HIDE DEF a, h, g, e
  <2>9. e \in Nat
    BY <1>4
  <2> QED
    BY <1>1, <2>1, <2>5, <2>6, <2>7, <2>8, <2>9
<1> HIDE DEF e
<1>9. e \in Nat /\ e <= Len(w)
  BY <1>1, <1>4
<1>10. ASSUME NEW d \in 0..Len(w) - 1, Mp2Border(w, d), Mp2Begun <= d, d < Mp2Begun'
       PROVE  d = j \/ (d = e /\ e < Len(w) /\ ~spdif /\ ~running)
  <2>1. d \in Nat /\ d < Len(w)
    BY <1>1, <1>10
  <2>2. d = j \/ e <= d
    <3>1. j < d => e <= d
      BY <1>1, <1>4, <1>10, <2>1, Mp2Apart DEF e, z
    <3> QED
      BY <1>4, <1>5, <1>10, <2>1, <3>1
  <2>3. d <= e \/ e + G <= d
    <3>1. e < d => e # Len(w) /\ e + Mp2Z(w, e) <= d
      BY <1>1, <1>4, <1>9, <1>10, <2>1, Mp2Apart
    <3>2. e < d => Mp2Z(w, e) \in Nat /\ Mp2Z(w, e) >= G
      BY <1>1, <1>4, <1>9, <3>1, Mp2Begins
    <3> QED
      BY <1>1, <1>9, <2>1, <3>1, <3>2
  <2> QED
    BY <1>1, <1>8, <1>9, <1>10, <2>1, <2>2, <2>3
<1>11. Mp2Begun \in Int /\ Mp2Begun' \in Int
  BY <1>1, <1>4, <1>5, <1>8, <1>9
<1> QED
  BY <1>6, <1>10, <1>11

LEMMA Mp2OutGoes ==
  ASSUME Mp2Inv, Mp2ScanOK(stream, out, obuf, s), Mp2!FrameOut, UNCHANGED spdif PROVE Mp2Goes
<1>1. /\ UNCHANGED <<out, s, obuf>> /\ turn' = "idle" /\ ~Mp2!More /\ ~Mp2Ends
  BY DEF Mp2!FrameOut, Mp2!frameVars, Mp2Ends
<1>2. out \in Nat /\ tail \in Nat /\ out <= tail
  BY Mp2Facts
<1>3. out' = tail
  BY <1>1, <1>2 DEF Mp2!More
<1>4. Mp2ScanOK(stream, out', obuf', s')
  BY <1>1
<1>5. ~Mp2Ends'
  BY <1>1 DEF Mp2Ends, Mp2!Ready, Mp2!Fits, Mp2!HeadKnown, Mp2!Pos, Mp2!GuardFull
<1> QED
  BY <1>1, <1>2, <1>3, <1>4, <1>5 DEF Mp2Goes

LEMMA Mp2FrameStep ==
  ASSUME Mp2Inv, Mp2Inv', Mp2Cut(stream), Mp2Along, Mp2!Frame PROVE Mp2Along'
<1>1. UNCHANGED <<stream, spdif, tail, buf, c, ret>> /\ turn = "frame"
  BY DEF Mp2!Frame, Mp2!FrameNew, Mp2!FrameSync, Mp2!FrameHead, Mp2!FrameParse,
         Mp2!FrameRate, Mp2!FrameBody, Mp2!FramePlay, Mp2!FrameGuard, Mp2!StreamFails,
         Mp2!Decode, Mp2!FrameOut, Mp2!Framing, Mp2!countVars
<1>2. Mp2ScanOK(stream, out, obuf, s) /\ UNCHANGED spdif
  BY <1>1 DEF Mp2Along
<1>3. ASSUME Mp2!FramePlay \/ Mp2!StreamFails PROVE Mp2Goes
  <2>1. /\ Mp2!FramePlay \/ (Mp2!Ready /\ s' = Mp2!Finished)
        /\ UNCHANGED <<spdif, turn, out, obuf>>
    BY <1>1, <1>3 DEF Mp2!FramePlay, Mp2!StreamFails
  <2> QED
    BY <1>2, <2>1, Mp2DoneGoes
<1>4. ASSUME Mp2!Decode PROVE Mp2Goes
  <2>1. Mp2!Ready /\ s' = Mp2!Finished /\ UNCHANGED obuf
    BY <1>4 DEF Mp2!Decode
  <2>2. Mp2!Sound
    BY <1>2, <2>1, Mp2ReadySound
  <2>3. UNCHANGED <<turn, out>>
    BY <1>4, <2>2 DEF Mp2!Decode, Mp2!Answers
  <2> QED
    BY <1>2, <2>1, <2>3, Mp2DoneGoes
<1>5. Mp2Goes
  BY <1>2, <1>3, <1>4, Mp2NewGoes, Mp2SyncGoes, Mp2HeadGoes, Mp2ParseGoes, Mp2RateFits, Mp2BodyGoes,
     Mp2GuardGoes, Mp2OutGoes DEF Mp2!Frame
<1> QED
  BY <1>1, <1>5, Mp2GoesOn
LEMMA Mp2Starts ==
  ASSUME NEW w, Mp2Border(w, 0), NEW y, y = Mp2!ScanReset, NEW x, x = Mp2!CountReset,
         Len(w) \in Nat
  PROVE  Mp2ScanOK(w, 0, << >>, y) /\ Mp2CountOK(w, 0, 0, x)
<1>1. /\ y.sync = Mp2!None /\ y.pay = << >> /\ y.size = 0 /\ y.guard = << >>
      /\ x.sync = Mp2!None /\ x.bfound = 0 /\ x.guard = 0
  BY DEF Mp2!ScanReset, Mp2!CountReset
<1>2. Mp2CountOK(w, 0, 0, x)
  BY <1>1 DEF Mp2CountOK, Mp2Left
<1>3. Mp2Seek(w, 0, 0, y.sync)
  BY <1>1, Mp2SeekStarts
<1>4. Mp2Seeks(w, 0, 0, << >>, y)
  <2>1. 0 - Len(<< >>) = 0
    <3> DEFINE n == Len(<< >>)
    <3>1. n = 0
      OBVIOUS
    <3> HIDE DEF n
    <3>2. 0 - n = 0
      BY <3>1
    <3> QED
      BY <3>2 DEF n
  <2> QED
    BY <1>1, <1>3, <2>1 DEF Mp2Seeks
<1>5. Mp2ScanOK(w, 0, << >>, y)
  BY <1>1, <1>4, Mp2NoneIsNot DEF Mp2ScanOK, Slice
<1> QED
  BY <1>2, <1>5

Mp2Fresh == /\ buf = 0 /\ out = 0 /\ tail = 0 /\ turn = "idle" /\ obuf = << >>
            /\ s = Mp2!ScanReset /\ c = Mp2!CountReset
LEMMA Mp2FreshAlong ==
  Mp2Inv /\ Mp2Cut(stream) /\ Mp2Fresh => Mp2Along
<1> SUFFICES ASSUME Mp2Inv, Mp2Cut(stream), Mp2Fresh PROVE Mp2Along
  OBVIOUS
<1>1. Len(stream) \in Nat /\ Mp2Border(stream, 0) /\ MAD_BUFFER_GUARD >= 4
      /\ MAD_BUFFER_GUARD \in Nat
  BY Mp2Facts DEF Mp2Cut
<1>2. Mp2ScanOK(stream, out, obuf, s) /\ Mp2CountOK(stream, 0, buf, c)
  BY <1>1, Mp2Starts DEF Mp2Fresh
<1>3. c.bfound = 0 /\ s.size = 0
  BY DEF Mp2Fresh, Mp2!CountReset, Mp2!ScanReset
<1>4. Mp2Turns
  BY <1>3 DEF Mp2Fresh, Mp2Turns
<1>5. ~Mp2Ends
  BY <1>3 DEF Mp2Ends, Mp2!Ready, Mp2!Fits
<1>6. ASSUME NEW e \in 1..Len(stream) PROVE ~Mp2Passed(0, buf, e)
  BY <1>1 DEF Mp2Passed, Mp2Fresh
<1>7. Mp2Tells(0)
  BY <1>5, <1>6 DEF Mp2Tells
<1> QED
  BY <1>1, <1>2, <1>4, <1>7 DEF Mp2Along

LEMMA Mp2FeedStep ==
  ASSUME Mp2Inv, Mp2Cut(stream), Mp2Along, Mp2!Feed PROVE Mp2Along'
<1>1. /\ turn = "idle" /\ turn' = "count" /\ buf' = out
      /\ UNCHANGED <<stream, spdif, out, s, obuf, c>>
  BY DEF Mp2!Feed, Mp2!frameVars
<1>2. out = tail /\ buf = tail /\ buf' = buf /\ out \in Nat /\ MAD_BUFFER_GUARD \in Nat
      /\ (c.bfound >= 3 => c.bfound < c.fsize)
  BY <1>1, Mp2Facts DEF Mp2Along, Mp2Turns
<1>3. PICK b \in 0..Len(stream) : Mp2CountOK(stream, b, buf, c) /\ Mp2Tells(b)
  BY DEF Mp2Along
<1>4. Mp2Turns' /\ Mp2ScanOK(stream, out, obuf, s)'
  BY <1>1, <1>2 DEF Mp2Along, Mp2Turns, Mp2ScanOK, Mp2Body, Mp2Turned, Mp2Seeks
<1>5. Mp2CountOK(stream, b, buf, c)'
  BY <1>1, <1>2, <1>3 DEF Mp2CountOK, Mp2Left
<1>6. ~Mp2Ends'
  <2>1. ~Mp2Ends
    BY <1>1, <1>3 DEF Mp2Tells
  <2> QED
    BY <1>1, <2>1 DEF Mp2Ends, Mp2!Ready, Mp2!Fits, Mp2!HeadKnown, Mp2!Pos, Mp2!GuardFull
<1>7. ASSUME NEW e \in 1..Len(stream), Mp2Passed(b, buf, e) PROVE Mp2Mark(e) <= out
  <2>1. b <= buf
    <3>1. c.bfound \in Nat /\ stream \in Seq(Mp2Byte) /\ buf \in Nat
      BY Mp2Facts DEF Mp2Inv, Mp2Counter
    <3> QED
      BY <1>3, <3>1, Mp2CountAt
  <2>2. b \in Nat /\ e \in Nat /\ buf = out
    BY <1>2, <1>3, Mp2Facts
  <2> QED
    BY <1>2, <1>7, <2>1, <2>2 DEF Mp2Passed, Mp2Mark
<1>8. Mp2Tells(b)'
  BY <1>1, <1>2, <1>6, <1>7 DEF Mp2Tells, Mp2Passed, Mp2Mark
<1> QED
  BY <1>1, <1>3, <1>4, <1>5, <1>8 DEF Mp2Along

LEMMA Mp2IntactSame ==
  ASSUME UNCHANGED stream PROVE Mp2!Intact' <=> Mp2!Intact
BY DEF Mp2!Intact, Mp2!FrameNo, Mp2!Whole, Mp2!WholeAt, Mp2!Places, Mp2!SyncAt

\* Of a stream of whole frames, those that begin before the place where the
\* search stands have been played, but for the second one when libmad was
\* started with the first.
Mp2Heard(n) == \/ n \in Mp2!Range(heard)
               \/ ~spdif /\ heard # << >> /\ n = heard[1] + 1
Mp2Played == \A e \in 0..Len(stream) - 1 :
    Mp2Border(stream, e) /\ e < Mp2Begun => Mp2Heard(stream[e + 1].f)
Mp2Spent == /\ obuf = << >>
            /\ ~(Mp2!HeadKnown /\ s.size = 0)
            /\ ~(Mp2!GuardFull /\ s.pay = << >> /\ s.sync = Mp2!None)
Mp2Plays == /\ heard \in Seq(Nat) /\ rest /\ (~spdif /\ ~running => heard = << >>)
            /\ Mp2Played
            /\ turn = "idle" => Mp2Spent

LEMMA Mp2HeardOn ==
  ASSUME heard \in Seq(Nat), NEW x \in Nat, heard' = Append(heard, x), UNCHANGED spdif
  PROVE  /\ heard' \in Seq(Nat) /\ Mp2Heard(x)'
         /\ \A n : Mp2Heard(n) => Mp2Heard(n)'
         /\ ~spdif /\ heard = << >> => Mp2Heard(x + 1)'
<1> DEFINE h == Append(heard, x)
           l == Len(heard)
<1>1. h \in Seq(Nat) /\ Len(h) = l + 1 /\ h[l + 1] = x /\ \A k \in 1..l : h[k] = heard[k]
  BY Appended
<1>2. l \in Nat /\ (heard = << >> <=> l = 0)
  OBVIOUS
<1>3. Mp2!Range(heard) = {heard[k] : k \in 1..l}
  BY DEF Mp2!Range
<1>4. Mp2!Range(heard') = {h[k] : k \in 1..l + 1}
  <2>1. DOMAIN h = 1..l + 1
    BY <1>1
  <2> QED
    BY <2>1 DEF Mp2!Range
<1>5. heard' = h /\ h # << >>
  BY <1>1, <1>2
<1> HIDE DEF h, l
<1>6. x \in Mp2!Range(heard')
  <2>1. l + 1 \in 1..l + 1
    BY <1>2
  <2> QED
    BY <1>1, <1>4, <2>1
<1>7. ASSUME NEW n, n \in Mp2!Range(heard) PROVE n \in Mp2!Range(heard')
  <2>1. PICK k \in 1..l : n = heard[k]
    BY <1>3, <1>7
  <2>2. k \in 1..l + 1 /\ h[k] = n
    BY <1>1, <1>2, <2>1
  <2> QED
    BY <1>4, <2>2
<1>8. heard # << >> => h[1] = heard[1]
  BY <1>1, <1>2
<1>9. heard = << >> => h[1] = x
  BY <1>1, <1>2
<1> QED
  BY <1>1, <1>5, <1>6, <1>7, <1>8, <1>9 DEF Mp2Heard

LEMMA Mp2PassNone ==
  ASSUME Mp2Inv, Mp2Played, Mp2NoneNew, UNCHANGED <<stream, spdif, heard>> PROVE Mp2Played'
<1> SUFFICES ASSUME NEW e \in 0..Len(stream) - 1, Mp2Border(stream, e), e < Mp2Begun'
             PROVE  Mp2Heard(stream[e + 1].f)'
  BY DEF Mp2Played
<1>1. e \in Int /\ Mp2Begun \in Int
  BY Mp2Facts DEF Mp2NoneNew
<1>2. e < Mp2Begun
  BY <1>1 DEF Mp2NoneNew
<1>3. Mp2Heard(stream[e + 1].f)
  BY <1>2 DEF Mp2Played
<1> QED
  BY <1>3 DEF Mp2Heard

LEMMA Mp2QuietPlays ==
  ASSUME Mp2Inv, Mp2Plays, Mp2NoneNew, turn' = "frame",
         UNCHANGED <<stream, spdif, heard, running, rest>>
  PROVE  Mp2Plays'
<1>1. Mp2Played'
  BY Mp2PassNone DEF Mp2Plays
<1> QED
  BY <1>1 DEF Mp2Plays

LEMMA Mp2PlayPlays ==
  ASSUME Mp2Inv, Mp2Cut(stream), Mp2ScanOK(stream, out, obuf, s), Mp2Plays,
         Mp2!FramePlay \/ Mp2!Decode
  PROVE  Mp2Plays'
<1>1. UNCHANGED <<stream, spdif, obuf>> /\ turn = "frame"
  BY DEF Mp2!FramePlay, Mp2!Decode, Mp2!Framing
<1>2. /\ UNCHANGED <<turn, out>> /\ last' = s.pay[1].f /\ heard' = Append(heard, last')
      /\ rest' /\ (~spdif => running')
      /\ Mp2!FramePlay \/ (Mp2!Ready /\ s' = Mp2!Finished)
  <2>1. CASE Mp2!FramePlay
    BY <2>1 DEF Mp2!FramePlay, Mp2!madVars, Mp2Plays
  <2>2. CASE Mp2!Decode
    <3>1. Mp2!Ready
      BY <2>2 DEF Mp2!Decode
    <3>2. Mp2!Answers = {"play"}
      BY <3>1, Mp2ReadySound DEF Mp2!Answers
    <3>3. /\ UNCHANGED <<turn, out>> /\ last' = s.pay[1].f /\ heard' = Append(heard, last')
          /\ rest' \in {TRUE} /\ running' = TRUE /\ s' = Mp2!Finished
      BY <2>2, <3>2 DEF Mp2!Decode
    <3> QED
      BY <3>1, <3>3
  <2> QED
    BY <2>1, <2>2
<1>3. s.pay[1].f \in Nat
  BY <1>1, <1>2, Mp2DonePassed
<1>4. PICK f \in Nat : f = s.pay[1].f
  BY <1>3
<1>5. /\ Mp2Begun \in Int /\ Mp2Begun' \in Int
      /\ \A e \in 0..Len(stream) - 1 :
            Mp2Border(stream, e) /\ Mp2Begun <= e /\ e < Mp2Begun'
              => \/ stream[e + 1].f = f
                 \/ ~spdif /\ ~running /\ stream[e + 1].f = f + 1
  BY <1>1, <1>2, <1>4, Mp2DonePassed
<1>6. heard' = Append(heard, f)
  BY <1>2, <1>4
<1>7. heard \in Seq(Nat) /\ (~spdif /\ ~running => heard = << >>)
  BY DEF Mp2Plays
<1>8. /\ heard' \in Seq(Nat) /\ Mp2Heard(f)'
      /\ \A n : Mp2Heard(n) => Mp2Heard(n)'
      /\ ~spdif /\ heard = << >> => Mp2Heard(f + 1)'
  BY <1>1, <1>6, <1>7, Mp2HeardOn
<1>9. Mp2Played'
  <2> SUFFICES ASSUME NEW e \in 0..Len(stream) - 1, Mp2Border(stream, e), e < Mp2Begun'
               PROVE  Mp2Heard(stream[e + 1].f)'
    BY <1>1 DEF Mp2Played
  <2>1. stream' = stream /\ e \in Int
    BY <1>1, Mp2Facts
  <2>2. CASE e < Mp2Begun
    <3>1. Mp2Heard(stream[e + 1].f)
      BY <2>2 DEF Mp2Plays, Mp2Played
    <3> DEFINE n == stream[e + 1].f
    <3>2. n' = n
      BY <2>1
    <3> QED
      BY <1>8, <2>1, <3>1 DEF Mp2Heard
  <2>3. CASE ~(e < Mp2Begun)
    <3>1. stream[e + 1].f = f \/ (~spdif /\ ~running /\ stream[e + 1].f = f + 1)
      BY <1>5, <2>1, <2>3
    <3> QED
      BY <1>7, <1>8, <2>1, <3>1 DEF Mp2Heard
  <2> QED
    BY <2>2, <2>3
<1> QED
  BY <1>1, <1>2, <1>8, <1>9 DEF Mp2Plays

LEMMA Mp2OutPlays ==
  ASSUME Mp2Inv, Mp2Plays, Mp2!FrameOut PROVE Mp2Plays'
<1>1. UNCHANGED <<stream, spdif, heard, running, rest, s, obuf, out>> /\ ~Mp2!More
  BY DEF Mp2!FrameOut, Mp2!Framing, Mp2!frameVars, Mp2!madVars
<1>2. Mp2Begun' = Mp2Begun
  BY <1>1 DEF Mp2Begun, Mp2Taken
<1>3. Mp2Played'
  <2> SUFFICES ASSUME NEW e \in 0..Len(stream) - 1, Mp2Border(stream, e), e < Mp2Begun'
               PROVE  Mp2Heard(stream[e + 1].f)'
    BY <1>1 DEF Mp2Played
  <2>1. Mp2Heard(stream[e + 1].f)
    BY <1>2 DEF Mp2Plays, Mp2Played
  <2> QED
    BY <1>1, <2>1 DEF Mp2Heard
<1>4. Mp2Spent'
  BY <1>1 DEF Mp2Spent, Mp2!FrameOut, Mp2!More, Mp2!HeadKnown, Mp2!GuardFull, Mp2!Pos
<1> QED
  BY <1>1, <1>3, <1>4 DEF Mp2Plays

LEMMA Mp2FramePlays ==
  ASSUME Mp2Inv, Mp2Inv', Mp2Cut(stream), Mp2Along, Mp2Plays, Mp2!Frame PROVE Mp2Plays'
<1>1. UNCHANGED <<stream, spdif>> /\ turn = "frame" /\ Mp2ScanOK(stream, out, obuf, s)
  BY DEF Mp2!Frame, Mp2!FrameNew, Mp2!FrameSync, Mp2!FrameHead, Mp2!FrameParse,
         Mp2!FrameRate, Mp2!FrameBody, Mp2!FramePlay, Mp2!FrameGuard, Mp2!StreamFails,
         Mp2!Decode, Mp2!FrameOut, Mp2!Framing, Mp2Along
<1>2. ASSUME Mp2!FrameNew \/ Mp2!FrameSync \/ Mp2!FrameHead \/ Mp2!FrameParse \/ Mp2!FrameBody
             \/ Mp2!FrameGuard
      PROVE  Mp2Plays'
  <2>1. Mp2NoneNew
    BY <1>1, <1>2, Mp2NewGoes, Mp2SyncGoes, Mp2HeadGoes, Mp2ParseGoes, Mp2BodyGoes, Mp2GuardGoes
  <2>2. turn' = "frame" /\ UNCHANGED <<heard, running, rest>>
    BY <1>1, <1>2 DEF Mp2!FrameNew, Mp2!FrameSync, Mp2!FrameHead, Mp2!FrameParse,
                      Mp2!FrameBody, Mp2!FrameGuard, Mp2!madVars
  <2> QED
    BY <1>1, <2>1, <2>2, Mp2QuietPlays
<1>3. ~Mp2!StreamFails /\ ~Mp2!FrameRate
  BY <1>1, Mp2RateFits DEF Mp2!StreamFails, Mp2Plays
<1> QED
  BY <1>1, <1>2, <1>3, Mp2PlayPlays, Mp2OutPlays DEF Mp2!Frame

\* Nothing is played yet, or nothing happens to what was played.
LEMMA Mp2FreshPlays ==
  Mp2Inv /\ Mp2Fresh /\ heard = << >> /\ rest => Mp2Plays
<1> SUFFICES ASSUME Mp2Inv, Mp2Fresh, heard = << >>, rest PROVE Mp2Plays
  OBVIOUS
<1>1. /\ s.sync = Mp2!None /\ s.pay = << >> /\ s.size = 0 /\ s.guard = << >>
      /\ obuf = << >> /\ out = 0
  BY DEF Mp2Fresh, Mp2!ScanReset
<1>2. Mp2Begun = 0
  <2> DEFINE a == Len(obuf)
             g == Len(s.guard)
  <2>1. a = 0 /\ g = 0 /\ Mp2Taken = 0
    BY <1>1 DEF Mp2Taken, Mp2!None, Mp2!Magic
  <2>2. Mp2Begun = out - a - g - Mp2Taken
    BY DEF Mp2Begun
  <2> HIDE DEF a, g
  <2> QED
    BY <1>1, <2>1, <2>2
<1>3. Mp2Played
  BY <1>2, Mp2Facts DEF Mp2Played
<1>4. Mp2Spent
  <2>1. Len(s.guard) # MAD_BUFFER_GUARD
    BY <1>1, Mp2Facts
  <2> QED
    BY <1>1, <2>1, Mp2NoneIsNot DEF Mp2Spent, Mp2!HeadKnown, Mp2!GuardFull
<1> QED
  BY <1>3, <1>4 DEF Mp2Plays

LEMMA Mp2StillPlays ==
  ASSUME Mp2Plays, UNCHANGED <<stream, spdif, out, s, obuf, running, rest, heard>>,
         turn' = "idle" => turn = "idle"
  PROVE  Mp2Plays'
<1>1. Mp2Played'
  BY DEF Mp2Plays, Mp2Played, Mp2Begun, Mp2Taken, Mp2Heard
<1>2. Mp2Spent' <=> Mp2Spent
  BY DEF Mp2Spent, Mp2!HeadKnown, Mp2!GuardFull, Mp2!Pos
<1> QED
  BY <1>1, <1>2 DEF Mp2Plays

\* When all of the stream is read, only its last frame is still held back, for
\* libmad, to which no guard follows it.
LEMMA Mp2EndOf ==
  ASSUME Mp2Inv, Mp2Cut(stream), Mp2Along, Mp2Plays, Mp2!AllHeard,
         NEW e \in 0..Len(stream) - 3, Mp2Border(stream, e)
  PROVE  e < Mp2Begun \/ (~spdif /\ stream[e + 1].f = stream[Len(stream)].f)
<1> DEFINE w == stream
           G == MAD_BUFFER_GUARD
           g == Len(s.guard)
           m == Len(s.pay)
<1>1. /\ w \in Seq(Mp2Byte) /\ Len(w) \in Nat /\ out \in Nat /\ G \in Nat /\ G >= 4
      /\ g \in Nat /\ g <= G /\ (s.guard = << >> <=> g = 0) /\ m \in Nat
      /\ s.size \in Nat /\ m + 2 <= (IF s.size > 3 THEN s.size ELSE 3)
  BY Mp2Facts
<1>2. /\ turn = "idle" /\ out = Len(w) /\ Mp2Spent /\ obuf = << >> /\ ~Mp2Ends
      /\ Mp2ScanOK(w, out, obuf, s) /\ Len(obuf) = 0
  BY DEF Mp2!AllHeard, Mp2Plays, Mp2Spent, Mp2Along, Mp2Tells
<1>3. e \in Nat /\ e + 3 <= Len(w)
  BY <1>1
<1>4. CASE s.sync = Mp2!Magic
  <2>1. PICK j \in Nat : /\ j \in 0..Len(w) /\ Mp2Body(w, j, out, obuf, s)
                          /\ Mp2At(w, j) /\ Mp2Z(w, j) \in Nat /\ Mp2Z(w, j) >= G
                          /\ j < Len(w)
    BY <1>2, <1>4, Mp2Inside
  <2> DEFINE z == Mp2Z(w, j)
             d == j + z
  <2>2. Mp2Begun = j
    BY <1>4, <2>1, Mp2BegunAt DEF Mp2BegunIs
  <2>3. /\ d <= Len(w) /\ Mp2Border(w, d) /\ w[j + 3].r = Rate /\ Mp2Border(w, j)
        /\ \A k \in 1..z : w[j + k].f = w[j + 1].f
    BY <2>1 DEF Mp2At, Mp2Body
  <2>4. /\ Len(w) = j + 2 + m + g + 0
        /\ s.size # 0 => m >= 1 /\ s.size = z /\ s.rate = w[j + 3].r
        /\ g # 0 => s.size # 0 /\ m + 2 = s.size
    BY <1>1, <1>2, <2>1 DEF Mp2Body
  <2>5. ~(m + 2 >= 3 /\ s.size = 0)
    BY <1>2, <1>4 DEF Mp2Spent, Mp2!HeadKnown, Mp2!Pos
  <2>6. ~(s.size # 0 /\ s.rate = Rate /\ m + 2 >= 3 /\ m + 2 >= s.size
          /\ (spdif \/ g = G))
    BY <1>2, <1>4 DEF Mp2Ends, Mp2!Ready, Mp2!Fits, Mp2!HeadKnown, Mp2!Pos, Mp2!GuardFull
  <2> HIDE DEF m, g, z
  <2>7. s.size # 0
    BY <1>1, <2>1, <2>3, <2>4, <2>5 DEF z
  <2>8. z \in Nat /\ z >= 4 /\ s.size = z
    BY <1>1, <2>1, <2>4, <2>7 DEF z
  <2>9. m + 2 = z
    <3>1. j \in Nat /\ j + z <= Len(w)
      BY <2>1, <2>3
    <3> QED
      BY <1>1, <2>4, <2>7, <2>8, <3>1
  <2>10. ~spdif /\ g # G
    BY <1>1, <2>3, <2>4, <2>6, <2>7, <2>8, <2>9
  <2>11. Len(w) = d + g
    BY <1>1, <2>4, <2>9
  <2>12. d = Len(w)
    <3>1. d \in Nat
      BY <2>8
    <3>2. d # Len(w) => d + Mp2Z(w, d) <= Len(w) /\ Mp2Z(w, d) \in Nat /\ Mp2Z(w, d) >= G
      BY <1>1, <2>3, <3>1, Mp2Begins
    <3> HIDE DEF d
    <3> QED
      BY <1>1, <2>10, <2>11, <3>1, <3>2
  <2>13. w[Len(w)].f = w[j + 1].f
    <3>1. z \in 1..z /\ j + z = Len(w)
      BY <2>8, <2>12
    <3> QED
      BY <2>3, <3>1
  <2>14. ~(j < e)
    <3>1. j < e => d <= e
      BY <1>1, <1>3, <2>3, Mp2Apart DEF z
    <3> QED
      BY <1>1, <1>3, <2>12, <3>1
  <2>15. e < j \/ e = j
    BY <1>3, <2>14
  <2> QED
    BY <2>2, <2>10, <2>13, <2>15
<1>5. CASE s.sync # Mp2!Magic
  <2>1. ~Mp2Turned(w, out, obuf, s)
    BY <1>2 DEF Mp2Turned, Mp2Spent, Mp2!GuardFull
  <2>2. g = 0
    BY <1>1, <1>2, <1>5, <2>1 DEF Mp2ScanOK, Mp2Seeks
  <2> DEFINE a == Len(obuf)
  <2>3. Mp2Begun = out - a - g - Mp2Taken /\ a = 0
    BY <1>2 DEF Mp2Begun
  <2>4. Mp2Taken = IF s.sync[2] = "ff" THEN 1 ELSE 0
    BY <1>5 DEF Mp2Taken
  <2> HIDE DEF a, g
  <2> QED
    BY <1>1, <1>2, <1>3, <2>2, <2>3, <2>4
<1> QED
  BY <1>4, <1>5

LEMMA Mp2AllPlayed ==
  ASSUME Mp2Inv, Mp2!Intact, Mp2Along, Mp2Plays, Mp2!AllHeard
  PROVE  Mp2!LostOnlyBehindDamage
<1> SUFFICES ASSUME NEW n \in Mp2!FrameNo, Mp2!Due(n),
                    ~(~spdif /\ heard # << >> /\ n = heard[1] + 1)
             PROVE  n \in Mp2!Range(heard)
  BY DEF Mp2!LostOnlyBehindDamage
<1>1. Mp2Cut(stream) /\ Len(stream) \in Nat
  BY Mp2IntactCut, Mp2Facts
<1>2. PICK j \in 0..Len(stream) - 3 : Mp2!WholeAt(n, j)
  BY DEF Mp2!Due, Mp2!Whole
<1>3. stream[j + 1].f = n /\ stream[j + 1].i = 0
  <2>1. /\ Mp2Z(stream, j) \in Nat /\ Mp2Z(stream, j) >= MAD_BUFFER_GUARD
        /\ \A k \in 1..Mp2Z(stream, j) : stream[j + k].f = n /\ stream[j + k].i = k - 1
    BY <1>2, Mp2WholePlaces
  <2>2. 1 \in 1..Mp2Z(stream, j)
    BY <2>1, GuardAssumption
  <2>3. stream[j + 1].i = 1 - 1
    BY <2>1, <2>2
  <2> QED
    BY <2>1, <2>2, <2>3
<1>4. j \in 0..Len(stream) - 1 /\ Mp2Border(stream, j)
  BY <1>1, <1>3 DEF Mp2Border
<1>5. j < Mp2Begun
  <2>1. j < Mp2Begun \/ (~spdif /\ stream[j + 1].f = stream[Len(stream)].f)
    BY <1>1, <1>4, Mp2EndOf
  <2>2. spdif \/ n < Mp2!Final
    BY DEF Mp2!Due
  <2>3. n \in Nat
    <3>1. stream \in Seq(Mp2Byte)
      BY Mp2Facts
    <3>2. stream[j + 1] \in Mp2Byte
      BY <1>1, <3>1
    <3> QED
      BY <1>3, <3>2 DEF Mp2Byte
  <2> QED
    BY <1>3, <2>1, <2>2, <2>3 DEF Mp2!Final
<1>6. Mp2Heard(n)
  BY <1>3, <1>4, <1>5 DEF Mp2Plays, Mp2Played
<1> QED
  BY <1>6 DEF Mp2Heard

\* The Mpeg audio scanner of a stream of whole frames.
Mp2Good == Mp2Inv /\ (Mp2!Intact => Mp2Along /\ Mp2Plays)

LEMMA Mp2GoodStart == Mp2!Init => Mp2Good
<1>1. ASSUME Mp2!Init, Mp2!Intact PROVE Mp2Along /\ Mp2Plays
  <2>1. Mp2Inv
    BY <1>1, Mp2InitInv
  <2>2. Mp2Fresh /\ heard = << >> /\ rest
    BY <1>1 DEF Mp2!Init, Mp2Fresh
  <2> QED
    BY <1>1, <2>1, <2>2, Mp2IntactCut, Mp2FreshAlong, Mp2FreshPlays
<1> QED
  BY <1>1, Mp2InitInv DEF Mp2Good

LEMMA Mp2GoodKeeps == Mp2Good /\ Mp2!Next => Mp2Good'
<1> SUFFICES ASSUME Mp2Good, Mp2!Next PROVE Mp2Good'
  OBVIOUS
<1>1. Mp2Inv /\ Mp2Inv'
  BY Mp2Keeps DEF Mp2Good
<1>2. ASSUME UNCHANGED stream, Mp2!Intact' PROVE Mp2Cut(stream) /\ Mp2Along /\ Mp2Plays
  BY <1>1, <1>2, Mp2IntactSame, Mp2IntactCut DEF Mp2Good
<1>3. ASSUME Mp2!Feed, Mp2!Intact' PROVE Mp2Along' /\ Mp2Plays'
  <2>1. UNCHANGED stream
    BY <1>3 DEF Mp2!Feed
  <2>2. Mp2Plays'
    BY <1>2, <1>3, <2>1, Mp2StillPlays DEF Mp2!Feed, Mp2!frameVars, Mp2!madVars
  <2> QED
    BY <1>1, <1>2, <1>3, <2>1, <2>2, Mp2FeedStep
<1>4. ASSUME Mp2!Count, Mp2!Intact' PROVE Mp2Along' /\ Mp2Plays'
  <2>1. UNCHANGED stream
    BY <1>4 DEF Mp2!Count, Mp2!CountSync, Mp2!CountFound, Mp2!CountHead, Mp2!CountBody,
                Mp2!CountCross, Mp2!CountOut, Mp2!Counting
  <2>2. /\ UNCHANGED <<spdif, out, s, obuf, running, rest, heard>>
        /\ turn' = "idle" => turn = "idle"
    BY <1>4 DEF Mp2!Count, Mp2!CountSync, Mp2!CountFound, Mp2!CountHead, Mp2!CountBody,
                Mp2!CountCross, Mp2!CountOut, Mp2!Counting, Mp2!frameVars, Mp2!madVars
  <2>3. Mp2Plays'
    BY <1>2, <1>4, <2>1, <2>2, Mp2StillPlays
  <2> QED
    BY <1>1, <1>2, <1>4, <2>1, <2>3, Mp2CountStep
<1>5. ASSUME Mp2!Frame, Mp2!Intact' PROVE Mp2Along' /\ Mp2Plays'
  <2>1. UNCHANGED stream
    BY <1>5 DEF Mp2!Frame, Mp2!FrameNew, Mp2!FrameSync, Mp2!FrameHead, Mp2!FrameParse,
         Mp2!FrameRate, Mp2!FrameBody, Mp2!FramePlay, Mp2!FrameGuard, Mp2!StreamFails,
         Mp2!Decode, Mp2!FrameOut, Mp2!Framing
  <2> QED
    BY <1>1, <1>2, <1>5, <2>1, Mp2FrameStep, Mp2FramePlays
<1>6. ASSUME Mp2!Clear, Mp2!Intact' PROVE Mp2Along' /\ Mp2Plays'
  <2>1. Mp2Fresh' /\ (heard = << >>)' /\ rest'
    BY <1>6 DEF Mp2!Clear, Mp2!Refeed, Mp2Fresh
  <2>2. (Mp2Inv /\ Mp2!Intact => Mp2Cut(stream))'
    BY Mp2IntactCut, PTL
  <2>3. (Mp2Inv /\ Mp2Cut(stream) /\ Mp2Fresh => Mp2Along)'
    BY Mp2FreshAlong, PTL
  <2>4. (Mp2Inv /\ Mp2Fresh /\ heard = << >> /\ rest => Mp2Plays)'
    BY Mp2FreshPlays, PTL
  <2> QED
    BY <1>1, <1>6, <2>1, <2>2, <2>3, <2>4
<1> QED
  BY <1>1, <1>3, <1>4, <1>5, <1>6 DEF Mp2!Next, Mp2Good

LEMMA Mp2GoodStays ==
  Mp2Good /\ UNCHANGED <<stream, spdif, buf, out, tail, turn, s, obuf, running, rest, c, ret,
                           heard>>
    => Mp2Good'
<1> SUFFICES ASSUME Mp2Good,
                    UNCHANGED <<stream, spdif, buf, out, tail, turn, s, obuf, running, rest, c,
                                ret, heard>>
             PROVE  Mp2Good'
  OBVIOUS
<1>1. Mp2Inv'
  BY DEF Mp2Good, Mp2Inv, Mp2Places, Mp2Flags, Mp2Scan, Mp2Kept, Mp2Counter
<1>2. Mp2!Intact' => Mp2Along /\ Mp2Plays
  BY Mp2IntactSame DEF Mp2Good
<1>3. Mp2Along => Mp2Along'
  <2> SUFFICES ASSUME Mp2Along PROVE Mp2Along'
    OBVIOUS
  <2>1. Mp2Turns'
    BY DEF Mp2Along, Mp2Turns
  <2>2. Mp2ScanOK(stream, out, obuf, s)'
    BY DEF Mp2Along, Mp2ScanOK, Mp2Body, Mp2Turned, Mp2Seeks
  <2>3. Mp2Ends' <=> Mp2Ends
    BY DEF Mp2Ends, Mp2!Ready, Mp2!Fits, Mp2!HeadKnown, Mp2!Pos, Mp2!GuardFull
  <2>4. PICK b \in 0..Len(stream) : Mp2CountOK(stream, b, buf, c) /\ Mp2Tells(b)
    BY DEF Mp2Along
  <2>5. Mp2CountOK(stream, b, buf, c)'
    BY <2>4 DEF Mp2CountOK, Mp2Left
  <2>6. Mp2Tells(b)'
    BY <2>3, <2>4 DEF Mp2Tells, Mp2Passed, Mp2Mark
  <2> QED
    BY <2>1, <2>2, <2>4, <2>5, <2>6 DEF Mp2Along
<1>4. Mp2Plays => Mp2Plays'
  BY Mp2StillPlays
<1> QED
  BY <1>1, <1>2, <1>3, <1>4 DEF Mp2Good

LEMMA Mp2GoodShows == Mp2Good => Mp2!StreamedWhole /\ Mp2!CrossedIsCounted
<1> SUFFICES ASSUME Mp2Good, Mp2!Intact PROVE Mp2!StreamedWhole /\ Mp2!CrossedIsCounted
  BY DEF Mp2!StreamedWhole, Mp2!CrossedIsCounted
<1>1. Mp2Inv /\ Mp2Along /\ Mp2Cut(stream)
  BY Mp2IntactCut DEF Mp2Good
<1>2. Mp2!StreamedWhole
  BY <1>1, Mp2ReadySound DEF Mp2!StreamedWhole, Mp2Along
<1>3. Mp2!CrossedIsCounted
  BY <1>1 DEF Mp2!CrossedIsCounted, Mp2Along, Mp2Tells, Mp2Ends
<1> QED
  BY <1>2, <1>3

-----------------------------------------------------------------------------
(* All of them.                                                              *)

FramersIInv == /\ IInv
               /\ OfAc3(Ac3Inv) /\ OfDts(DtsInv) /\ OfMp2(Mp2Inv)

LEMMA FramersInitIInv == FramersInit => FramersIInv
<1> SUFFICES ASSUME FramersInit PROVE FramersIInv
  OBVIOUS
<1>1. IInv
  BY InitIInv DEF FramersInit
<1>2. OfAc3(Ac3Inv)
  BY Ac3InitInv DEF FramersInit, OfAc3
<1>3. OfDts(DtsInv)
  BY DtsInitInv DEF FramersInit, OfDts
<1>4. OfMp2(Mp2Inv)
  BY Mp2InitInv DEF FramersInit, OfMp2
<1> QED
  BY <1>1, <1>2, <1>3, <1>4 DEF FramersIInv

LEMMA FramersStepIInv ==
  FramersIInv /\ [FramersNext]_<<format, vars, scanned>> => FramersIInv'
<1> SUFFICES ASSUME FramersIInv, [FramersNext]_<<format, vars, scanned>>
             PROVE  FramersIInv'
  OBVIOUS
<1>1. UNCHANGED format
  BY DEF FramersNext
<1>2. IInv'
  <2>1. [Next]_vars
    BY DEF FramersNext
  <2> QED
    BY <2>1, StepIInv DEF FramersIInv
<1>3. CASE format = "ac3" /\ Ac3!Next
  BY <1>1, <1>2, <1>3, Ac3Keeps DEF FramersIInv, OfAc3, OfDts, OfMp2
<1>4. CASE format = "dts" /\ Dts!Next
  BY <1>1, <1>2, <1>4, DtsKeeps DEF FramersIInv, OfAc3, OfDts, OfMp2
<1>5. CASE format = "mp2" /\ Mp2!Next
  BY <1>1, <1>2, <1>5, Mp2Keeps DEF FramersIInv, OfAc3, OfDts, OfMp2
<1>6. CASE format = "clock"
  BY <1>1, <1>2, <1>6 DEF FramersIInv, OfAc3, OfDts, OfMp2
<1>7. CASE UNCHANGED scanned
  <2>1. OfAc3(Ac3Inv)'
    BY <1>1, <1>7
    DEF scanned, FramersIInv, OfAc3, Ac3Inv, Ac3Places, Ac3Told, Ac3Scan, Ac3Counter,
        Ac3Order, Ac3!NeverBack
  <2>2. OfDts(DtsInv)'
    BY <1>1, <1>7 DEF scanned, FramersIInv, OfDts, DtsInv, DtsPlaces, DtsScan, DtsCounter
  <2>3. OfMp2(Mp2Inv)'
    BY <1>1, <1>7
    DEF scanned, FramersIInv, OfMp2, Mp2Inv, Mp2Places, Mp2Flags, Mp2Scan, Mp2Kept,
        Mp2Counter
  <2> QED
    BY <1>2, <2>1, <2>2, <2>3 DEF FramersIInv
<1> QED
  BY <1>3, <1>4, <1>5, <1>6, <1>7 DEF FramersNext, ScannerNext

LEMMA FramersInvariant == FramersSpec => []FramersIInv
BY FramersInitIInv, FramersStepIInv, PTL DEF FramersSpec

\* Scanners and clock keep to the types of their fields: no scanner reads behind
\* the piece it was given, no payload outgrows its frame, and no guard outgrows
\* MAD_BUFFER_GUARD (Count() and Frame() of ac3.c, dts.c and mp2.c, bPTS).
THEOREM TypeCorrect == FramersSpec => []TypesOK
<1>1. FramersIInv => TypesOK
  BY IInvTypes, Ac3Types, DtsTypes, Mp2Types DEF FramersIInv, TypesOK, OfAc3, OfDts, OfMp2
<1> QED
  BY <1>1, FramersInvariant, PTL

\* Whatever the device's clock does, packets are not refused for more than
\* 480 ms, and frames not skipped for more than 2 s (timersyncstc() and
\* timerexpired() against stcsync(), mark() and dvbcheck()).
THEOREM WaitsAreShort == FramersSpec => []WaitsEnd
<1>1. FramersIInv => WaitsEnd
  BY IInvWaits DEF FramersIInv
<1> QED
  BY <1>1, FramersInvariant, PTL

\* Counter and scanner of each format follow the bytes of the stream.
FramersGood == OfAc3(Ac3Good) /\ OfDts(DtsGood) /\ OfMp2(Mp2Good)

LEMMA FramersInitGood == FramersInit => FramersGood
BY Ac3GoodStart, DtsGoodStart, Mp2GoodStart DEF FramersInit, FramersGood, OfAc3, OfDts, OfMp2

LEMMA FramersStepGood ==
  FramersGood /\ [FramersNext]_<<format, vars, scanned>> => FramersGood'
<1> SUFFICES ASSUME FramersGood, [FramersNext]_<<format, vars, scanned>>
             PROVE  FramersGood'
  OBVIOUS
<1>1. UNCHANGED format
  BY DEF FramersNext
<1>2. CASE format = "ac3" /\ Ac3!Next
  BY <1>1, <1>2, Ac3GoodKeeps DEF FramersGood, OfAc3, OfDts, OfMp2
<1>3. CASE format = "dts" /\ Dts!Next
  BY <1>1, <1>3, DtsGoodKeeps DEF FramersGood, OfAc3, OfDts, OfMp2
<1>4. CASE format = "mp2" /\ Mp2!Next
  BY <1>1, <1>4, Mp2GoodKeeps DEF FramersGood, OfAc3, OfDts, OfMp2
<1>5. CASE format = "clock"
  BY <1>1, <1>5 DEF FramersGood, OfAc3, OfDts, OfMp2
<1>6. CASE UNCHANGED scanned
  <2>1. OfAc3(Ac3Good)'
    BY <1>1, <1>6, Ac3GoodStays DEF scanned, FramersGood, OfAc3
  <2>2. OfDts(DtsGood)'
    BY <1>1, <1>6, DtsGoodStays DEF scanned, FramersGood, OfDts
  <2>3. OfMp2(Mp2Good)'
    BY <1>1, <1>6, Mp2GoodStays DEF scanned, FramersGood, OfMp2
  <2> QED
    BY <2>1, <2>2, <2>3 DEF FramersGood
<1> QED
  BY <1>2, <1>3, <1>4, <1>5, <1>6 DEF FramersNext, ScannerNext

LEMMA FramersStayGood == FramersSpec => []FramersGood
BY FramersInitGood, FramersStepGood, PTL DEF FramersSpec

\* However a stream is cut into pieces: the bursts of AC3 are never out of
\* order, and of a sound stream none is played twice, whatever the data look
\* like; a whole DTS frame is in its burst byte by byte, as long as no data
\* look like a sync word, whatever else was lost; libmad gets whole frames of a
\* stream of whole frames, each with the bytes that follow it (Frame() of ac3.c,
\* dts.c and mp2.c, Stream()).
THEOREM FramesWhole == FramersSpec => []FramesAreWhole
<1>1. FramersGood => FramesAreWhole
  BY Ac3GoodShows, DtsGoodShows, Mp2GoodShows DEF FramersGood, FramesAreWhole, OfAc3, OfDts, OfMp2
<1> QED
  BY <1>1, FramersStayGood, PTL

\* Count() on the receiving side and Frame() on the forwarding side, which never
\* talk to each other, come to as many frames in each piece, and Count() tells
\* of a frame in the piece that completes it, for Mpeg audio in the piece that
\* completes its guard (Count() against Frame() of ac3.c, dts.c and mp2.c).
THEOREM CountsAgree == FramersSpec => []CountAgrees
<1>1. FramersGood => CountAgrees
  BY Ac3GoodShows, DtsGoodShows, Mp2GoodShows DEF FramersGood, CountAgrees, OfAc3, OfDts, OfMp2
<1> QED
  BY <1>1, FramersStayGood, PTL

\* The stream is what was sent: all its frames are whole and sound, and in DTS
\* and Mpeg audio no data look like a sync word.
Undamaged == OfAc3(Ac3AllSound) /\ OfDts(DtsAllSound) /\ OfMp2(Mp2!Intact)

\* Of an undamaged stream every frame is played, however the stream is cut into
\* pieces and whatever was scanned before it: none of AC3 or DTS is lost; of
\* Mpeg audio for libmad only the second one, by which libmad is started, and
\* the last one, which waits for its guard (Frame() of ac3.c, dts.c and mp2.c).
THEOREM NothingLost == FramersSpec => [](Undamaged => LostOnlyBehindDamage)
<1>1. FramersGood /\ Undamaged => LostOnlyBehindDamage
  <2> SUFFICES ASSUME FramersGood, Undamaged PROVE LostOnlyBehindDamage
    OBVIOUS
  <2>1. ASSUME format = "ac3" PROVE Ac3!LostOnlyBehindDamage
    <3>1. Ac3Good /\ Ac3AllSound
      BY <2>1 DEF FramersGood, Undamaged, OfAc3
    <3>2. ~Ac3!AllHeard => Ac3!LostOnlyBehindDamage
      BY DEF Ac3!LostOnlyBehindDamage
    <3> QED
      BY <3>1, <3>2, Ac3AllPlayed
  <2>2. ASSUME format = "dts" PROVE Dts!LostOnlyBehindDamage
    <3>1. DtsGood /\ DtsAllSound
      BY <2>2 DEF FramersGood, Undamaged, OfDts
    <3>2. ~Dts!AllHeard => Dts!LostOnlyBehindDamage
      BY DEF Dts!LostOnlyBehindDamage
    <3> QED
      BY <3>1, <3>2, DtsAllPlayed
  <2>3. ASSUME format = "mp2" PROVE Mp2!LostOnlyBehindDamage
    <3>1. Mp2Inv /\ Mp2!Intact /\ Mp2Along /\ Mp2Plays
      BY <2>3 DEF FramersGood, Undamaged, OfMp2, Mp2Good
    <3>2. ~Mp2!AllHeard => Mp2!LostOnlyBehindDamage
      BY DEF Mp2!LostOnlyBehindDamage
    <3> QED
      BY <3>1, <3>2, Mp2AllPlayed
  <2> QED
    BY <2>1, <2>2, <2>3 DEF LostOnlyBehindDamage, OfAc3, OfDts, OfMp2
<1> QED
  BY <1>1, FramersStayGood, PTL
=============================================================================
