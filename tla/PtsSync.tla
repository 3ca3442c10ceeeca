------------------------------ MODULE PtsSync ------------------------------
(* The clock of a stream (cPTS of pts.h): when playing starts, the PTS of   *)
(* the stream is compared with the STC of the DVB device.  The receiving    *)
(* side asks stcsync() and mark() before it stores a packet (channel.c and  *)
(* replay.c), the forwarding side asks dvbcheck() before it plays a frame,  *)
(* takes what delay() says and tells lead() after each burst (spdif.c).     *)
(* Times are in milliseconds; a time 0 is a timer that is not set.  The     *)
(* device's clock may jump, or stand, until it follows its stream.  Two     *)
(* calls may fall into the same millisecond.                                *)
EXTENDS Integers

CONSTANTS Steps,        \* milliseconds that pass between calls
          MaxNow,       \* bound of the time of day
          MaxCome,      \* bound of the packets between two steps of the time
          MaxDrift,     \* bound of the jumps
          Devices,      \* [base, stands, bit33, wide]: the clock of the device
                        \* at the beginning, whether it may stand still at
                        \* first, whether its 33rd bit is reported, and whether
                        \* off_t of the build is wider than 32 bits
          Jumps,        \* by how much it jumps while it settles
          Ahead,        \* how far a PTS is ahead of the clock
          Duration,     \* length of a frame
          STC_STATERR,  \* ~0U/90U
          Word          \* stands for 2^32

ASSUME TimeAssumption ==
  Steps \subseteq Nat /\ MaxNow \in Nat \ {0} /\ MaxCome \in Nat
ASSUME DeviceAssumption ==
  /\ Devices \subseteq [base : Int, stands : BOOLEAN, bit33 : BOOLEAN, wide : BOOLEAN]
  /\ Jumps \subseteq Int /\ Ahead \subseteq Int /\ Duration \in Int
ASSUME WidthAssumption == STC_STATERR \in Nat \ {0} /\ Word \in Nat

VARIABLES device,       \* one of Devices
          now,          \* time of day
          clk, runs,    \* the device's clock, and whether it runs
          steady,       \* it ran and did not jump since it was last read
          o,            \* the fields of cPTS
          come,         \* packets that came since the time moved
          fill,         \* frames stored
          first,        \* FL_FIRST: the next frame is checked
          refusal,      \* since when packets are refused, 0: they are not
          skipping,     \* since when frames are skipped, 0: they are not
          refusedFor,   \* how long packets had been refused at the last one
          skippedFor,   \* how long frames had been skipped at the last one
          dist,         \* PTS - STC in truth when it was last computed
          lock          \* what steady was when AVsync was set

vars == <<device, now, clk, runs, steady, o, come, fill, first, refusal, skipping,
          refusedFor, skippedFor, dist, lock>>
deviceVars == <<device, now, clk, runs>>
gateVars == <<refusal, refusedFor>>
skipVars == <<skipping, skippedFor>>

Reset == [pts |-> 0, stc |-> 0, off |-> -1000, min |-> 200, expire |-> 0,
          syncstc |-> 0, current |-> 0, previous |-> 0, err |-> 0,
          AVsync |-> FALSE, Started |-> FALSE, Synching |-> FALSE,
          HasPTS |-> FALSE]

Init == /\ device \in Devices /\ now = 1 /\ clk = device.base
        /\ runs \in IF device.stands THEN BOOLEAN ELSE {TRUE}
        /\ steady = FALSE /\ lock = TRUE
        /\ o = Reset /\ come = 0 /\ fill = 0 /\ first = TRUE
        /\ refusal = 0 /\ skipping = 0 /\ refusedFor = 0 /\ skippedFor = 0
        /\ dist = -1000

-----------------------------------------------------------------------------
(* The environment.                                                          *)

Quiet == UNCHANGED <<o, fill, first, gateVars, skipVars, dist, lock>>

Pass == /\ \E d \in Steps : /\ now + d <= MaxNow
                            /\ now' = now + d
                            /\ clk' = IF runs THEN clk + d ELSE clk
        /\ steady' = (steady /\ runs) /\ come' = 0
        /\ Quiet /\ UNCHANGED <<device, runs>>

\* The device's clock follows another stream, or begins to run.
Settle == /\ ~o.AVsync
          /\ \/ \E j \in Jumps : /\ clk + j - now <= device.base + MaxDrift
                               /\ clk' = clk + j /\ UNCHANGED runs
             \/ ~runs /\ runs' = TRUE /\ UNCHANGED clk
          /\ steady' = FALSE
          /\ Quiet /\ UNCHANGED <<device, now, come>>

Period == 2 * STC_STATERR
GetSTC == IF device.bit33 THEN clk % Period ELSE clk % STC_STATERR

-----------------------------------------------------------------------------
(* The timers.                                                               *)

Look(p) == [p EXCEPT !.previous = IF p.current # 0 THEN p.current ELSE @,
                     !.current = now]

timermark(p) ==
    LET prev == IF p.previous = 0 THEN now ELSE p.previous
    IN [p EXCEPT !.previous = prev,
                 !.expire = IF @ = 0 THEN prev + 2000 ELSE @,
                 !.syncstc = IF @ = 0 THEN prev + 480 ELSE @]

\* timerexpired(): the fields it leaves, and its answer.
\* Mutant: each call sets the timer anew.
ExpireAnew(p) == [Look(p) EXCEPT !.expire = now + 2000]
ExpireTimer(p) == [Look(p) EXCEPT !.expire = IF @ = 0 THEN now + 2000 ELSE @]
timerexpired(p) == p.expire # 0 /\ now > p.expire

\* timersyncstc(): the fields it leaves, and its answer.
\* Mutant: each call sets the timer anew.
SyncAnew(p) == [Look(p) EXCEPT !.syncstc = now + 480]
SyncTimer(p) == [Look(p) EXCEPT !.syncstc = IF @ = 0 THEN now + 480 ELSE @]
timersyncstc(p) == p.syncstc # 0 /\ now > p.syncstc

-----------------------------------------------------------------------------
(* dvbtime() and dvbAVsync(): one reading of the device's clock.             *)

Wrapped(d) == IF device.wide /\ d < 0 THEN d + Word ELSE d
Distance(a, b) == Wrapped(a - b)

\* Mutant: the truncated clock of the device is taken as it is.
PlainSTC(p) == GetSTC
CorrectedSTC(p) ==
    IF p.pts > STC_STATERR /\ GetSTC < STC_STATERR + 10000
    THEN GetSTC + STC_STATERR ELSE GetSTC

\* No device, or one that fails, counts as an error; 11 stands for all numbers
\* above ten.
NoTime(p) == [p EXCEPT !.err = IF @ > 10 THEN @ ELSE @ + 1, !.off = -1000]
Time(p) == [p EXCEPT !.stc = CorrectedSTC(p),
                     !.off = Distance(p.pts, CorrectedSTC(p))]

\* Mutant: the readings need not flow as the time of day does.
AnyFlow(p) == Time(p).stc >= p.stc
Flows(p) == LET diff == Time(p).stc - p.stc
                delay == p.current - p.previous
            IN diff >= 0 /\ diff >= delay - 2 /\ diff <= delay + 2

Synced(p) == p.AVsync \/ Flows(p)
Read(p) == [Time(p) EXCEPT !.AVsync = Synced(p)]

\* What a reading of the clock does besides (ghosts only); its distance means
\* something only to dvbcheck().  Near the half of its period the clock is
\* taken for one that lost its 33rd bit, whether it did or not.
Real(p) == Wrapped(((p.pts + STC_STATERR - (clk % Period)) % Period) - STC_STATERR)
NearHalf == (clk % Period) - STC_STATERR \in -10000..10000
Truth(p, d) ==
            /\ steady' = runs
            /\ dist' = d
            /\ lock' = IF ~p.AVsync /\ Synced(p) THEN steady ELSE lock
Unread == UNCHANGED <<steady, dist, lock>>

-----------------------------------------------------------------------------
(* The receiving side: a packet, with a PTS or without.                      *)

Stored(p) == /\ o' = [p EXCEPT !.Synching = TRUE]
             /\ fill' = IF fill < MaxCome THEN fill + 1 ELSE fill
             /\ refusal' = 0 /\ refusedFor' = 0
Refused(p) == /\ o' = p
              /\ refusal' = IF refusal = 0 THEN now ELSE refusal
              /\ refusedFor' = now - refusal'
              /\ UNCHANGED fill

\* stcsync() and mark(): with a PTS it is kept; without one the packet waits
\* for the first, but not for ever.
Marked(p, h, x) ==
    \/ h /\ Stored([p EXCEPT !.pts = x % Period])
    \/ ~h /\ p.HasPTS /\ Stored(p)
    \/ /\ ~h /\ ~p.HasPTS
       /\ LET q == SyncTimer(p)
          IN IF timersyncstc(q) THEN Stored(q) ELSE Refused(q)

stcsync(p, h) ==
    LET q == IF p.Started THEN p ELSE [timermark(p) EXCEPT !.Started = TRUE]
        r == SyncTimer(q)
    IN \/ p.AVsync /\ Unread
             /\ \E a \in Ahead : Marked(p, h, clk + a)
       \/ ~p.AVsync /\ timersyncstc(r) /\ Unread
             /\ \E a \in Ahead : Marked(r, h, clk + a)
       \/ ~p.AVsync /\ ~timersyncstc(r) /\ Unread /\ Refused(NoTime(r))
       \/ ~p.AVsync /\ ~timersyncstc(r) /\ Truth(r, Read(r).off) /\ Refused(Read(r))

Packet == /\ come < MaxCome /\ come' = come + 1
          /\ \E h \in BOOLEAN :
                \/ /\ o.Synching
                   /\ Stored(o) /\ Unread
                \/ /\ ~o.Synching
                   /\ stcsync([o EXCEPT !.HasPTS = @ \/ h], h)
          /\ UNCHANGED <<deviceVars, first, skipVars>>

-----------------------------------------------------------------------------
(* The forwarding side.                                                      *)

\* dvbcheck() says that the frame is to be played; delay() then forgets a
\* distance of more than a second.
Played(p) == /\ o' = [p EXCEPT !.off = IF @ > 1000 \/ @ < -1000 THEN 0 ELSE @]
             /\ first' = FALSE
             /\ skipping' = 0 /\ skippedFor' = 0
Skipped(p) == /\ o' = [p EXCEPT !.pts = @ + Duration]
              /\ skipping' = IF skipping = 0 THEN now ELSE skipping
              /\ skippedFor' = now - skipping'
              /\ UNCHANGED first

\* less(): each frame that is compared asks for a smaller lead.
\* Mutant: for a larger one.
More(p) == [p EXCEPT !.min = IF @ >= 100 THEN @ + 20 ELSE @ + 10]
Less(p) == [p EXCEPT !.min = IF @ >= 100 THEN @ - 20 ELSE @ - 10]

Compared(p) ==
    \/ ~p.AVsync /\ ~Flows(p) /\ Skipped(Read(p))
    \/ /\ Synced(p)
       /\ IF Read(p).off >= p.min THEN Played([Less(Read(p)) EXCEPT !.expire = 0])
                                  ELSE Skipped(Less(Read(p)))

Check == /\ fill > 0 /\ first
         /\ fill' = fill - 1
         /\ LET p == ExpireTimer(o)
            IN \/ o.err > 10 /\ Played(o) /\ Unread
               \/ o.err <= 10 /\ o.pts = 0 /\ Unread
                     /\ Played([o EXCEPT !.off = 0])
               \/ o.err <= 10 /\ o.pts # 0 /\ timerexpired(p)
                     /\ Played(p) /\ Unread
               \/ o.err <= 10 /\ o.pts # 0 /\ ~timerexpired(p)
                     /\ \/ Skipped(NoTime(p)) /\ Unread
                        \/ Compared(p)
                           /\ Truth(p, IF NearHalf THEN Read(p).off ELSE Real(p))
         /\ UNCHANGED <<deviceVars, come, gateVars>>

\* A frame behind the first is played unchecked; each burst calls lead().
Lead == /\ ~first
        /\ fill' = IF fill > 0 THEN fill - 1 ELSE 0
        /\ o' = [o EXCEPT !.expire = 0, !.err = 0, !.min = 200,
                          !.Synching = FALSE]
        /\ UNCHANGED <<deviceVars, come, steady, dist, lock, first, gateVars,
                       skipVars>>

\* iec60958::Clear() resets the clock.
Cleared == /\ o' = Reset
           /\ first' = TRUE
           /\ refusal' = 0 /\ skipping' = 0
           /\ refusedFor' = 0 /\ skippedFor' = 0
           /\ dist' = -1000 /\ lock' = TRUE
           /\ UNCHANGED <<deviceVars, come, steady>>

\* The card underran: what is stored is played as from the beginning.
Restart == Cleared /\ UNCHANGED fill

\* A mute or a switch, with the bounce buffer flushed.
Clear == Cleared /\ fill' = 0

Next == \/ Pass \/ Settle \/ Packet
        \/ Check \/ Lead \/ Restart \/ Clear

Spec == Init /\ [][Next]_vars

-----------------------------------------------------------------------------
(* Properties.                                                               *)

\* The variables hold what the code keeps in them (cPTS).
TypeOK == /\ now \in 1..MaxNow /\ come \in 0..MaxCome /\ fill \in Nat
          /\ o.err \in 0..11 /\ o.min <= 200
          /\ o.current \in 0..now /\ o.previous \in 0..now
          /\ o.expire \in 0..now + 2000 /\ o.syncstc \in 0..now + 480
          /\ {runs, steady, first, o.AVsync, o.HasPTS} \subseteq BOOLEAN

\* Packets are not refused for more than 480 ms, and frames not skipped for
\* more than 2 s, whatever the device's clock does (timersyncstc() and
\* timerexpired() against stcsync(), mark() and dvbcheck()).
WaitsEnd == refusedFor <= 480 /\ skippedFor <= 2000

\* AVsync is only set when the device's clock has flowed with the time of day
\* since it was read before (dvbAVsync()), unless it stood at first: the time
\* of day may be looked at twice between two readings, and no time pass.
SteadyWhenSynced == o.AVsync /\ ~device.stands => lock

\* off is how far the frame is ahead of the device's clock, and in 32 bits
\* negative when it is late (dvbtime(); -1000 stands for no answer, 0 for one
\* not used); within ten seconds of the half of the period it may not be.
OffIsDistance == o.off \in {dist, -1000, 0}
=============================================================================
