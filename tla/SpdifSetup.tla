----------------------------- MODULE SpdifSetup -----------------------------
(***************************************************************************)
(* How spdif::Open() and Close() (spdif.c) set the sound card up: what     *)
(* they take from the sound library and give back on every path, which     *)
(* period and buffer they ask for, and the thresholds they derive.         *)
(*                                                                         *)
(* Sizes are PCM frames.  A card is what it accepts: periods from min to   *)
(* max which are multiples of align, and a buffer of at most most frames.  *)
(* The locks of Open() and Close() are in SpdifCard.                       *)
(***************************************************************************)
EXTENDS Integers

CONSTANTS
  Streams,    \* [burst, rate] of the framers
  Cards,      \* [min, max, align, most] of the hardware
  Delays      \* start delays of the setup, in units of 10 ms

VARIABLES
  pc,
  opt,          \* [audio, mmap, first, stream] of this Open()
  hw,           \* the card
  held,         \* what the library has given and not got back
  unowned,      \* history: something was given back that was not held
  frag, part,   \* divisor of the burst, and the period that was set (0: none)
  good,         \* `err' does not hold an error
  buffer, buf,  \* buffer size, and its thresholds
  start         \* start threshold of the card

chosen == <<opt, hw>>
sizes == <<frag, part, good, buffer>>
limits == <<buf, start>>
vars == <<pc, chosen, held, unowned, sizes, limits>>

Zero == [upper |-> 0, lower |-> 0, high |-> 0, alarm |-> 0]

TypeOK ==
  /\ pc \in {"closed", "connect", "control", "configure", "period", "buffer", "check",
             "params", "status", "prepare", "open"}
  /\ opt \in [audio : BOOLEAN, mmap : BOOLEAN, first : Delays, stream : Streams]
  /\ hw \in Cards
  /\ held \subseteq {"log", "out", "status", "ctl"} /\ unowned \in BOOLEAN
  /\ frag \in 0..10 /\ part \in 0..opt.stream.burst /\ good \in BOOLEAN
  /\ buffer \in 0..hw.most
  /\ buf \in [upper : 0..buffer, lower : 0..buffer, high : 0..buffer, alarm : 0..buffer]
  /\ start \in 0..buffer

AnyOptions == [audio : BOOLEAN, mmap : BOOLEAN, first : Delays, stream : Streams]

Init ==
  /\ pc = "closed" /\ opt \in AnyOptions /\ hw \in Cards
  /\ held = {} /\ unowned = FALSE
  /\ frag = 0 /\ part = 0 /\ good = TRUE /\ buffer = 0 /\ buf = Zero /\ start = 0

Goes(from, to) == pc = from /\ pc' = to

(* The error labels and Close() give back what they name.                  *)
GiveBack(what) ==
  /\ held' = held \ what
  /\ unowned' = (unowned \/ ~(what \subseteq held))

(* The labels err_log, err_out and err_status of Open().                   *)
FailsWith(from, what) ==
  /\ Goes(from, "closed") /\ GiveBack(what)
  /\ UNCHANGED <<chosen, sizes, limits>>

ErrLog == {"log"}
ErrOut == {"log", "out"}
ErrStatus == {"log", "out", "status"}

-----------------------------------------------------------------------------
(* The options come from the setup, the sizes from the stream.             *)
Burst == opt.stream.burst
Silent == (10 * opt.stream.rate) \div 1000
Periods == 16384 \div Burst

Begin ==
  /\ Goes("closed", "connect")
  /\ opt' \in AnyOptions
  /\ held' = held \cup {"log"}
  /\ frag' = 0 /\ part' = 0 /\ good' = TRUE /\ buffer' = 0 /\ buf' = Zero /\ start' = 0
  /\ UNCHANGED <<hw, unowned>>

(* The digital output by its name, or the plain device, whose status bits  *)
(* are set by a control.  The plain device opens the log anew.             *)
ConnectNamed ==
  /\ Goes("connect", "configure") /\ held' = held \cup {"out"}
  /\ UNCHANGED <<chosen, unowned, sizes, limits>>

ConnectPlain ==
  /\ Goes("connect", "control")
  /\ held' = (held \ {"log"}) \cup {"log", "out"}
  /\ UNCHANGED <<chosen, unowned, sizes, limits>>

ConnectFails == FailsWith("connect", ErrLog)

(* A control that is written is closed, one that can not be written is not *)
(* (spdif.c:603); without it the device is used as it is.                  *)
Control ==
  /\ Goes("control", "configure")
  /\ held' \in {held, held \cup {"ctl"}}
  /\ UNCHANGED <<chosen, unowned, sizes, limits>>

ControlFails == FailsWith("control", ErrOut)

(* Access, format, channels and rate.  An error of the query for the       *)
(* largest period is logged only and stays in `err'.                       *)
Configure ==
  /\ Goes("configure", "period")
  /\ good' \in BOOLEAN
  /\ UNCHANGED <<chosen, held, unowned, frag, part, buffer, limits>>

ConfigureFails == FailsWith("configure", ErrOut)

-----------------------------------------------------------------------------
(* The loop for the period: the largest divisor of the burst that the card *)
(* takes.  It may end without one and without an error.                    *)
PageFrames == 1024
AtMost(a, b) == IF a < b THEN a ELSE b
PeriodMax == IF opt.mmap THEN PageFrames ELSE AtMost(hw.max, Burst)

Accepts(n) == n \in hw.min..hw.max /\ n % hw.align = 0

More(f) == IF f < 10 THEN "period" ELSE "buffer"

PeriodSkip ==
  LET n == Burst \div frag' IN
  /\ frag' = frag + 1 /\ Goes("period", More(frag'))
  /\ n > PeriodMax \/ (n >= hw.min /\ n * frag' # Burst)
  /\ UNCHANGED <<part, good>>

PeriodSmall ==
  LET n == Burst \div frag' IN
  /\ frag' = frag + 1 /\ Goes("period", "buffer")
  /\ n <= PeriodMax /\ n < hw.min
  /\ good' = FALSE /\ UNCHANGED part

PeriodTry ==
  LET n == Burst \div frag' IN
  /\ frag' = frag + 1 /\ n * frag' = Burst /\ n \in hw.min..PeriodMax
  /\ good' = Accepts(n)
  /\ Goes("period", IF good' THEN "buffer" ELSE More(frag'))
  /\ part' = IF good' THEN n ELSE part

Period == /\ PeriodSkip \/ PeriodSmall \/ PeriodTry
          /\ UNCHANGED <<chosen, held, unowned, buffer, limits>>

(* The buffer: as many periods as were asked for, or near that size.       *)
Taken == good /\ (frag = 1 => Burst * Periods <= hw.most)

(* Mutant: the size that was got is taken for the one that was asked for.  *)
BufferAsked ==
  /\ Goes("buffer", "check") /\ Taken /\ buffer' = Burst * Periods
  /\ UNCHANGED <<chosen, held, unowned, frag, part, good, limits>>

Buffer ==
  /\ Goes("buffer", "check") /\ Taken /\ buffer' = AtMost(Burst * Periods, hw.most)
  /\ UNCHANGED <<chosen, held, unowned, frag, part, good, limits>>

BufferFails == ~Taken /\ FailsWith("buffer", ErrOut)

-----------------------------------------------------------------------------
(* The period that was got, times the divisor, has to be the burst, and    *)
(* the buffer a whole number of bursts.  A period that was never set is    *)
(* known only when the card has just one.                                  *)
Got == IF part # 0 THEN part ELSE IF hw.min = hw.max THEN hw.min ELSE 0

(* Mutant: the period is not compared with the burst.                      *)
FitsBuffer == buffer = Burst * Periods

Fits == Got * frag = Burst /\ buffer = Burst * Periods

Tenth == buffer \div 10

(* Mutant: the alarm is three tenths instead of the third of one.          *)
CheckLoud ==
  /\ Goes("check", "params") /\ Fits
  /\ buf' = [upper |-> buffer - 3 * Tenth, lower |-> (IF opt.audio THEN 2 ELSE 4) * Tenth,
             high |-> buffer - Tenth, alarm |-> Tenth * 3]
  /\ UNCHANGED <<chosen, held, unowned, sizes, start>>

Check ==
  /\ Goes("check", "params") /\ Fits
  /\ buf' = [upper |-> buffer - 3 * Tenth, lower |-> (IF opt.audio THEN 2 ELSE 4) * Tenth,
             high |-> buffer - Tenth, alarm |-> Tenth \div 3]
  /\ UNCHANGED <<chosen, held, unowned, sizes, start>>

CheckFails == ~Fits /\ FailsWith("check", ErrOut)

(* Mutant: the start threshold has no limit.                               *)
ParamsUncapped ==
  /\ Goes("params", "status")
  /\ start' = Silent * (opt.first + 1)
  /\ UNCHANGED <<chosen, held, unowned, sizes, buf>>

(* Hardware and software parameters, the start threshold among them.       *)
Params ==
  /\ Goes("params", "status")
  /\ start' = AtMost(Silent * (opt.first + 1), buf.upper)
  /\ UNCHANGED <<chosen, held, unowned, sizes, buf>>

ParamsFails == FailsWith("params", ErrOut)

Status ==
  /\ Goes("status", "prepare") /\ held' = held \cup {"status"}
  /\ UNCHANGED <<chosen, unowned, sizes, limits>>

Prepare ==
  /\ Goes("prepare", "open")
  /\ UNCHANGED <<chosen, held, unowned, sizes, limits>>

(* Mutant: the error path starts one label too late.                       *)
PrepareFailsLate == FailsWith("prepare", ErrOut)

PrepareFails == FailsWith("prepare", ErrStatus)

Close == FailsWith("open", ErrStatus)

Next ==
  \/ Begin \/ ConnectNamed \/ ConnectPlain \/ ConnectFails
  \/ Control \/ ControlFails \/ Configure \/ ConfigureFails
  \/ Period \/ Buffer \/ BufferFails \/ Check \/ CheckFails
  \/ Params \/ ParamsFails \/ Status \/ Prepare \/ PrepareFails \/ Close

Spec == Init /\ [][Next]_vars

-----------------------------------------------------------------------------
(* A card that is not open holds nothing of the sound library, whichever   *)
(* error label Open() left by, and nothing is given back twice; the        *)
(* control handle of spdif.c:603 is the exception.                         *)
NothingKept == (pc = "closed" => held \subseteq {"ctl"}) /\ ~unowned

(* "Try to use an integer divisor of the burst size as period size"        *)
(* (spdif.c:654): an open card has such a period, one that it accepts,     *)
(* although the loop may end without any and with a stale `err'.           *)
PeriodDivides == pc = "open" => Accepts(Got) /\ Burst % Got = 0 /\ buffer % Burst = 0

(* The thresholds of the open card grade every fill, also for a burst that *)
(* does not divide the buffer into tenths: LOW ends below the underrun     *)
(* mark, that below the mark that takes it back, and above HIGH there is   *)
(* room left for an alarm's worth of samples.                              *)
ThresholdsOrdered ==
  pc = "open" => /\ 0 < buf.alarm /\ buf.alarm < buf.lower /\ buf.lower < buf.upper
                 /\ buf.upper < buf.high /\ buf.high + buf.alarm < buffer

(* The eight start frames of a replay reach the start threshold: else the  *)
(* next Synchronize() would find the card not playing and start anew, for  *)
(* ever.  Each is as long as SPDIF_BURST_SIZE, whatever the stream.        *)
StartReached == pc = "open" => start > 0 /\ start <= 8 * 1536
=============================================================================
