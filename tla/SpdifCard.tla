------------------------------ MODULE SpdifCard ------------------------------
(***************************************************************************)
(* Who has the sound card: Open(), Close(), Synchronize() and burst() of   *)
(* class spdif (spdif.c) as the two forwarding threads and the threads     *)
(* that start and stop them call them.  There is one object of the class,  *)
(* and its members out, stream and BURSTRUN are read and written without   *)
(* the lock `_close', which only Open() and Close() take.                  *)
(*                                                                         *)
(* A handle of the sound library is a number that is used once, so that a  *)
(* stale one is told from the one in `out'.  VDR's main thread attaches    *)
(* and detaches the live stream and begins and ends a recording; its       *)
(* player thread calls Play().  In transfer mode, which VDR uses to show a *)
(* channel of another device, the player thread calls Play() for live      *)
(* pictures too, beside the live stream; the history `mode' tells whether  *)
(* it ever did, and whether Open() then found the card of the other part   *)
(* open, after which nothing is promised.                                  *)
(***************************************************************************)
EXTENDS Integers

CONSTANT MaxOpen      \* bound: handles opened in a behaviour

Part == {"live", "replay"}          \* the parts, and their forwarding threads
Thread == Part \cup {"main", "player"}
Of(t) == IF t = "main" THEN "live" ELSE "replay"    \* the part a thread controls
None == "none"

ASSUME MaxOpenAssumption == MaxOpen \in Nat \ {0}

VARIABLES
  out,          \* handle of the open card, 0 is NULL
  stream,       \* whose framer the card plays
  lock,         \* holder of _close
  burstrun, first,      \* bits of ctrlbits
  alsa, opened, \* handles open in the sound library, and how many ever were
  pc, tmp,      \* every thread: where it is, and the handle it holds
  ret,          \* where a thread goes on after Close()
  active, failed, live, \* flags ACTIVE and FAILED of the parts, bit LIVE
  replaying,    \* VDR plays a recording
  mode          \* history: the parts were kept apart, mixed, or have crossed

bits == <<burstrun, first>>
library == <<alsa, opened>>
threads == <<pc, tmp, ret>>
setup == <<active, failed, live>>
vdr == <<replaying, mode>>
vars == <<out, stream, lock, bits, library, threads, setup, vdr>>

Forwarding == {"open", "openstream", "openpcm", "loop", "sync", "forward",
               "burst", "write", "lead", "quit"}
Closing == {"close", "closelock", "closewait", "closeclear", "closestop",
            "closeforget", "closepcm"}

TypeOK ==
  /\ out \in 0..opened /\ opened \in 0..MaxOpen /\ alsa \subseteq 1..opened
  /\ stream \in Part \cup {None} /\ lock \in Thread \cup {None}
  /\ burstrun \in BOOLEAN /\ first \in BOOLEAN
  /\ pc \in [Thread -> Forwarding \cup Closing
                      \cup {None, "idle", "start", "join", "offend"}]
  /\ tmp \in [Thread -> 0..opened]
  /\ ret \in [Thread -> {"openstream", "quit", "offend"}]
  /\ active \subseteq Part /\ failed \subseteq Part /\ live \in BOOLEAN
  /\ replaying \in BOOLEAN /\ mode \in {"apart", "mixed", "crossed"}

Init ==
  /\ out = 0 /\ stream = None /\ lock = None
  /\ burstrun = FALSE /\ first = FALSE
  /\ alsa = {} /\ opened = 0
  /\ pc = [t \in Thread |-> IF t \in Part THEN None ELSE "idle"]
  /\ tmp = [t \in Thread |-> 0] /\ ret = [t \in Thread |-> "quit"]
  /\ active = {} /\ failed = {} /\ live = FALSE
  /\ replaying = FALSE /\ mode = "apart"

Goes(t, from, to) == pc[t] = from /\ pc' = [pc EXCEPT ![t] = to]

-----------------------------------------------------------------------------
(* VDR: a recording begins after the live stream was detached, and its     *)
(* player leaves the replay part cleared.                                  *)
BeginReplay ==
  /\ pc["main"] = "idle" /\ ~replaying /\ ~live
  /\ replaying' = TRUE
  /\ UNCHANGED <<out, stream, lock, bits, library, threads, setup, mode>>

EndReplay ==
  /\ replaying /\ pc["player"] = "idle" /\ pc["replay"] = None
  /\ replaying' = FALSE
  /\ UNCHANGED <<out, stream, lock, bits, library, threads, setup, mode>>

(* Activate(true): the look at the card, and then the start of the thread. *)
LookFree(t) ==
  /\ out = 0 /\ Goes(t, "idle", "start")
  /\ UNCHANGED <<out, stream, lock, bits, library, tmp, ret, setup, replaying>>

Attach == /\ ~replaying /\ ~live /\ pc["live"] = None /\ LookFree("main")
          /\ UNCHANGED mode

Play == /\ ~live /\ pc["replay"] = None /\ LookFree("player")
        /\ mode' = IF mode = "apart" /\ ~replaying THEN "mixed" ELSE mode

(* The menu may have raised RESET, which forgets a failure; a live stream  *)
(* is a new object without one.                                            *)
Start(t, forgiven) ==
  /\ pc[t] = "start"
  /\ failed' = failed \ forgiven
  /\ IF Of(t) \in failed' \cup active
       THEN /\ pc' = [pc EXCEPT ![t] = "idle"]
            /\ UNCHANGED <<active, live>>
       ELSE /\ active' = active \cup {Of(t)}
            /\ live' = (live \/ t = "main")
            /\ pc' = [pc EXCEPT ![t] = "idle", ![Of(t)] = "open"]
  /\ UNCHANGED <<out, stream, lock, bits, library, tmp, ret, vdr>>

StartLive == Start("main", {"live"})
StartReplay == Start("player", {}) \/ Start("player", {"replay"})

-----------------------------------------------------------------------------
(* Open(): it closes whatever is open, without asking whose it is, and     *)
(* writes the whole word of control bits.                                  *)
OpenLock(p) ==
  /\ lock = None /\ lock' = p
  /\ Goes(p, "open", IF out # 0 THEN "close" ELSE "openstream")
  /\ ret' = [ret EXCEPT ![p] = "openstream"]
  /\ mode' = IF mode = "mixed" /\ out # 0 THEN "crossed" ELSE mode
  /\ UNCHANGED <<out, stream, bits, library, tmp, setup, replaying>>

OpenStream(p) ==
  /\ Goes(p, "openstream", "openpcm")
  /\ burstrun' = FALSE /\ first' = TRUE /\ stream' = p
  /\ UNCHANGED <<out, lock, library, tmp, ret, setup, vdr>>

OpenPcm(p) ==
  /\ opened < MaxOpen /\ opened' = opened + 1
  /\ out' = opened' /\ alsa' = alsa \cup {opened'}
  /\ lock' = None /\ Goes(p, "openpcm", "loop")
  /\ UNCHANGED <<stream, bits, tmp, ret, setup, vdr>>

(* Mutant: an open that fails leaves its handle behind in `out'.           *)
OpenFailsHalf(p) ==
  /\ out' = opened + 1 /\ lock' = None /\ Goes(p, "openpcm", "quit")
  /\ failed' = failed \cup {p}
  /\ UNCHANGED <<stream, bits, library, tmp, ret, active, live, vdr>>

OpenFails(p) ==
  /\ out' = 0 /\ lock' = None /\ Goes(p, "openpcm", "quit")
  /\ failed' = failed \cup {p}
  /\ UNCHANGED <<stream, bits, library, tmp, ret, active, live, vdr>>

-----------------------------------------------------------------------------
(* The forwarding thread between Open() and Close(this).                   *)
(* Mutant: ACTIVE is looked at after Synchronize() only.                   *)
LoopForever(p) ==
  /\ Goes(p, "loop", "sync")
  /\ tmp' = [tmp EXCEPT ![p] = IF first THEN 0 ELSE out]
  /\ UNCHANGED <<out, stream, lock, bits, library, ret, setup, vdr>>

Loop(p) ==
  /\ Goes(p, "loop", IF p \in active THEN "sync" ELSE "close")
  /\ ret' = [ret EXCEPT ![p] = "quit"]
  /\ tmp' = [tmp EXCEPT ![p] = IF first THEN 0 ELSE out]
  /\ UNCHANGED <<out, stream, lock, bits, library, setup, vdr>>

(* Synchronize() sleeps on the handle it read, or on the bounce buffer.  A *)
(* card that ran empty is prepared again, which sets FIRST.                *)
Synchronize(p) ==
  /\ \/ p \in active /\ Goes(p, "sync", "forward")
     \/ Goes(p, "sync", "loop")
  /\ first' \in {first, TRUE} /\ (first' => first \/ tmp[p] # 0)
  /\ tmp' = [tmp EXCEPT ![p] = 0]
  /\ UNCHANGED <<out, stream, lock, burstrun, library, ret, setup, vdr>>

Forward(p) ==
  /\ Goes(p, "forward", IF out = 0 \/ stream = None THEN "loop" ELSE "burst")
  /\ first' = (first /\ (out = 0 \/ stream = None))
  /\ UNCHANGED <<out, stream, lock, burstrun, library, tmp, ret, setup, vdr>>

BurstEnter(p) ==
  /\ Goes(p, "burst", "write")
  /\ burstrun' = TRUE /\ tmp' = [tmp EXCEPT ![p] = out]
  /\ UNCHANGED <<out, stream, lock, first, library, ret, setup, vdr>>

(* The write may fail with an underrun, which sets FIRST.                  *)
BurstWrite(p) ==
  /\ Goes(p, "write", "lead")
  /\ burstrun' = FALSE /\ first' \in {first, TRUE}
  /\ tmp' = [tmp EXCEPT ![p] = 0]
  /\ UNCHANGED <<out, stream, lock, library, ret, setup, vdr>>

BurstLead(p) ==
  /\ Goes(p, "lead", "loop")
  /\ UNCHANGED <<out, stream, lock, bits, library, tmp, ret, setup, vdr>>

Quit(p) ==
  /\ Goes(p, "quit", None)
  /\ active' = active \ {p}
  /\ UNCHANGED <<out, stream, lock, bits, library, tmp, ret, failed, live, vdr>>

-----------------------------------------------------------------------------
(* Close(), by the thread itself, by Open() or by the thread that broke    *)
(* it.  The handle is read before the lock is taken.                       *)
CloseRead(t) ==
  /\ Goes(t, "close", "closelock") /\ tmp' = [tmp EXCEPT ![t] = out]
  /\ UNCHANGED <<out, stream, lock, bits, library, ret, setup, vdr>>

Nested(t) == ret[t] = "openstream"

CloseLock(t) ==
  /\ lock = (IF Nested(t) THEN t ELSE None)
  /\ IF out = 0 THEN Goes(t, "closelock", ret[t]) /\ UNCHANGED lock
                ELSE Goes(t, "closelock", "closewait") /\ lock' = t
  /\ UNCHANGED <<out, stream, bits, library, tmp, ret, setup, vdr>>

CloseWait(t) ==
  /\ ~burstrun /\ Goes(t, "closewait", "closeclear")
  /\ UNCHANGED <<out, stream, lock, bits, library, tmp, ret, setup, vdr>>

(* Clear(exit): a card that plays gets a stop frame.                       *)
CloseClear(t) ==
  /\ Goes(t, "closeclear", IF first THEN "closeforget" ELSE "closestop")
  /\ burstrun' = ~first
  /\ UNCHANGED <<out, stream, lock, first, library, tmp, ret, setup, vdr>>

CloseStop(t) ==
  /\ Goes(t, "closestop", "closeforget")
  /\ burstrun' = FALSE /\ first' = TRUE
  /\ UNCHANGED <<out, stream, lock, library, tmp, ret, setup, vdr>>

CloseForget(t) ==
  /\ Goes(t, "closeforget", "closepcm")
  /\ out' = 0 /\ stream' = None
  /\ UNCHANGED <<lock, bits, library, tmp, ret, setup, vdr>>

(* Mutant: the handle is taken from `out', which is NULL by now.           *)
ClosePcmOfNull(t) ==
  /\ Goes(t, "closepcm", ret[t])
  /\ alsa' = alsa \ {out} /\ tmp' = [tmp EXCEPT ![t] = 0]
  /\ lock' = IF Nested(t) THEN t ELSE None
  /\ UNCHANGED <<out, stream, bits, opened, ret, setup, vdr>>

ClosePcm(t) ==
  /\ Goes(t, "closepcm", ret[t])
  /\ alsa' = alsa \ {tmp[t]} /\ tmp' = [tmp EXCEPT ![t] = 0]
  /\ lock' = IF Nested(t) THEN t ELSE None
  /\ UNCHANGED <<out, stream, bits, opened, ret, setup, vdr>>

-----------------------------------------------------------------------------
(* Activate(false).  A forwarding thread that does not come back from the  *)
(* driver is killed; then the card is closed for it.                       *)
Off(t) ==
  /\ t = "main" \/ replaying \/ mode # "apart"
  /\ Of(t) \in active \/ pc[Of(t)] # None \/ (t = "main" /\ live)
  /\ Goes(t, "idle", "join") /\ active' = active \ {Of(t)}
  /\ UNCHANGED <<out, stream, lock, bits, library, tmp, ret, failed, live, vdr>>

(* Mutants: the wait for the thread ends without Cancel(); the broken      *)
(* thread is not killed before the card is closed.                         *)
JoinGivesUp(t) ==
  /\ Goes(t, "join", "offend")
  /\ UNCHANGED <<out, stream, lock, bits, library, tmp, ret, setup, vdr>>

KillSpares(t) ==
  /\ pc[Of(t)] = "sync" /\ tmp[Of(t)] # 0 /\ Goes(t, "join", "close")
  /\ ret' = [ret EXCEPT ![t] = "offend"]
  /\ UNCHANGED <<out, stream, lock, bits, library, tmp, setup, vdr>>

Join(t) ==
  /\ pc[Of(t)] = None /\ Goes(t, "join", "offend")
  /\ UNCHANGED <<out, stream, lock, bits, library, tmp, ret, setup, vdr>>

Kill(t) ==
  /\ pc[t] = "join" /\ pc[Of(t)] = "sync" /\ tmp[Of(t)] # 0
  /\ pc' = [pc EXCEPT ![Of(t)] = None, ![t] = "close"]
  /\ tmp' = [tmp EXCEPT ![Of(t)] = 0]
  /\ ret' = [ret EXCEPT ![t] = "offend"]
  /\ UNCHANGED <<out, stream, lock, bits, library, setup, vdr>>

OffEnd(t) ==
  /\ Goes(t, "offend", "idle")
  /\ live' = (live /\ t # "main")
  /\ UNCHANGED <<out, stream, lock, bits, library, tmp, ret, active, failed, vdr>>

-----------------------------------------------------------------------------
Card(t) == \/ CloseRead(t) \/ CloseLock(t) \/ CloseWait(t) \/ CloseClear(t)
           \/ CloseStop(t) \/ CloseForget(t) \/ ClosePcm(t)

Forwarder(p) == \/ OpenLock(p) \/ OpenStream(p) \/ OpenPcm(p) \/ OpenFails(p)
                \/ Loop(p) \/ Synchronize(p) \/ Forward(p) \/ BurstEnter(p)
                \/ BurstWrite(p) \/ BurstLead(p) \/ Quit(p) \/ Card(p)

Control(t) == Join(t) \/ Kill(t) \/ OffEnd(t) \/ Card(t)

Main == StartLive \/ Control("main")
Player == StartReplay \/ Control("player")

Vdr == BeginReplay \/ EndReplay \/ Attach \/ Play \/ Off("main") \/ Off("player")

Next == Vdr \/ Main \/ Player \/ \E p \in Part : Forwarder(p)

(* The threads are scheduled; the card opens or fails.  Nothing is asked   *)
(* of VDR.                                                                 *)
Fairness == WF_vars(Main) /\ WF_vars(Player) /\ \A p \in Part : WF_vars(Forwarder(p))

Spec == Init /\ [][Next]_vars
FairSpec == Spec /\ Fairness

-----------------------------------------------------------------------------
Playing == {"loop", "sync", "forward", "burst", "write", "lead"}

(* "An other has opened the S/P-DIF" (channel.c:82, replay.c:71): a part   *)
(* does not start when the card is open, so its Open() finds it closed, as *)
(* long as the player thread keeps to replays.                             *)
OpenFindsClosed ==
  mode = "apart" => \A p \in Part : pc[p] \in Closing => ret[p] # "openstream"

(* What a thread gives to the sound library is a handle that is open: the  *)
(* handle Synchronize() sleeps on and burst() writes to, and the one       *)
(* Close() closes, which it read before it had the lock.                   *)
HandlesAreOpen ==
  mode # "crossed" =>
    /\ \A p \in Part : pc[p] \in {"sync", "write"} => tmp[p] \in alsa \cup {0}
    /\ \A t \in Thread : pc[t] \in {"closeclear", "closestop", "closeforget", "closepcm"}
                           => tmp[t] \in alsa

(* No handle is lost: outside of Open() and Close() the library has only   *)
(* the handle in `out' open.                                               *)
NoHandleLost == lock = None /\ mode # "crossed" => alsa = {out} \ {0}

(* A forwarding thread that has opened the card plays its own stream until *)
(* it closes it; at the end of burst() in particular, where the stream is  *)
(* used after BURSTRUN, which keeps Close() waiting, was cleared.          *)
PlaysOwnStream ==
  mode # "crossed" => \A p \in Part : pc[p] \in Playing => out # 0 /\ stream = p

(* Activate(false) returns, whatever the forwarding thread does: Close()   *)
(* gets its lock and does not wait for a burst that is not running.  When  *)
(* both parts want the card, each waits for the other's zaps.              *)
OffReturns ==
  \A t \in {"main", "player"} : pc[t] = "join" ~> pc[t] = "idle" \/ mode # "apart"
=============================================================================
