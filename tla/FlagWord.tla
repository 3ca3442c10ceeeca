------------------------------ MODULE FlagWord ------------------------------
(***************************************************************************)
(* The flags of a live stream object (cInStream, channel.c) on more than   *)
(* one processor.  The bits of one word belong to three threads, and       *)
(* set_bit() and clear_bit() of types.h are a btsl or btrl without lock    *)
(* prefix, or a C statement on other machines: each reads the whole word,  *)
(* changes its bit and writes the whole word back.                         *)
(***************************************************************************)
EXTENDS Integers

VARIABLES flags,      \* the word: the flags that are set
          doing,      \* the operation each thread is in
          read,       \* the word it has read
          switchedOff \* history: Activate(false) cleared ACTIVE after it was set last

vars == <<flags, doing, read, switchedOff>>

Flag == {"RUNNING", "ACTIVE", "FAILED", "BOUNDARY", "WASMUTED", "PAYSTART",
         "STREAMING", "SET_PTS"}
Thread == {"control", "receiver", "forwarder"}
Nothing == <<"none", "none">>
Both(f) == {<<"set", f>>, <<"clear", f>>}

(* Who sets and clears which flag.                                         *)
Operations(t) ==
  CASE t = "control"   -> Both("ACTIVE") \cup
                          {<<"clear", f>> : f \in {"STREAMING", "BOUNDARY", "FAILED"}}
    [] t = "receiver"  -> Both("PAYSTART") \cup Both("SET_PTS") \cup Both("BOUNDARY")
                          \cup {<<"clear", "WASMUTED">>}
    [] t = "forwarder" -> Both("RUNNING") \cup
                          {<<"set", f>> : f \in {"STREAMING", "WASMUTED", "FAILED"}}
                          \cup {<<"clear", f>> : f \in {"BOUNDARY", "ACTIVE"}}

Init ==
  /\ flags = {} /\ switchedOff = FALSE
  /\ doing = [t \in Thread |-> Nothing] /\ read = [t \in Thread |-> {}]

Load(t) ==
  /\ doing[t] = Nothing
  /\ \E op \in Operations(t) : doing' = [doing EXCEPT ![t] = op]
  /\ read' = [read EXCEPT ![t] = flags]
  /\ UNCHANGED <<flags, switchedOff>>

Store(t) ==
  /\ doing[t] # Nothing
  /\ flags' = IF doing[t][1] = "set" THEN read[t] \cup {doing[t][2]}
                                     ELSE read[t] \ {doing[t][2]}
  /\ switchedOff' = IF t = "control" /\ doing[t][2] = "ACTIVE"
                    THEN doing[t][1] = "clear" ELSE switchedOff
  /\ doing' = [doing EXCEPT ![t] = Nothing] /\ read' = [read EXCEPT ![t] = {}]

Next == \E t \in Thread : Load(t) \/ Store(t)

Spec == Init /\ [][Next]_vars

-----------------------------------------------------------------------------
(* channel.c:97: clear_flag(ACTIVE), "Set only above".  Once Activate(false)*)
(* cleared ACTIVE the forwarding thread reads it as cleared until the next *)
(* Activate(true).                                                         *)
ActiveSetOnlyByActivate == switchedOff => "ACTIVE" \notin flags
=============================================================================
