----------------------------- MODULE MCIoMutex -----------------------------
(***************************************************************************)
(* Module IoMutex for TLC: three threads that nest their calls up to      *)
(* three deep.                                                             *)
(***************************************************************************)
EXTENDS IoMutex
CONSTANTS t1, t2, t3
Threads == {t1, t2, t3}
=============================================================================
