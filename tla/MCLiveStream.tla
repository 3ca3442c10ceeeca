---------------------------- MODULE MCLiveStream ----------------------------
(***************************************************************************)
(* Module LiveStream for TLC: a driver call that never returns, or none.     *)
(***************************************************************************)
EXTENDS LiveStream
AllChanges == {"ACTIVE", "MUTE", "CLEAR"}
LiveChanges == {"ACTIVE"}
NoHangs == {}
HangsUnlocked == {"synchronize"}
=============================================================================
