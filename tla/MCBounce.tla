------------------------------ MODULE MCBounce ------------------------------
(***************************************************************************)
(* Module Bounce for TLC: the byte values are model values, and the chunks *)
(* offered to store() may be one byte longer than the ring.                *)
(***************************************************************************)

EXTENDS Bounce

CONSTANTS b1, b2
TwoBytes == {b1, b2}
=============================================================================
