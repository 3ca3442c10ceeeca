---------------------------- MODULE MCSpdifPlay ----------------------------
(* Bounds for model checking SpdifPlay: options a card is opened with.     *)
EXTENDS SpdifPlay

Option(a, v, l) == [audio |-> a, vrperiod |-> v, live |-> l]
Both == {Option(TRUE, TRUE, FALSE), Option(FALSE, FALSE, TRUE)}
=============================================================================
