----------------------------- MODULE MCGestures -----------------------------
(***************************************************************************)
(* Gestures for TLC: one goroutine besides the client's pump, so that two  *)
(* gestures can meet; one move for `steps'; enough messages for a gesture  *)
(* between two frames; and connections lost twice.  The flick, a swipe     *)
(* without its waits, is left out to keep the graph small.                 *)
(***************************************************************************)
EXTENDS Gestures

CONSTANT g1

OneCaller == {g1}
MostKinds == DOMAIN Script \ {"flick"}
=============================================================================
