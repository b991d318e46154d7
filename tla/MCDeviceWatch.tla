--------------------------- MODULE MCDeviceWatch ---------------------------
(***************************************************************************)
(* DeviceWatch for TLC: two devices of two states, three changes, and a    *)
(* channel of one, so that the watcher waits for its caller.               *)
(***************************************************************************)
EXTENDS DeviceWatch

CONSTANTS d1, d2, ready, offline

TwoDevices == {d1, d2}
TwoStates == {ready, offline}
=============================================================================
