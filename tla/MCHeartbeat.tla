---------------------------- MODULE MCHeartbeat ----------------------------
(***************************************************************************)
(* Heartbeat for TLC: two devices, three of Enrich's four reads, which are *)
(* all alike, and two requests.                                            *)
(***************************************************************************)
EXTENDS Heartbeat

CONSTANTS d1, d2

TwoDevices == {d1, d2}
ThreeFields == {"os_version", "sdk_level", "battery"}
=============================================================================
