------------------------------ MODULE MCBridge ------------------------------
(***************************************************************************)
(* Bridge for TLC: two processes, one of each kind, and one port, so that  *)
(* two sessions meet on it; two devices, of which one is unplugged.        *)
(***************************************************************************)
EXTENDS Bridge

CONSTANTS b1, b2, p1, d1, d2

TwoBridges == {b1, b2}
OnePort == {p1}
TwoDevices == {d1, d2}
OneNamed == {b1}
NamedDevice == [b \in {b1} |-> d1]
OneRestarts == {b2}
OneRecords == {b1}
OneLoose == {d1}
=============================================================================
