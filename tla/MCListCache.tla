---------------------------- MODULE MCListCache ----------------------------
(***************************************************************************)
(* ListCache for TLC: two pollers, two proxies swapped for each other, two *)
(* changes of the devices and a TTL of two ticks.                          *)
(***************************************************************************)
EXTENDS ListCache

CONSTANTS c1, c2, p1, p2

TwoPollers == {c1, c2}
TwoProxies == {p1, p2}
=============================================================================
