------------------------------ MODULE MCProxy ------------------------------
(***************************************************************************)
(* Proxy for TLC: two clients so that one follows the other or races it,   *)
(* two connections so that a cycle dials one while the old is still held,  *)
(* two attempts so that a cycle retries and gives up.                      *)
(***************************************************************************)
EXTENDS Proxy, TLC

CONSTANTS c1, c2, k1, k2

TwoClients == {c1, c2}
OneClient == {c1}
TwoConns == {k1, k2}
OneConn == {k1}

\* For liveness: no synthetic method is called (each is one more write) and the
\* forward stays (a dial may fail all the same).
LiveNext ==
    \/ \E c \in Clients : ReaderStep(c) \/ WriterStep(c) \/ ServeStep(c) \/ Outside(c)
    \/ \E p \in Pumps : ReconnectStep(p)
    \/ CloseBegin \/ CloseStep \/ ConnLost \/ Finished
LiveSpec == Init /\ [][LiveNext]_vars /\ Fairness

Symmetric == Permutations(TwoClients)
=============================================================================
