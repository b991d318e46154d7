---------------------------- MODULE SessionPool ----------------------------
(***************************************************************************)
(* What the worker-control server promises of its sessions, whatever       *)
(* requests race: one that is being attached has its place under the limit *)
(* before it starts and until it is in the table; one in the table is      *)
(* taken out once, by the request that closes it or, once its bridge is    *)
(* down, by its watcher; and none comes back while a request has it.       *)
(* The code it abstracts: the session table of worker_control.go.          *)
(***************************************************************************)
EXTENDS Naturals, FiniteSets

CONSTANTS
    Sessions,       \* session ids
    Limit           \* SetMaxSessions: 0 is no limit

VARIABLES
    slots,          \* places held by attaches on their way to the table
    table,          \* the sessions in it
    leaving,        \* the sessions taken by requests that will close them
    up              \* the sessions whose bridge is up

poolVars == <<slots, table, leaving, up>>

Init == slots = 0 /\ table = {} /\ leaving = {} /\ up = {}

Room == Limit = 0 \/ Cardinality(table) + slots < Limit

Hold == Room /\ slots' = slots + 1 /\ UNCHANGED <<table, leaving, up>>

Attach(e) == /\ slots > 0 /\ e \notin table \cup leaving \cup up
             /\ up' = up \cup {e}
             /\ UNCHANGED <<slots, table, leaving>>

GiveUp == slots > 0 /\ slots' = slots - 1 /\ UNCHANGED <<table, leaving, up>>

\* The place under the limit becomes the session's own.
Enter(e) == /\ slots > 0 /\ e \notin table \cup leaving
            /\ slots' = slots - 1 /\ table' = table \cup {e}
            /\ UNCHANGED <<leaving, up>>

Take(e) == /\ e \in table /\ table' = table \ {e} /\ leaving' = leaving \cup {e}
           /\ UNCHANGED <<slots, up>>

Close(e) == /\ e \in leaving /\ leaving' = leaving \ {e} /\ up' = up \ {e}
            /\ UNCHANGED <<slots, table>>

\* The bridge is lost, or closed on the way out of the process.
Fall(e) == e \in up /\ up' = up \ {e} /\ UNCHANGED <<slots, table, leaving>>

Drop(e) == /\ e \in table \ up /\ table' = table \ {e}
           /\ UNCHANGED <<slots, leaving, up>>

Next ==
    \/ Hold \/ GiveUp
    \/ \E e \in Sessions :
          Attach(e) \/ Enter(e) \/ Take(e) \/ Close(e) \/ Fall(e) \/ Drop(e)

Spec == Init /\ [][Next]_poolVars

\* The sessions and those that will be never pass the limit, and none is both in the
\* table and on its way out.
Bounded == /\ Limit > 0 => Cardinality(table) + slots <= Limit
           /\ table \cap leaving = {}
=============================================================================
