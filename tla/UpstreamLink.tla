---------------------------- MODULE UpstreamLink ----------------------------
(***************************************************************************)
(* What a Proxy promises of its upstream, whatever its goroutines do: the  *)
(* link is up, being re-established, or down.  It comes back only through  *)
(* a cycle; it is given up only by a cycle or a Close; and giving up is    *)
(* owed a report on Done, which nothing else but Close may make.           *)
(* The code it abstracts: reconnect, Close and Done of proxy.go.           *)
(***************************************************************************)
VARIABLES
    link,   \* "up", "recovering" or "down"
    shut,   \* Close was called
    owed,   \* a cycle gave up and has not reported it yet
    over    \* Done is closed

linkVars == <<link, shut, owed, over>>

Init == link = "up" /\ shut = FALSE /\ owed = FALSE /\ over = FALSE

\* A pump's read or write failed, or the first frame after a give-up arrived.
Lose == /\ link \in {"up", "down"} /\ link' = "recovering"
        /\ UNCHANGED <<shut, owed, over>>

Recover == /\ link = "recovering" /\ link' = "up"
           /\ UNCHANGED <<shut, owed, over>>

GiveUp == /\ link = "recovering" /\ link' = "down" /\ owed' = TRUE
          /\ UNCHANGED <<shut, over>>

\* Several give-ups may be owed their report at once.
Report == /\ owed /\ over' = TRUE /\ owed' \in BOOLEAN
          /\ UNCHANGED <<link, shut>>

Shut == /\ shut' = TRUE
        /\ UNCHANGED <<link, owed, over>>

ShutReport == /\ shut /\ over' = TRUE
              /\ UNCHANGED <<link, shut, owed>>

\* Close takes the connection out; a cycle in flight is left to go on.
ShutDown == /\ shut /\ over /\ link = "up" /\ link' = "down"
            /\ UNCHANGED <<shut, owed, over>>

Next == Lose \/ Recover \/ GiveUp \/ Report \/ Shut \/ ShutReport \/ ShutDown

Spec == Init /\ [][Next]_linkVars

\* A consumer of Done is never left with a link that is silently down: it is
\* over, or a report is on its way.
DownIsTold == link = "down" => over \/ owed
=============================================================================
