--------------------------- MODULE FrameDelivery ---------------------------
(***************************************************************************)
(* What a client may rely on for the frames it sends through Serve,        *)
(* whatever the upstream and other goroutines do: they are taken one at a  *)
(* time and in order; a frame for Chrome is delivered at most once; a      *)
(* synthetic method is answered here and never passed on; and a frame that *)
(* met no fate is the last that its Serve took.                            *)
(* The code it abstracts: the writer of Serve in proxy.go.                 *)
(***************************************************************************)
EXTENDS Naturals

CONSTANTS Messages  \* bound: frames the clients send in all

VARIABLES
    hand,           \* "closed" outside Serve, "empty", or it holds a "frame" or "method"
    first, last,    \* frames taken before this Serve, and so far
    delivered,      \* frames Chrome got
    swallowed,      \* frames written to a connection that was lost
    answered        \* synthetic methods that have their reply

fates == <<delivered, swallowed, answered>>
deliveryVars == <<hand, first, last, fates>>

Init == /\ hand = "closed" /\ first = 0 /\ last = 0
        /\ delivered = {} /\ swallowed = {} /\ answered = {}

Begin == /\ hand = "closed" /\ hand' = "empty"
         /\ first' = last
         /\ UNCHANGED <<last, fates>>

Take == /\ hand = "empty" /\ hand' \in {"frame", "method"}
        /\ last < Messages /\ last' = last + 1
        /\ UNCHANGED <<first, fates>>

\* The frame in hand meets its one fate.
Met == delivered \cup swallowed \cup answered
Settle == hand' = "empty" /\ last \notin Met /\ UNCHANGED <<first, last>>

Deliver == /\ hand = "frame" /\ Settle
           /\ delivered' = delivered \cup {last}
           /\ UNCHANGED <<swallowed, answered>>

Swallow == /\ hand = "frame" /\ Settle
           /\ swallowed' = swallowed \cup {last}
           /\ UNCHANGED <<delivered, answered>>

Answer == /\ hand = "method" /\ Settle
          /\ answered' = answered \cup {last}
          /\ UNCHANGED <<delivered, swallowed>>

\* Serve is at its end, with the frame in hand or none.
End == /\ hand # "closed" /\ hand' = "closed"
       /\ UNCHANGED <<first, last, fates>>

Next == Begin \/ Take \/ Deliver \/ Swallow \/ Answer \/ End

Spec == Init /\ [][Next]_deliveryVars

\* Every frame that this Serve took before the one in hand has met its fate, and only one.
AllMet ==
    /\ \A n \in (first + 1)..last : n \in Met \/ (n = last /\ hand # "empty")
    /\ delivered \cap swallowed = {} /\ (delivered \cup swallowed) \cap answered = {}
=============================================================================
