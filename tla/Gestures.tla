------------------------------ MODULE Gestures ------------------------------
(***************************************************************************)
(* The gesture helpers of gestures.go and network.go, and the goroutine of *)
(* Serve that runs them for a client: it forwards the client's frames,     *)
(* answers the synthetic MobileBridge.* methods itself, and replays a      *)
(* frame once when the upstream fails under it.  Other goroutines call the *)
(* helpers directly, on the same upstream.                                 *)
(*                                                                         *)
(* The upstream is the link of UpstreamLink, which Proxy implements,       *)
(* without its reports.  A send is atomic: it holds writeMu and the read   *)
(* lock.  What Chrome does with a touch when its connection breaks is not  *)
(* known to this program: the finger stays down or is lifted.              *)
(***************************************************************************)
EXTENDS Naturals, Sequences

CONSTANTS
    Callers,    \* goroutines of the embedding program that call Tap, Swipe, ...
    Kinds,      \* the helpers that are called, of DOMAIN Script
    Moves,      \* `steps' of Swipe and Pinch
    Messages,   \* bound: frames the clients send in all
    Breaks      \* bound: connections lost

ASSUME MovesAssumption == Moves \in Nat \ {0}
ASSUME BoundsAssumption == Messages \in Nat /\ Breaks \in Nat

Writer == "writer"                  \* the pump that reads the client's frames
Actors == Callers \cup {Writer}

ASSUME CallersAssumption == Writer \notin Callers

VARIABLES
    link,       \* the upstream: "up", "recovering" or "down"
    socket,     \* its connection: "live", past its read "deadline", or "lost" (or closed)
    breaks,
    finger,     \* what the page sees: "up" or "down"
    left,       \* per actor: what its gesture has still to do
    cancelled,  \* callers whose context is done
    serve,      \* "none", "on", or "ending" once serveDone is closed
    pump,       \* where the writer is
    reader,     \* the pump of the other direction: "on", or "off"
    base, sent, \* messages read before this Serve, and so far
    arrivals,   \* how often Chrome got each plain frame
    gone,       \* plain frames taken by a socket that was lost
    answered,   \* synthetic messages that have their reply
    late,       \* history: the connection is newer than the teardown under way
    alone,      \* history: gestures begun on this connection with no other since
    excuse      \* history: a send has failed since the finger last changed

linkVars == <<link, socket, breaks, late>>
touchVars == <<finger, left, cancelled, alone, excuse>>
frameVars == <<base, sent, arrivals, gone, answered>>
vars == <<linkVars, touchVars, serve, pump, reader, frameVars>>

(***************************************************************************)
(* The helpers: the frames each sends, with the points where it waits      *)
(* (time.After against ctx.Done) and where it checks its context.          *)
(***************************************************************************)
Touches == {"start", "move", "end", "lift"}
Frames == Touches \cup {"enable", "conditions"}
Pauses == {"wait", "check"}

Repeat(s) == [i \in 1..(Moves * Len(s)) |-> s[1 + ((i - 1) % Len(s))]]

\* Mutant: Swipe lifts the finger before its last move.
SwipeScript_EarlyEnd == <<"start">> \o Repeat(<<"move", "wait">>) \o <<"end", "move">>

SwipeScript == <<"start">> \o Repeat(<<"move", "wait">>) \o <<"move", "end">>

\* flick is a Swipe of no duration: stepSleep is 0, and it never looks at ctx.
Script ==
    [tap       |-> <<"start", "end">>,
     longPress |-> <<"start", "wait", "end">>,
     swipe     |-> SwipeScript,
     flick     |-> <<"start">> \o Repeat(<<"move">>) \o <<"move", "end">>,
     pinch     |-> <<"start">> \o Repeat(<<"check", "move">>) \o <<"end">>,
     network   |-> <<"enable", "conditions">>]

ASSUME KindsAssumption == Kinds \subseteq DOMAIN Script

Init ==
    /\ link = "up" /\ socket = "live" /\ breaks = 0 /\ late = FALSE
    /\ finger = "up" /\ left = [a \in Actors |-> <<>>] /\ cancelled = {}
    /\ serve = "none" /\ pump = "off" /\ reader = "off"
    /\ base = 0 /\ sent = 0
    /\ arrivals = [n \in 1..Messages |-> 0] /\ gone = {} /\ answered = {}
    /\ alone = {} /\ excuse = FALSE

InGesture(a) == left[a] # <<>>
Does(a, events) == InGesture(a) /\ Head(left[a]) \in events
Go(l) == pump' = l

\* sendUpstream fails without a connection, or on one that is lost; the kernel may
\* also take a frame for a connection that is lost.
Arrives == link = "up" /\ socket # "lost"
Swallowed == link = "up" /\ socket = "lost"
Fails == link # "up" \/ socket = "lost"

\* The connection goes: Chrome keeps the finger where it is, or lifts it.
Disconnected ==
    /\ finger' \in {finger, "up"}
    /\ alone' = {}
    /\ UNCHANGED <<left, cancelled, excuse>>

\* UpstreamLink!Lose: a cycle begins, and closes the connection if there is one.
Lose ==
    /\ link \in {"up", "down"} /\ link' = "recovering" /\ socket' = "lost"
    /\ Disconnected

(***************************************************************************)
(* A helper sends its next frame: it arrives ...                           *)
(***************************************************************************)
Send(a) ==
    /\ Does(a, Frames) /\ Arrives
    /\ left' = [left EXCEPT ![a] = Tail(@)]
    /\ finger' = CASE Head(left[a]) = "start" -> "down"
                   [] Head(left[a]) \in {"end", "lift"} -> "up"
                   [] OTHER -> finger
    /\ alone' = (CASE Head(left[a]) = "start" -> {a}
                   [] Head(left[a]) \in {"end", "lift"} -> alone \cap {a}
                   [] OTHER -> alone) \ {x \in {a} : Len(left[a]) = 1}
    /\ excuse' = (excuse /\ Head(left[a]) \notin {"start", "end", "lift"})
    /\ UNCHANGED <<linkVars, cancelled, serve, pump, reader, frameVars>>

\* ... is taken and lost ...
SendSwallowed(a) ==
    /\ Does(a, Frames) /\ Swallowed
    /\ left' = [left EXCEPT ![a] = Tail(@)]
    /\ excuse' = TRUE
    /\ UNCHANGED <<finger, alone, linkVars, cancelled, serve, pump, reader, frameVars>>

\* ... or fails, and the helper returns the error; the rest is not sent.
SendFails(a) ==
    /\ Does(a, Frames) /\ Fails
    /\ left' = [left EXCEPT ![a] = <<>>]
    /\ excuse' = TRUE
    /\ UNCHANGED <<finger, alone, linkVars, cancelled, serve, pump, reader, frameVars>>

\* Mutant: the helper returns ctx.Err() and leaves the finger down.
Interrupt_Dangling == <<>>

\* Mutant: it sends a touchCancel.
Interrupt_TouchCancel == <<"cancel">>

\* The context is done in mid gesture: a best-effort touchEnd, and ctx.Err().
Interrupt == <<"lift">>

\* Mutant: the synthetic methods wait for a context that is never done.
TimePasses_Never(a) == a # Writer

\* time.After.
TimePasses(a) == TRUE

Wait(a) ==
    /\ Does(a, {"wait"})
    /\ \/ TimePasses(a) /\ left' = [left EXCEPT ![a] = Tail(@)]
       \/ a \in cancelled /\ left' = [left EXCEPT ![a] = Interrupt]
    /\ UNCHANGED <<linkVars, finger, alone, excuse, cancelled, serve, pump, reader, frameVars>>

Check(a) ==
    /\ Does(a, {"check"})
    /\ left' = [left EXCEPT ![a] = IF a \in cancelled THEN Interrupt ELSE Tail(@)]
    /\ UNCHANGED <<linkVars, finger, alone, excuse, cancelled, serve, pump, reader, frameVars>>

GestureStep(a) == Send(a) \/ SendSwallowed(a) \/ SendFails(a) \/ Wait(a) \/ Check(a)

\* A goroutine of the embedding program calls a helper, and may cancel its context.
Call(a, k) ==
    /\ ~InGesture(a)
    /\ left' = [left EXCEPT ![a] = Script[k]]
    /\ cancelled' = cancelled \ {a}
    /\ UNCHANGED <<linkVars, finger, alone, excuse, serve, pump, reader, frameVars>>

Cancel(a) ==
    /\ InGesture(a) /\ a \notin cancelled
    /\ cancelled' = cancelled \cup {a}
    /\ UNCHANGED <<linkVars, finger, left, alone, excuse, serve, pump, reader, frameVars>>

(***************************************************************************)
(* Serve: the writer pump of one client after another.                     *)
(***************************************************************************)
PumpAt == {"off", "recv", "gesture", "reply", "write", "ensure", "await", "retry"}

ServeBegin ==
    /\ serve = "none" /\ sent < Messages
    /\ serve' = "on" /\ Go("recv") /\ reader' = "on" /\ base' = sent
    /\ UNCHANGED <<linkVars, touchVars, sent, arrivals, gone, answered>>

\* A frame that is no synthetic method goes upstream as it is.
RecvPlain ==
    /\ pump = "recv" /\ sent < Messages
    /\ sent' = sent + 1 /\ Go("write")
    /\ UNCHANGED <<linkVars, touchVars, serve, reader, base, arrivals, gone, answered>>

\* A synthetic method runs its helper on this goroutine, with a background context.
RecvGesture(k) ==
    /\ pump = "recv" /\ sent < Messages /\ k # "network"
    /\ sent' = sent + 1 /\ Go("gesture")
    /\ left' = [left EXCEPT ![Writer] = Script[k]]
    /\ UNCHANGED <<linkVars, finger, cancelled, alone, excuse, serve, reader, base, arrivals,
                   gone, answered>>

\* An unknown method, parameters that do not decode, or a coordinate, duration or
\* scale out of range.
RecvRefused ==
    /\ pump = "recv" /\ sent < Messages
    /\ sent' = sent + 1 /\ Go("reply")
    /\ UNCHANGED <<linkVars, touchVars, serve, reader, base, arrivals, gone, answered>>

\* The client hung up, or the teardown's deadline passed.
RecvError ==
    /\ pump = "recv" /\ Go("off")
    /\ UNCHANGED <<linkVars, touchVars, serve, reader, frameVars>>

\* Whether the helper succeeded or not the client has its reply.
GestureEnd ==
    /\ pump = "gesture" /\ ~InGesture(Writer) /\ Go("reply")
    /\ UNCHANGED <<linkVars, touchVars, serve, reader, frameVars>>

Reply ==
    /\ pump = "reply"
    /\ \/ answered' = answered \cup {sent} /\ Go("recv")
       \/ Go("off") /\ UNCHANGED answered
    /\ UNCHANGED <<linkVars, touchVars, serve, reader, base, sent, arrivals, gone>>

\* Mutant: a frame that was written is written once more after a reconnect.
Written_AndAgain == IF pump = "write" THEN Go("ensure") ELSE Go("recv")

Written == Go("recv")

\* The first failure leads to ensureReconnect unless Serve is ending, the second to
\* the end of Serve.
Unwritten == Go(IF pump = "write" /\ serve = "on" THEN "ensure" ELSE "off")

\* writeUpstream.
Write ==
    /\ pump \in {"write", "retry"}
    /\ \/ /\ Arrives /\ Written
          /\ arrivals' = [arrivals EXCEPT ![sent] = @ + 1]
          /\ UNCHANGED gone
       \/ /\ Swallowed /\ Written
          /\ gone' = gone \cup {sent}
          /\ UNCHANGED arrivals
       \/ Fails /\ Unwritten /\ UNCHANGED <<arrivals, gone>>
    /\ UNCHANGED <<linkVars, touchVars, serve, reader, base, sent, answered>>

\* ensureReconnect joins the cycle in flight or begins one, even on a connection
\* that the reader has made anew meanwhile.
Ensure ==
    /\ pump = "ensure" /\ Go("await")
    /\ \/ link = "recovering" /\ UNCHANGED <<link, socket, touchVars>>
       \/ Lose
    /\ UNCHANGED <<breaks, late, serve, reader, frameVars>>

(***************************************************************************)
(* The upstream.                                                           *)
(***************************************************************************)
\* The connection is lost; nobody has noticed yet.
Break ==
    /\ link = "up" /\ socket # "lost" /\ breaks < Breaks
    /\ socket' = "lost" /\ breaks' = breaks + 1
    /\ Disconnected
    /\ UNCHANGED <<link, late, serve, pump, reader, frameVars>>

\* The reader's read fails: the connection is lost, an earlier teardown has left its
\* deadline on it, or it was closed; it goes through a cycle.
ReaderLoses ==
    /\ serve = "on" /\ reader = "on"
    /\ socket # "live"
    /\ Lose
    /\ UNCHANGED <<breaks, late, serve, pump, reader, frameVars>>

\* The reader ends: its cycle has failed, there is no connection, or with Serve ending its
\* read fails or its wait for the gate is over ...
ReaderEnds ==
    /\ reader = "on" /\ reader' = "off"
    /\ \/ link = "down"
       \/ serve = "ending" /\ socket # "live"
    /\ UNCHANGED <<linkVars, touchVars, serve, pump, frameVars>>

\* ... or the client does not take what it reads.
ReaderUnheard ==
    /\ reader = "on" /\ reader' = "off"
    /\ UNCHANGED <<linkVars, touchVars, serve, pump, frameVars>>

\* The cycle ends, and wakes the writer if it waits.
Recover ==
    /\ link = "recovering" /\ link' = "up"
    /\ socket' = "live" /\ late' = (serve = "ending")
    /\ Go(IF pump = "await" THEN "retry" ELSE pump)
    /\ UNCHANGED <<breaks, touchVars, serve, reader, frameVars>>

GiveUp ==
    /\ link = "recovering" /\ link' = "down"
    /\ Go(IF pump = "await" THEN "off" ELSE pump)
    /\ UNCHANGED <<socket, breaks, late, touchVars, serve, reader, frameVars>>

\* Close takes the connection out, and closes it.
Close ==
    /\ link = "up" /\ link' = "down" /\ socket' = "lost"
    /\ Disconnected
    /\ UNCHANGED <<breaks, late, serve, pump, reader, frameVars>>

\* Mutant: only the client's end gets a deadline.
Deadline_Downstream == socket

Deadline == IF socket = "live" THEN "deadline" ELSE socket

\* errCh, p.closed or ctx.Done: the teardown sets the deadlines ...
ServeStop ==
    /\ serve = "on" /\ serve' = "ending"
    /\ socket' = Deadline
    /\ UNCHANGED <<link, breaks, late, touchVars, pump, reader, frameVars>>

\* ... and waits for both pumps.
ServeReturn ==
    /\ serve = "ending" /\ pump = "off" /\ reader = "off"
    /\ serve' = "none" /\ late' = FALSE
    /\ UNCHANGED <<link, socket, breaks, touchVars, pump, reader, frameVars>>

PumpStep == GestureEnd \/ Reply \/ Write \/ Ensure
LinkStep == Recover \/ GiveUp

Next ==
    \/ \E a \in Actors : GestureStep(a)
    \/ \E a \in Callers, k \in Kinds : Call(a, k)
    \/ \E a \in Callers : Cancel(a)
    \/ ServeBegin \/ RecvPlain \/ RecvRefused \/ RecvError
    \/ \E k \in Kinds : RecvGesture(k)
    \/ PumpStep \/ LinkStep
    \/ Break \/ Close
    \/ ReaderLoses \/ ReaderEnds \/ ReaderUnheard \/ ServeStop \/ ServeReturn

Ended == serve = "on" /\ (pump = "off" \/ reader = "off")

\* Sends and timers return, cycles end, a read past its deadline fails, and Serve goes on
\* when a pump has ended.
Fairness ==
    /\ \A a \in Actors : WF_vars(GestureStep(a))
    /\ WF_vars(PumpStep) /\ WF_vars(LinkStep)
    /\ WF_vars(serve = "ending" /\ RecvError) /\ WF_vars(serve = "ending" /\ ReaderEnds)
    /\ WF_vars(Ended /\ ServeStop) /\ WF_vars(ServeReturn)

Spec == Init /\ [][Next]_vars /\ Fairness

-----------------------------------------------------------------------------
TypeOK ==
    /\ link \in {"up", "recovering", "down"}
    /\ socket \in {"live", "deadline", "lost"} /\ breaks \in 0..Breaks /\ late \in BOOLEAN
    /\ finger \in {"up", "down"} /\ excuse \in BOOLEAN
    /\ left \in [Actors -> Seq(Frames \cup Pauses)]
    /\ cancelled \in SUBSET Callers /\ alone \in SUBSET Actors
    /\ serve \in {"none", "on", "ending"} /\ pump \in PumpAt /\ reader \in {"on", "off"}
    /\ base \in 0..Messages /\ sent \in base..Messages
    /\ DOMAIN arrivals = 1..Messages
    /\ gone \in SUBSET (1..Messages) /\ answered \in SUBSET (1..Messages)

\* A gesture that nothing disturbs, on one connection, holds the finger down from its
\* touchStart until it has nothing more to send: no move or end of it comes to a
\* finger that is up (Tap, LongPress, Swipe, Pinch).
HeldWhileAlone == alone # {} => finger = "down"

\* When no gesture is under way the finger is up, unless a send failed or went into a
\* lost connection since it was put down: a cancelled gesture lifts it too.
LiftedOrExcused == finger = "down" /\ (\A a \in Actors : ~InGesture(a)) => excuse

\* What the writer has in hand, and what becomes of it: the abstract specification.  A
\* frame that arrives a second time leaves the set of those delivered.
Hand == CASE pump = "off" -> "closed"
          [] pump = "recv" -> "empty"
          [] pump \in {"gesture", "reply"} -> "method"
          [] OTHER -> "frame"
Delivery == INSTANCE FrameDelivery WITH
    hand <- Hand, first <- base, last <- sent,
    delivered <- {n \in 1..Messages : arrivals[n] = 1}, swallowed <- gone

\* The writer implements it: a frame is replayed after ensureReconnect only if no
\* connection took it, a gesture's reply comes before the next frame is taken, and a frame
\* that met no fate ends its Serve.
ImplementsDelivery == Delivery!Spec

\* So every frame this Serve took before the one in hand has met one fate.
Accounted == Delivery!AllMet

\* The reader blocks on a connection that a cycle installed after the teardown had looked
\* for one to set a deadline on (ServeReturnsOrStranded of Proxy).
Stranded == pump = "off" /\ reader = "on" /\ link = "up" /\ late

\* A Serve that one pump has left, or that is being torn down, returns unless its reader is
\* stranded: whatever gesture or cycle the writer is in, Serve waits for it, for neither
\* sees its context.
TeardownEnds == Ended \/ serve = "ending" ~> serve = "none" \/ Stranded
=============================================================================
