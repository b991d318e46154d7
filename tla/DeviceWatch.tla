---------------------------- MODULE DeviceWatch ----------------------------
(***************************************************************************)
(* WatchDevices of pkg/mobilebridge/devices.go: a goroutine that polls adb *)
(* devices, compares the list with the one it knows and sends an event for *)
(* each difference on a bounded channel, and a caller that reads it (the   *)
(* goroutine of WatchDeviceChanges, or the watch subcommand).              *)
(*                                                                         *)
(* known is updated before the event is sent, the send may wait for the    *)
(* caller, and the context may be cancelled at any of these points.        *)
(***************************************************************************)
EXTENDS Naturals, Sequences

CONSTANTS
    Devices,        \* serials
    States,         \* what adb devices says of one: "device", "offline", ...
    Gone,           \* not listed
    Capacity,       \* of the channel: 16 in the code
    MaxChanges      \* bound: how often the attached devices change

ASSUME GoneAssumption == Gone \notin States
ASSUME CapacityAssumption == Capacity \in Nat \ {0}
ASSUME MaxChangesAssumption == MaxChanges \in Nat

VARIABLES
    attached,       \* what adb devices would list now
    changes,        \* bound: changes of it so far
    known, list,    \* the goroutine's map, and the list of the tick
    at,             \* "wait", "scan" (the listed ones), "sweep" (the others), "ended"
    todo,           \* devices the loop has still to visit
    outbox,         \* events of the visited device that are not sent yet
    out,            \* the channel
    cancelled,      \* ctx is done
    view, reading   \* the caller: the events applied so far; whether it still reads

scanVars == <<known, list, at, todo, outbox>>
vars == <<attached, changes, scanVars, out, cancelled, view, reading>>

Nothing == [d \in Devices |-> Gone]
Listed(l) == {d \in Devices : l[d] # Gone}

Added(d, s) == [type |-> "added", device |-> d, state |-> s]
Removed(d, s) == [type |-> "removed", device |-> d, state |-> s]
Events == [type : {"added", "removed"}, device : Devices, state : States]

Init ==
    /\ attached \in [Devices -> States \cup {Gone}] /\ changes = 0
    /\ known = Nothing /\ list = Nothing
    /\ at = "wait" /\ todo = {} /\ outbox = << >> /\ out = << >>
    /\ cancelled = FALSE
    /\ view = Nothing /\ reading = TRUE

\* A tick whose adb call works; one that fails changes nothing, and with the context
\* cancelled every one fails.
Tick ==
    /\ at = "wait" /\ ~cancelled
    /\ list' = attached
    /\ at' = "scan" /\ todo' = Listed(attached)
    /\ UNCHANGED <<attached, changes, known, outbox, out, cancelled, view, reading>>

\* Mutant: only devices that come and go are told.
Differences_NoState(d) == IF known[d] = Gone THEN <<Added(d, list[d])>> ELSE << >>

\* Mutant: a change of state is told as an arrival.
Differences_AddedOnly(d) ==
    IF known[d] # list[d] THEN <<Added(d, list[d])>> ELSE << >>

\* A listed device: new, of another state ("treat as remove+add"), or as before.
Differences(d) ==
    CASE known[d] = Gone -> <<Added(d, list[d])>>
      [] known[d] \notin {Gone, list[d]} -> <<Removed(d, known[d]), Added(d, list[d])>>
      [] OTHER -> << >>

Scan(d) ==
    /\ at = "scan" /\ outbox = << >> /\ d \in todo
    /\ todo' = todo \ {d}
    /\ outbox' = Differences(d)
    /\ known' = [known EXCEPT ![d] = list[d]]
    /\ UNCHANGED <<attached, changes, list, at, out, cancelled, view, reading>>

ScanEnd ==
    /\ at = "scan" /\ outbox = << >> /\ todo = {}
    /\ at' = "sweep" /\ todo' = Listed(known) \ Listed(list)
    /\ UNCHANGED <<attached, changes, known, list, outbox, out, cancelled, view, reading>>

\* Mutant: what left stays in the map.
Drop_Keeps(d) == UNCHANGED known

Drop(d) == known' = [known EXCEPT ![d] = Gone]

Sweep(d) ==
    /\ at = "sweep" /\ outbox = << >> /\ d \in todo
    /\ todo' = todo \ {d}
    /\ outbox' = <<Removed(d, known[d])>>
    /\ Drop(d)
    /\ UNCHANGED <<attached, changes, list, at, out, cancelled, view, reading>>

SweepEnd ==
    /\ at = "sweep" /\ outbox = << >> /\ todo = {}
    /\ at' = "wait"
    /\ UNCHANGED <<attached, changes, known, list, todo, outbox, out, cancelled, view, reading>>

\* Mutant: the send does not wait for the caller.
HasSpace_Always == TRUE

HasSpace == Len(out) < Capacity

Send ==
    /\ outbox # << >> /\ HasSpace
    /\ out' = Append(out, Head(outbox)) /\ outbox' = Tail(outbox)
    /\ UNCHANGED <<attached, changes, known, list, at, todo, cancelled, view, reading>>

\* Mutant: a plain send, outside a select.
Abandons_Never == FALSE

\* The select's other case: the tick ends, its events unsent.
Abandons == outbox # << >> /\ cancelled

Abandon ==
    /\ Abandons
    /\ at' = "wait" /\ todo' = {} /\ outbox' = << >>
    /\ UNCHANGED <<attached, changes, known, list, out, cancelled, view, reading>>

End ==
    /\ at = "wait" /\ cancelled
    /\ at' = "ended"
    /\ UNCHANGED <<attached, changes, known, list, todo, outbox, out, cancelled, view, reading>>

\* What an event says of its device.
Says(e) == IF e.type = "added" THEN e.state ELSE Gone

Apply(v, e) == [v EXCEPT ![e.device] = Says(e)]

Receive ==
    /\ reading /\ out # << >>
    /\ view' = Apply(view, Head(out)) /\ out' = Tail(out)
    /\ UNCHANGED <<attached, changes, scanVars, cancelled, reading>>

\* The world: the devices change, the caller cancels, or stops reading.
Hotplug(d, s) ==
    /\ attached[d] # s /\ changes < MaxChanges
    /\ attached' = [attached EXCEPT ![d] = s] /\ changes' = changes + 1
    /\ UNCHANGED <<scanVars, out, cancelled, view, reading>>

Cancel ==
    /\ ~cancelled /\ cancelled' = TRUE
    /\ UNCHANGED <<attached, changes, scanVars, out, view, reading>>

StopReading ==
    /\ reading /\ reading' = FALSE
    /\ UNCHANGED <<attached, changes, scanVars, out, cancelled, view>>

Visit == \E d \in Devices : Scan(d) \/ Sweep(d)
Watcher == Tick \/ Visit \/ ScanEnd \/ SweepEnd \/ Send \/ Abandon \/ End

Next ==
    \/ Watcher \/ Receive \/ Cancel \/ StopReading
    \/ \E d \in Devices, s \in States \cup {Gone} : Hotplug(d, s)

Spec == Init /\ [][Next]_vars

\* The ticker keeps ticking and adb answers now and then; a caller that reads, reads on.
FairSpec == Spec /\ WF_vars(Watcher) /\ WF_vars(Receive)

-----------------------------------------------------------------------------
TypeOK ==
    /\ attached \in [Devices -> States \cup {Gone}] /\ changes \in 0..MaxChanges
    /\ known \in [Devices -> States \cup {Gone}]
    /\ list \in [Devices -> States \cup {Gone}]
    /\ at \in {"wait", "scan", "sweep", "ended"} /\ todo \in SUBSET Devices
    /\ outbox \in Seq(Events) /\ Len(outbox) <= 2
    /\ out \in Seq(Events) /\ Len(out) <= Capacity
    /\ cancelled \in BOOLEAN /\ reading \in BOOLEAN
    /\ view \in [Devices -> States \cup {Gone}]

\* Applied to view v, the events of q leave device d in state s: the last one about it
\* says so, or there is none and v had it.
Leaves(q, v, d, s) ==
    \/ s = v[d] /\ \A i \in 1..Len(q) : q[i].device # d
    \/ \E i \in 1..Len(q) :
         /\ q[i].device = d /\ s = Says(q[i])
         /\ \A j \in (i + 1)..Len(q) : q[j].device # d

\* Nothing is lost on the way: what is in the channel and what waits to be sent leave the
\* caller with what the goroutine knows, of every device.  Only a cancelled context drops
\* events.
Accounted == cancelled \/ \A d \in Devices : Leaves(out \o outbox, view, d, known[d])

\* The caller's account implements the abstract one: a device it sees come had gone,
\* also when its state changed while earlier events were still in the channel.
View == INSTANCE DeviceView
ImplementsView == View!Spec

\* Once the devices stop changing, a caller that reads on sees what is attached,
\* however many changes one tick had to report through the full channel.
Settles == []<>(cancelled \/ ~reading \/ view = attached)

\* A cancelled watcher ends, also when nobody reads its channel any more.
Ends == cancelled ~> at = "ended"
=============================================================================
