------------------------------- MODULE Bridge -------------------------------
(***************************************************************************)
(* mobilebridge processes on one host: runBridge of cmd/mobilebridge, and  *)
(* under it a session: a free port (session.go), adb forward, NewProxy's   *)
(* connection through it (proxy.go), the public HTTP server (server.go),   *)
(* the screen recording, and taking them down again.  Processes share the  *)
(* ports of the host and the adb server, which maps a port to a device,    *)
(* replaces a mapping without complaint, and drops those of a device that  *)
(* is unplugged.                                                           *)
(*                                                                         *)
(* Done is closed by a reconnect cycle that gives up; the cycle is as in   *)
(* Proxy, seen from outside: it forwards, dials, and does not look whether *)
(* the proxy was closed meanwhile.                                         *)
(***************************************************************************)
EXTENDS Naturals, FiniteSets

CONSTANTS
    Bridges,        \* processes
    Ports,          \* what the kernel hands out for port 0
    Devices,
    NoPort, NoDevice,
    Named,          \* processes started with --device, and the device
    Device,
    AutoRestart,    \* processes started with --auto-restart
    Recorders,      \* processes started with --screenrecord
    Loose           \* bound: devices that are unplugged and plugged in again

ASSUME NamedAssumption == Named \subseteq Bridges /\ Device \in [Named -> Devices]
ASSUME NoneAssumption == NoPort \notin Ports /\ NoDevice \notin Devices \cup Bridges
ASSUME AutoRestartAssumption == AutoRestart \subseteq Bridges
ASSUME LooseAssumption == Loose \subseteq Devices

VARIABLES
    present,    \* devices that are ready and whose Chrome runs
    forwards,   \* the adb server's table: the device a port leads to
    pc, cause,  \* per process: where runBridge is, and why the session ends
    serial, port,
    link, peer, \* the proxy's upstream as in UpstreamLink, and the device it reaches
    done,       \* processes whose session.Done() is closed by a loss
    http,       \* does the public server listen
    cycle,      \* the session's reconnect cycle: idle, or what it does next
    orphans,    \* the cycles in flight that Close left behind, by port and device
    recording,  \* "no", "running", or "left" once its session is lost
    signalled,  \* processes with a signal on sigCh
    by,         \* history: per port, the process that made its mapping, until adb refuses
                \* to remove it or a cycle makes it again after Close
    shared      \* history: processes whose session shared its port with another

netVars == <<present, forwards, by>>
linkVars == <<link, peer, cycle>>
proxyVars == <<linkVars, done, orphans>>
loopVars == <<cause, serial, port, http, recording, signalled>>
vars == <<pc, netVars, proxyVars, loopVars, shared>>

StartAt == {"resolve", "probe", "socket", "forward", "connect", "undo", "listen"}
UpAt == {"record", "wait", "stoprecord"}
CloseAt == {"shutdown", "closeproxy", "unforward"}
RestAt == {"retry", "pause"}
EndAt == {"exit", "fatal"}
PcAt == StartAt \cup UpAt \cup CloseAt \cup RestAt \cup EndAt

Orphans == [port : Ports, serial : Devices]

Init ==
    /\ present = Devices
    /\ forwards = [p \in Ports |-> NoDevice] /\ by = [p \in Ports |-> NoDevice]
    /\ pc = [b \in Bridges |-> "resolve"] /\ cause = [b \in Bridges |-> "none"]
    /\ serial = [b \in Bridges |-> NoDevice] /\ port = [b \in Bridges |-> NoPort]
    /\ link = [b \in Bridges |-> "none"] /\ peer = [b \in Bridges |-> NoDevice]
    /\ done = {} /\ http = [b \in Bridges |-> FALSE]
    /\ cycle = [b \in Bridges |-> "idle"] /\ orphans = [b \in Bridges |-> {}]
    /\ recording = [b \in Bridges |-> "no"]
    /\ signalled = {} /\ shared = {}

Goto(b, l) == pc' = [pc EXCEPT ![b] = l]
Set(f, b, v) == [f EXCEPT ![b] = v]

\* A session of b has the port, or had it and a cycle of its own is still in flight.
Uses(b, p) == port[b] = p \/ \E o \in orphans[b] : o.port = p

\* The adb server listens on a port it maps.
Free(p) == forwards[p] = NoDevice

\* adb forward, which needs the device, replaces what is there.
AdbForward(b, p, d) ==
    /\ d \in present
    /\ forwards' = Set(forwards, p, d) /\ by' = Set(by, p, b)

\* runBridge goes to its next iteration or out: what the iteration declared is gone,
\* and with the process all its goroutines.
Leave(b, l) ==
    /\ Goto(b, l)
    /\ cause' = Set(cause, b, "none") /\ serial' = Set(serial, b, NoDevice)
    /\ port' = Set(port, b, NoPort)
    /\ done' = done \ {b} /\ shared' = shared \ {b}
    /\ orphans' = IF l \in EndAt THEN Set(orphans, b, {}) ELSE orphans

\* After a failed start: two seconds until the next attempt, or log.Fatalf.
Failure(b) == IF b \in AutoRestart THEN "retry" ELSE "fatal"

(***************************************************************************)
(* StartAttachedServer.                                                    *)
(***************************************************************************)
\* resolveSerial: --device as it is, or the only device that is ready.
Resolve(b) ==
    /\ pc[b] = "resolve"
    /\ \/ /\ \/ b \in Named /\ serial' = Set(serial, b, Device[b])
             \/ /\ b \notin Named
                /\ \E d \in present : present = {d} /\ serial' = Set(serial, b, d)
          /\ Goto(b, "probe")
          /\ UNCHANGED <<cause, port, done, orphans, shared>>
       \/ b \notin Named /\ Leave(b, "fatal")
    /\ UNCHANGED <<netVars, linkVars, http, recording, signalled>>

\* freeTCPPort listens on port 0 and closes the listener: the number is anybody's now.
Probe(b) ==
    /\ pc[b] = "probe"
    /\ recording' = Set(recording, b, "no")
    /\ \/ \E p \in Ports :
            /\ Free(p)
            /\ port' = Set(port, b, p)
            /\ shared' = LET users == {x \in Bridges : Uses(x, p)} IN
                         IF users = {} THEN shared ELSE shared \cup users \cup {b}
            /\ Goto(b, "socket")
            /\ UNCHANGED <<cause, serial, done, orphans>>
       \/ Leave(b, Failure(b))
    /\ UNCHANGED <<netVars, linkVars, http, signalled>>

\* ChromeDevtoolsSocket.
Socket(b) ==
    /\ pc[b] = "socket"
    /\ \/ /\ serial[b] \in present /\ Goto(b, "forward")
          /\ UNCHANGED <<cause, serial, port, done, orphans, shared>>
       \/ Leave(b, Failure(b))
    /\ UNCHANGED <<netVars, linkVars, http, recording, signalled>>

\* Mutant: adb is run without -s, and takes the only device there is.
Target_Only(b) == IF \E d \in Devices : present = {d} THEN CHOOSE d \in present : TRUE
                  ELSE serial[b]

\* adb -s.
Target(b) == serial[b]

\* Forward, in NewProxy.
Forward(b) ==
    /\ pc[b] = "forward"
    /\ \/ /\ AdbForward(b, port[b], Target(b)) /\ Goto(b, "connect")
          /\ UNCHANGED <<cause, serial, port, done, orphans, shared>>
       \/ /\ Leave(b, Failure(b))
          /\ UNCHANGED <<forwards, by>>
    /\ UNCHANGED <<present, linkVars, http, recording, signalled>>

\* fetchBrowserWebSocketURL and the dial reach whatever the port leads to.
Connect(b) ==
    /\ pc[b] = "connect"
    /\ \/ /\ forwards[port[b]] \in present
          /\ link' = Set(link, b, "up") /\ peer' = Set(peer, b, forwards[port[b]])
          /\ Goto(b, "listen")
       \/ Goto(b, "undo") /\ UNCHANGED <<link, peer>>
    /\ UNCHANGED <<netVars, cycle, done, orphans, loopVars, shared>>

\* Unforward removes the mapping of its port, whoever made it; its error is ignored.
Unforward(b) ==
    /\ by' = Set(by, port[b], NoDevice)
    /\ forwards' \in {forwards, Set(forwards, port[b], NoDevice)}

\* Mutant: NewProxy returns the error and leaves the forward.
Undo_LeavesForward(b) ==
    /\ pc[b] = "undo" /\ Leave(b, Failure(b))
    /\ UNCHANGED <<netVars, linkVars, http, recording, signalled>>

\* NewProxy's error paths after Forward.
Undo(b) ==
    /\ pc[b] = "undo" /\ Leave(b, Failure(b))
    /\ Unforward(b)
    /\ UNCHANGED <<present, linkVars, http, recording, signalled>>

\* Server.Start listens; when the port is taken the proxy is closed again.
Listen(b) ==
    /\ pc[b] = "listen"
    /\ \/ /\ ~http[b] /\ http' = Set(http, b, TRUE)
          /\ Goto(b, "record")
          /\ UNCHANGED cause
       \/ /\ cause' = Set(cause, b, "failed") /\ Goto(b, "closeproxy")
          /\ UNCHANGED http
    /\ UNCHANGED <<netVars, proxyVars, serial, port, recording, signalled, shared>>

(***************************************************************************)
(* The session is up.                                                      *)
(***************************************************************************)
\* StartScreenRecording, whose failure is only logged, with --screenrecord.
Record(b) ==
    /\ pc[b] = "record" /\ Goto(b, "wait")
    /\ \/ b \in Recorders /\ recording' = Set(recording, b, "running")
       \/ UNCHANGED recording
    /\ UNCHANGED <<netVars, proxyVars, cause, serial, port, http, signalled, shared>>

\* select { case <-sigCh; case <-session.Done() }
Wait(b) ==
    /\ pc[b] = "wait"
    /\ \/ /\ b \in signalled /\ cause' = Set(cause, b, "signal")
          /\ Goto(b, "stoprecord")
          /\ UNCHANGED recording
       \/ /\ b \in done /\ cause' = Set(cause, b, "lost")
          /\ recording' = Set(recording, b, IF recording[b] = "running" THEN "left" ELSE "no")
          /\ Goto(b, "shutdown")
    /\ UNCHANGED <<netVars, proxyVars, serial, port, http, signalled, shared>>

\* Mutant: the session is closed without stopping the recording.
StopRecord_Skipped(b) ==
    /\ pc[b] = "stoprecord" /\ Goto(b, "shutdown")
    /\ UNCHANGED <<netVars, proxyVars, loopVars, shared>>

\* StopScreenRecording kills the child; then the pull may fail.
StopRecord(b) ==
    /\ pc[b] = "stoprecord" /\ Goto(b, "shutdown")
    /\ recording' = Set(recording, b, "no")
    /\ UNCHANGED <<netVars, proxyVars, cause, serial, port, http, signalled, shared>>

(***************************************************************************)
(* AttachedServer.Close: the server, then the proxy.                       *)
(***************************************************************************)
\* Shutdown closes the listener, and waits three seconds at most for the requests.
Shutdown(b) ==
    /\ pc[b] = "shutdown" /\ Goto(b, "closeproxy")
    /\ http' = Set(http, b, FALSE)
    /\ UNCHANGED <<netVars, proxyVars, cause, serial, port, recording, signalled, shared>>

\* Proxy.Close takes the upstream out and leaves a cycle in flight to itself ...
CloseProxy(b) ==
    /\ pc[b] = "closeproxy" /\ Goto(b, "unforward")
    /\ link' = Set(link, b, "none") /\ peer' = Set(peer, b, NoDevice)
    /\ cycle' = Set(cycle, b, "idle")
    /\ orphans' = IF cycle[b] = "idle" THEN orphans
                  ELSE Set(orphans, b, orphans[b] \cup
                                       {[port |-> port[b], serial |-> serial[b]]})
    /\ UNCHANGED <<netVars, done, loopVars, shared>>

\* Mutant: a lost session ends the process, --auto-restart or not.
AfterLoss_Exits(b) == "exit"

AfterLoss(b) == IF b \in AutoRestart THEN "pause" ELSE "exit"

\* ... and then removes the forward.
CloseForward(b) ==
    /\ pc[b] = "unforward"
    /\ Unforward(b)
    /\ Leave(b, CASE cause[b] = "failed" -> Failure(b)
                  [] cause[b] = "lost" -> AfterLoss(b)
                  [] cause[b] = "signal" -> "exit")
    /\ UNCHANGED <<present, linkVars, http, recording, signalled>>

\* Mutant: the pause between two attempts does not listen to signals.
Again_Deaf(b) == "resolve"

\* Mutant: the next attempt keeps the device of the last.
Again_Unresolved(b) == IF b \in signalled THEN "exit" ELSE "probe"

\* select { case <-sigCh; case <-time.After(...) }
Again(b) == IF b \in signalled THEN "exit" ELSE "resolve"

Rest(b) ==
    /\ pc[b] \in {"retry", "pause"} /\ Leave(b, Again(b))
    /\ UNCHANGED <<netVars, linkVars, http, recording, signalled>>

(***************************************************************************)
(* The proxy's reconnect cycle.                                            *)
(***************************************************************************)
\* A pump notices the loss, or writes after a cycle gave up.
Lose(b) ==
    /\ link[b] \in {"up", "down"} /\ cycle' = Set(cycle, b, "forward")
    /\ link' = Set(link, b, "recovering") /\ peer' = Set(peer, b, NoDevice)
    /\ UNCHANGED <<pc, netVars, done, orphans, loopVars, shared>>

CycleForward(b) ==
    /\ cycle[b] = "forward" /\ cycle' = Set(cycle, b, "dial")
    /\ AdbForward(b, port[b], serial[b])
    /\ UNCHANGED <<pc, present, link, peer, done, orphans, loopVars, shared>>

\* Mutant: an attempt whose dial failed takes its forward down.
CycleDial_Unforwards(b) ==
    /\ cycle[b] = "dial" /\ cycle' = Set(cycle, b, "forward")
    /\ forwards' = Set(forwards, port[b], NoDevice) /\ by' = Set(by, port[b], NoDevice)
    /\ UNCHANGED <<pc, present, link, peer, done, orphans, loopVars, shared>>

\* The dial fails and the forward is made again, or the connection is installed.
CycleDial(b) ==
    /\ cycle[b] = "dial"
    /\ \/ cycle' = Set(cycle, b, "forward") /\ UNCHANGED <<link, peer>>
       \/ /\ forwards[port[b]] \in present /\ cycle' = Set(cycle, b, "idle")
          /\ link' = Set(link, b, "up") /\ peer' = Set(peer, b, forwards[port[b]])
    /\ UNCHANGED <<pc, netVars, done, orphans, loopVars, shared>>

CycleGiveUp(b) ==
    /\ cycle[b] = "forward" /\ cycle' = Set(cycle, b, "idle")
    /\ link' = Set(link, b, "down") /\ done' = done \cup {b}
    /\ UNCHANGED <<pc, netVars, peer, orphans, loopVars, shared>>

\* A cycle that Close left behind makes the forward again, once for each attempt ...
OrphanForward(b, o) ==
    /\ AdbForward(NoDevice, o.port, o.serial)
    /\ UNCHANGED <<pc, present, proxyVars, loopVars, shared>>

\* ... until it gives up, or dials and installs a connection that stays open.
OrphanEnds(b, o) ==
    /\ orphans' = Set(orphans, b, orphans[b] \ {o})
    /\ UNCHANGED <<pc, netVars, linkVars, done, loopVars, shared>>

(***************************************************************************)
(* The world.                                                              *)
(***************************************************************************)
Signal(b) ==
    /\ b \notin signalled /\ pc[b] \notin EndAt
    /\ signalled' = signalled \cup {b}
    /\ UNCHANGED <<pc, netVars, proxyVars, cause, serial, port, http, recording, shared>>

Unplug(d) ==
    /\ d \in present /\ present' = present \ {d}
    /\ forwards' = [p \in Ports |-> IF forwards[p] = d THEN NoDevice ELSE forwards[p]]
    /\ by' = [p \in Ports |-> IF forwards[p] = d THEN NoDevice ELSE by[p]]
    /\ UNCHANGED <<pc, proxyVars, loopVars, shared>>

Plug(d) ==
    /\ d \notin present /\ present' = present \cup {d}
    /\ UNCHANGED <<pc, forwards, by, proxyVars, loopVars, shared>>

LoopStep(b) ==
    \/ Resolve(b) \/ Probe(b) \/ Socket(b) \/ Forward(b) \/ Connect(b) \/ Undo(b)
    \/ Listen(b) \/ Record(b) \/ Wait(b) \/ StopRecord(b) \/ Shutdown(b) \/ CloseProxy(b)
    \/ CloseForward(b) \/ Rest(b)
CycleStep(b) ==
    \/ Lose(b) \/ CycleForward(b) \/ CycleDial(b) \/ CycleGiveUp(b)
    \/ \E o \in orphans[b] : OrphanForward(b, o) \/ OrphanEnds(b, o)

Next ==
    \/ \E b \in Bridges : LoopStep(b) \/ CycleStep(b) \/ Signal(b)
    \/ \E d \in Loose : Unplug(d) \/ Plug(d)

\* The calls of runBridge return, adb's included, and timers fire.
Fairness == \A b \in Bridges : WF_vars(LoopStep(b))

Spec == Init /\ [][Next]_vars /\ Fairness

-----------------------------------------------------------------------------
TypeOK ==
    /\ present \in SUBSET Devices
    /\ forwards \in [Ports -> Devices \cup {NoDevice}]
    /\ by \in [Ports -> Bridges \cup {NoDevice}]
    /\ pc \in [Bridges -> PcAt]
    /\ cause \in [Bridges -> {"none", "failed", "lost", "signal"}]
    /\ serial \in [Bridges -> Devices \cup {NoDevice}]
    /\ port \in [Bridges -> Ports \cup {NoPort}]
    /\ \A b \in Bridges :
         /\ serial[b] = NoDevice <=> pc[b] \in RestAt \cup EndAt \cup {"resolve"}
         /\ port[b] # NoPort => serial[b] # NoDevice
    /\ link \in [Bridges -> {"none", "up", "recovering", "down"}]
    /\ peer \in [Bridges -> Devices \cup {NoDevice}]
    /\ done \in SUBSET Bridges
    /\ http \in [Bridges -> BOOLEAN]
    /\ cycle \in [Bridges -> {"idle", "forward", "dial"}]
    /\ orphans \in [Bridges -> SUBSET Orphans]
    /\ recording \in [Bridges -> {"no", "running", "left"}]
    /\ signalled \in SUBSET Bridges /\ shared \in SUBSET Bridges

\* Between two attempts, and once it has ended, a process holds nothing of its last
\* session: no upstream, no public listener, and no adb mapping, unless adb refused to
\* remove it or a cycle made it again behind Close (the error paths of NewProxy and
\* StartAttachedServer, AttachedServer.Close).  One that a signal ended has stopped its
\* screen recording; a session that was lost leaves its own running.
ReleasedAtRest ==
    \A b \in Bridges : pc[b] \in RestAt \cup EndAt =>
        /\ link[b] = "none"
        /\ ~http[b]
        /\ \A p \in Ports : by[p] # b
        /\ pc[b] \in EndAt => recording[b] # "running"

\* The upstream of a session leads to the device it was started for, unless another
\* session had the same port at some time: freeTCPPort's number is free for others until
\* adb listens on it, and again after its device was unplugged.
OwnDevice == \A b \in Bridges : link[b] = "up" => peer[b] = serial[b] \/ b \in shared

\* A session that has its port to itself keeps the mapping to its device until it gives
\* the port up, whatever other processes and the cycles of any do to the adb server, unless
\* the device is unplugged (Forward and Unforward go by the port alone).
KeepsMapping(b) ==
    LET p == port[b] IN
    p # NoPort /\ port'[b] = p /\ forwards[p] = serial[b] /\ serial[b] \in present'
        => forwards'[p] = serial[b] \/ b \in shared
MappingKept == [][\A b \in Bridges : KeepsMapping(b)]_vars

\* A signal ends the process, from wherever the loop is.
SignalEnds == \A b \in Bridges : b \in signalled ~> pc[b] \in EndAt

\* With --auto-restart a session that is lost is followed by an attempt at the next,
\* unless a signal came, or --device was not given and there is not one device that is
\* ready: then the process exits, as when a cable is pulled.
LossRestarts ==
    \A b \in AutoRestart : (pc[b] = "wait" /\ b \in done) ~>
        (pc[b] = "probe" \/ b \in signalled \/ (b \notin Named /\ pc[b] = "fatal"))
=============================================================================
