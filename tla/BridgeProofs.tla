---------------------------- MODULE BridgeProofs ----------------------------
(***************************************************************************)
(* Proofs about Bridge, for any number of processes, ports and devices,    *)
(* whatever options the processes are started with.                        *)
(***************************************************************************)
EXTENDS Bridge, TLAPS

\* A session has a port from Probe to CloseForward, and a cause once it ends.
PortAt == {"socket", "forward", "connect", "undo", "listen"} \cup UpAt \cup CloseAt
Sessions ==
    \A b \in Bridges :
        /\ port[b] # NoPort <=> pc[b] \in PortAt
        /\ pc[b] \in CloseAt \cup {"stoprecord"} => cause[b] # "none"

\* What it holds, and until when.
LinkAt == {"listen", "shutdown", "closeproxy"} \cup UpAt
Holdings ==
    \A b \in Bridges :
        /\ link[b] # "none" => pc[b] \in LinkAt
        /\ http[b] => pc[b] \in UpAt \cup {"shutdown"}
        /\ recording[b] = "running" => pc[b] \in {"wait", "stoprecord"}
        /\ \A p \in Ports : by[p] = b =>
              p = port[b] /\ pc[b] \in PortAt \ {"socket", "forward"}

\* A cycle runs while the upstream is out, and not longer.
Cycles == \A b \in Bridges : link[b] = "recovering" <=> cycle[b] # "idle"

\* A session that never shared its port has it alone, and it leads to its device.
Alone(b) == port[b] # NoPort /\ b \notin shared
Exclusive ==
    \A b \in Bridges : Alone(b) =>
        /\ \A x \in Bridges \ {b} : ~Uses(x, port[b])
        /\ \A o \in orphans[b] : o.port = port[b] => o.serial = serial[b]
Mapped == \A b \in Bridges : Alone(b) => forwards[port[b]] \in {serial[b], NoDevice}

IInv == TypeOK /\ Sessions /\ Holdings /\ Cycles /\ Exclusive /\ Mapped /\ OwnDevice

-----------------------------------------------------------------------------
\* The parts of TypeOK.
NetTypes ==
    /\ present \in SUBSET Devices
    /\ forwards \in [Ports -> Devices \cup {NoDevice}]
    /\ by \in [Ports -> Bridges \cup {NoDevice}]
LoopTypes ==
    /\ pc \in [Bridges -> PcAt]
    /\ cause \in [Bridges -> {"none", "failed", "lost", "signal"}]
    /\ serial \in [Bridges -> Devices \cup {NoDevice}]
    /\ port \in [Bridges -> Ports \cup {NoPort}]
    /\ \A b \in Bridges :
         /\ serial[b] = NoDevice <=> pc[b] \in RestAt \cup EndAt \cup {"resolve"}
         /\ port[b] # NoPort => serial[b] # NoDevice
LinkTypes ==
    /\ link \in [Bridges -> {"none", "up", "recovering", "down"}]
    /\ peer \in [Bridges -> Devices \cup {NoDevice}]
    /\ done \in SUBSET Bridges
    /\ http \in [Bridges -> BOOLEAN]
    /\ recording \in [Bridges -> {"no", "running", "left"}]
    /\ signalled \in SUBSET Bridges /\ shared \in SUBSET Bridges
CycleTypes ==
    /\ cycle \in [Bridges -> {"idle", "forward", "dial"}]
    /\ orphans \in [Bridges -> SUBSET Orphans]

LEMMA Parts == TypeOK <=> NetTypes /\ LoopTypes /\ LinkTypes /\ CycleTypes
    BY DEF TypeOK, NetTypes, LoopTypes, LinkTypes, CycleTypes

\* Where an iteration goes when it is over.
LEMMA Ways ==
    \A b \in Bridges :
        /\ Failure(b) \in RestAt \cup EndAt
        /\ AfterLoss(b) \in RestAt \cup EndAt
        /\ Again(b) \in EndAt \cup {"resolve"}
    BY DEF Failure, AfterLoss, Again, RestAt, EndAt

\* The end of an iteration lets go of its port, and leaves its cycles to themselves.
LEMMA LeaveKeeps ==
    ASSUME IInv, NEW b \in Bridges, NEW l \in RestAt \cup EndAt \cup {"resolve"}, Leave(b, l),
           pc[b] \notin LinkAt, UNCHANGED linkVars
    PROVE  LoopTypes' /\ CycleTypes' /\ done' \in SUBSET Bridges /\ shared' \in SUBSET Bridges
           /\ Sessions' /\ Cycles' /\ Exclusive' /\ OwnDevice'
    <1> USE NoneAssumption DEF Leave, Goto, Set, linkVars
    <1>1. /\ NetTypes /\ LoopTypes /\ LinkTypes /\ CycleTypes
          /\ Sessions /\ Holdings /\ Cycles /\ Exclusive /\ OwnDevice
        BY Parts DEF IInv
    <1>2. /\ pc' = [pc EXCEPT ![b] = l] /\ l \in PcAt /\ l \notin PortAt \cup LinkAt
          /\ l \notin CloseAt \cup {"stoprecord"}
          /\ port' = [port EXCEPT ![b] = NoPort] /\ serial' = [serial EXCEPT ![b] = NoDevice]
          /\ done' = done \ {b} /\ shared' = shared \ {b}
        BY DEF PcAt, RestAt, EndAt, StartAt, PortAt, LinkAt, UpAt, CloseAt
    <1>3. LoopTypes'
        BY <1>1, <1>2 DEF LoopTypes
    <1>4. \A x \in Bridges : orphans'[x] \subseteq orphans[x]
        BY <1>1 DEF CycleTypes
    <1>5. CycleTypes'
        BY <1>1 DEF CycleTypes
    <1>6. Sessions'
        BY <1>1, <1>2 DEF LoopTypes, Sessions
    <1>7. link[b] = "none"
        BY <1>1 DEF Holdings
    <1>8. Cycles'
        BY <1>1 DEF Cycles
    <1>9. Exclusive'
        <2>1. ASSUME NEW x \in Bridges, Alone(x)'
              PROVE  x # b /\ Alone(x) /\ port'[x] = port[x] /\ serial'[x] = serial[x]
            BY <1>1, <1>2, <2>1 DEF Alone, LoopTypes
        <2>2. ASSUME NEW x \in Bridges, NEW p \in Ports, Uses(x, p)' PROVE Uses(x, p)
            BY <1>1, <1>2, <1>4, <2>2 DEF Uses, LoopTypes
        <2>3. \A x \in Bridges : Alone(x) => port[x] \in Ports
            BY <1>1 DEF Alone, LoopTypes
        <2>4. ASSUME NEW x \in Bridges, Alone(x)', NEW y \in Bridges \ {x}
              PROVE  ~Uses(y, port[x])'
            BY <1>1, <2>1, <2>2, <2>3, <2>4 DEF Exclusive, Uses
        <2>5. ASSUME NEW x \in Bridges, Alone(x)', NEW o \in orphans'[x],
                     o.port = port'[x]
              PROVE  o.serial = serial'[x]
            BY <1>1, <1>4, <2>1, <2>5 DEF Exclusive
        <2> QED BY <2>4, <2>5 DEF Exclusive
    <1>10. OwnDevice'
        BY <1>1, <1>2, <1>7 DEF OwnDevice, LoopTypes
    <1> QED BY <1>1, <1>2, <1>3, <1>5, <1>6, <1>8, <1>9, <1>10 DEF LinkTypes

\* Where an iteration is over, or has not begun.
Out == RestAt \cup EndAt \cup {"resolve"}

\* A step within an iteration keeps its types.
LEMMA WithinTypes ==
    ASSUME LoopTypes, NEW b \in Bridges, NEW l \in PcAt \ Out, pc[b] \notin Out,
           Goto(b, l), UNCHANGED <<serial, port>>,
           cause' \in [Bridges -> {"none", "failed", "lost", "signal"}]
    PROVE  LoopTypes'
    BY DEF LoopTypes, Goto, Out

\* CloseForward ends an iteration, for one of the reasons there are.
LEMMA CloseForwardLeaves ==
    ASSUME IInv, NEW b \in Bridges, CloseForward(b)
    PROVE  LoopTypes' /\ CycleTypes' /\ Cycles' /\ Exclusive' /\ OwnDevice'
    <1>1. pc[b] = "unforward" /\ UNCHANGED linkVars
        BY DEF CloseForward
    <1>2. cause[b] \in {"failed", "lost", "signal"}
        BY <1>1 DEF IInv, TypeOK, Sessions, CloseAt
    <1>3. "exit" \in EndAt
        BY DEF EndAt
    <1>4. CASE cause[b] = "failed"
        <2>1. Leave(b, Failure(b))
            BY <1>4 DEF CloseForward
        <2> QED BY <1>1, <2>1, Ways, LeaveKeeps DEF LinkAt, UpAt
    <1>5. CASE cause[b] = "lost"
        <2>1. Leave(b, AfterLoss(b))
            BY <1>5 DEF CloseForward
        <2> QED BY <1>1, <2>1, Ways, LeaveKeeps DEF LinkAt, UpAt
    <1>6. CASE cause[b] = "signal"
        <2>1. Leave(b, "exit")
            BY <1>6 DEF CloseForward
        <2> QED BY <1>1, <1>3, <2>1, LeaveKeeps DEF LinkAt, UpAt
    <1> QED BY <1>2, <1>4, <1>5, <1>6

\* What Probe does when it finds a port.
LEMMA ProbeFinds ==
    ASSUME NEW b \in Bridges, Probe(b), ~\E l \in RestAt \cup EndAt : Leave(b, l)
    PROVE  \E p \in Ports :
               /\ port' = [port EXCEPT ![b] = p] /\ pc' = [pc EXCEPT ![b] = "socket"]
               /\ shared \subseteq shared'
               /\ (\E x \in Bridges : Uses(x, p)) => b \in shared'
               /\ \A x \in Bridges : Uses(x, p) => x \in shared'
               /\ UNCHANGED <<cause, serial, done, orphans, linkVars>>
    <1>1. PICK p \in Ports :
            /\ port' = Set(port, b, p)
            /\ shared' = LET users == {x \in Bridges : Uses(x, p)} IN
                         IF users = {} THEN shared ELSE shared \cup users \cup {b}
            /\ Goto(b, "socket")
            /\ UNCHANGED <<cause, serial, done, orphans>>
        BY Ways DEF Probe
    <1> WITNESS p \in Ports
    <1> QED BY <1>1 DEF Probe, Set, Goto, proxyVars

\* Every step keeps the types of the adb server.
LEMMA NetKept == IInv /\ Next => NetTypes'
    <1> USE NamedAssumption, NoneAssumption, AutoRestartAssumption
        DEF IInv, Goto, Set, netVars, linkVars, proxyVars, loopVars,
            PcAt, StartAt, UpAt, CloseAt, RestAt, EndAt,
            TypeOK, NetTypes, Sessions, PortAt, Holdings, LinkAt, Cycles, Orphans
    <1> SUFFICES ASSUME IInv, Next PROVE NetTypes'
        OBVIOUS
    <1>1. ASSUME NEW b \in Bridges, Resolve(b) PROVE NetTypes'
        BY <1>1 DEF Resolve, Leave
    <1>2. ASSUME NEW b \in Bridges, Probe(b) PROVE NetTypes'
        BY <1>2 DEF Probe, Leave, Free, Failure
    <1>3. ASSUME NEW b \in Bridges, Socket(b) PROVE NetTypes'
        BY <1>3 DEF Socket, Leave, Failure
    <1>4. ASSUME NEW b \in Bridges, Forward(b) PROVE NetTypes'
        <2>1. CASE UNCHANGED <<present, forwards, by>>
            BY <2>1
        <2>2. CASE AdbForward(b, port[b], serial[b]) /\ present' = present
            <3>1. port[b] \in Ports /\ serial[b] \in Devices
                BY <1>4 DEF Forward
            <3> QED BY <2>2, <3>1 DEF AdbForward
        <2> QED BY <1>4, <2>1, <2>2 DEF Forward, Target
    <1>5. ASSUME NEW b \in Bridges, Connect(b) PROVE NetTypes'
        BY <1>5 DEF Connect
    <1>6. ASSUME NEW b \in Bridges, Undo(b) PROVE NetTypes'
        BY <1>6 DEF Undo, Unforward
    <1>7. ASSUME NEW b \in Bridges, Listen(b) PROVE NetTypes'
        BY <1>7 DEF Listen
    <1>8. ASSUME NEW b \in Bridges, Record(b) PROVE NetTypes'
        BY <1>8 DEF Record
    <1>9. ASSUME NEW b \in Bridges, Wait(b) PROVE NetTypes'
        BY <1>9 DEF Wait
    <1>10. ASSUME NEW b \in Bridges, StopRecord(b) PROVE NetTypes'
        BY <1>10 DEF StopRecord
    <1>11. ASSUME NEW b \in Bridges, Shutdown(b) PROVE NetTypes'
        BY <1>11 DEF Shutdown
    <1>12. ASSUME NEW b \in Bridges, CloseProxy(b) PROVE NetTypes'
        BY <1>12 DEF CloseProxy
    <1>13. ASSUME NEW b \in Bridges, CloseForward(b) PROVE NetTypes'
        BY <1>13 DEF CloseForward, Leave, Unforward, AfterLoss, Failure
    <1>14. ASSUME NEW b \in Bridges, Rest(b) PROVE NetTypes'
        BY <1>14 DEF Rest, Leave, Again
    <1>15. ASSUME NEW b \in Bridges, CycleForward(b) PROVE NetTypes'
        BY <1>15 DEF CycleForward, AdbForward
    <1>16. ASSUME NEW b \in Bridges, CycleDial(b) PROVE NetTypes'
        BY <1>16 DEF CycleDial
    <1>17. ASSUME NEW b \in Bridges, CycleGiveUp(b) PROVE NetTypes'
        BY <1>17 DEF CycleGiveUp
    <1>18. ASSUME NEW b \in Bridges, Lose(b) PROVE NetTypes'
        BY <1>18 DEF Lose
    <1>19. ASSUME NEW b \in Bridges, Signal(b) PROVE NetTypes'
        BY <1>19 DEF Signal
    <1>20. ASSUME NEW d \in Devices, Unplug(d) PROVE NetTypes'
        BY <1>20 DEF Unplug
    <1>21. ASSUME NEW d \in Devices, Plug(d) PROVE NetTypes'
        BY <1>21 DEF Plug
    <1>22. ASSUME NEW b \in Bridges, NEW o \in orphans[b], OrphanForward(b, o) PROVE NetTypes'
        BY <1>22 DEF OrphanForward, AdbForward
    <1>23. ASSUME NEW b \in Bridges, NEW o \in orphans[b], OrphanEnds(b, o) PROVE NetTypes'
        BY <1>23 DEF OrphanEnds
    <1> QED
        BY <1>1, <1>2, <1>3, <1>4, <1>5, <1>6, <1>7, <1>8, <1>9, <1>10, <1>11,
           <1>12, <1>13, <1>14, <1>15, <1>16, <1>17, <1>18, <1>19, <1>20, <1>21,
           <1>22, <1>23, LooseAssumption
        DEF Next, LoopStep, CycleStep

\* Every step keeps the types of the loop.
LEMMA LoopKept == IInv /\ Next => LoopTypes'
    <1> USE NamedAssumption, NoneAssumption, AutoRestartAssumption
        DEF IInv, Goto, Set, netVars, linkVars, proxyVars, loopVars,
            PcAt, StartAt, UpAt, CloseAt, RestAt, EndAt,
            TypeOK, LoopTypes, Sessions, PortAt, LinkAt, Out
    <1> SUFFICES ASSUME IInv, Next PROVE LoopTypes'
        OBVIOUS
    <1>1. ASSUME NEW b \in Bridges, Resolve(b) PROVE LoopTypes'
        <2>1. CASE \E l \in RestAt \cup EndAt : Leave(b, l)
            BY <1>1, <2>1, LeaveKeeps DEF Resolve
        <2>2. CASE ~\E l \in RestAt \cup EndAt : Leave(b, l)
            <3>1. PICK d \in Devices : serial' = [serial EXCEPT ![b] = d] /\ Goto(b, "probe")
                                       /\ UNCHANGED <<cause, port>> /\ pc[b] = "resolve"
                BY <1>1, <2>2 DEF Resolve
            <3> QED BY <3>1
        <2> QED BY <2>1, <2>2
    <1>2. ASSUME NEW b \in Bridges, Probe(b) PROVE LoopTypes'
        <2>1. CASE \E l \in RestAt \cup EndAt : Leave(b, l)
            BY <1>2, <2>1, LeaveKeeps DEF Probe
        <2>2. CASE ~\E l \in RestAt \cup EndAt : Leave(b, l)
            <3>1. PICK p \in Ports : port' = [port EXCEPT ![b] = p]
                                    /\ pc' = [pc EXCEPT ![b] = "socket"]
                                    /\ UNCHANGED <<cause, serial>>
                BY <1>2, <2>2, ProbeFinds
            <3>2. pc[b] = "probe"
                BY <1>2 DEF Probe
            <3> QED BY <3>1, <3>2
        <2> QED BY <2>1, <2>2
    <1>3. ASSUME NEW b \in Bridges, Socket(b) PROVE LoopTypes'
        <2>1. CASE \E l \in RestAt \cup EndAt : Leave(b, l)
            BY <1>3, <2>1, LeaveKeeps DEF Socket
        <2>2. CASE ~\E l \in RestAt \cup EndAt : Leave(b, l)
            <3>1. pc[b] = "socket" /\ Goto(b, "forward") /\ UNCHANGED <<cause, serial, port>>
                BY <1>3, <2>2, Ways DEF Socket
            <3> QED BY <3>1, WithinTypes
        <2> QED BY <2>1, <2>2
    <1>4. ASSUME NEW b \in Bridges, Forward(b) PROVE LoopTypes'
        <2>1. CASE \E l \in RestAt \cup EndAt : Leave(b, l)
            BY <1>4, <2>1, LeaveKeeps DEF Forward
        <2>2. CASE ~\E l \in RestAt \cup EndAt : Leave(b, l)
            <3>1. pc[b] = "forward" /\ Goto(b, "connect") /\ UNCHANGED <<cause, serial, port>>
                BY <1>4, <2>2, Ways DEF Forward
            <3> QED BY <3>1, WithinTypes
        <2> QED BY <2>1, <2>2
    <1>5. ASSUME NEW b \in Bridges, Connect(b) PROVE LoopTypes'
        <2>1. pc[b] = "connect" /\ (Goto(b, "listen") \/ Goto(b, "undo"))
              /\ UNCHANGED <<cause, serial, port>>
            BY <1>5 DEF Connect
        <2>2. cause' \in [Bridges -> {"none", "failed", "lost", "signal"}]
            BY <2>1
        <2>3. CASE Goto(b, "listen")
            BY <2>1, <2>2, <2>3, WithinTypes
        <2>4. CASE Goto(b, "undo")
            BY <2>1, <2>2, <2>4, WithinTypes
        <2> QED BY <2>1, <2>3, <2>4
    <1>6. ASSUME NEW b \in Bridges, Undo(b) PROVE LoopTypes'
        BY <1>6, LeaveKeeps, Ways DEF Undo
    <1>7. ASSUME NEW b \in Bridges, Listen(b) PROVE LoopTypes'
        <2>1. pc[b] = "listen" /\ (Goto(b, "record") \/ Goto(b, "closeproxy"))
              /\ UNCHANGED <<serial, port>>
            BY <1>7 DEF Listen
        <2>2. cause' = cause \/ cause' = [cause EXCEPT ![b] = "failed"]
            BY <1>7 DEF Listen
        <2>3. cause' \in [Bridges -> {"none", "failed", "lost", "signal"}]
            BY <2>2
        <2>4. CASE Goto(b, "record")
            BY <2>1, <2>3, <2>4, WithinTypes
        <2>5. CASE Goto(b, "closeproxy")
            BY <2>1, <2>3, <2>5, WithinTypes
        <2> QED BY <2>1, <2>4, <2>5
    <1>8. ASSUME NEW b \in Bridges, Record(b) PROVE LoopTypes'
        BY <1>8 DEF Record
    <1>9. ASSUME NEW b \in Bridges, Wait(b) PROVE LoopTypes'
        <2>1. pc[b] = "wait" /\ (Goto(b, "stoprecord") \/ Goto(b, "shutdown"))
              /\ UNCHANGED <<serial, port>>
            BY <1>9 DEF Wait
        <2>2. cause' = [cause EXCEPT ![b] = "signal"] \/ cause' = [cause EXCEPT ![b] = "lost"]
            BY <1>9 DEF Wait
        <2>3. cause' \in [Bridges -> {"none", "failed", "lost", "signal"}]
            BY <2>2
        <2>4. CASE Goto(b, "stoprecord")
            BY <2>1, <2>3, <2>4, WithinTypes
        <2>5. CASE Goto(b, "shutdown")
            BY <2>1, <2>3, <2>5, WithinTypes
        <2> QED BY <2>1, <2>4, <2>5
    <1>10. ASSUME NEW b \in Bridges, StopRecord(b) PROVE LoopTypes'
        BY <1>10 DEF StopRecord
    <1>11. ASSUME NEW b \in Bridges, Shutdown(b) PROVE LoopTypes'
        BY <1>11 DEF Shutdown
    <1>12. ASSUME NEW b \in Bridges, CloseProxy(b) PROVE LoopTypes'
        BY <1>12 DEF CloseProxy
    <1>13. ASSUME NEW b \in Bridges, CloseForward(b) PROVE LoopTypes'
        BY <1>13, CloseForwardLeaves
    <1>14. ASSUME NEW b \in Bridges, Rest(b) PROVE LoopTypes'
        BY <1>14, LeaveKeeps, Ways DEF Rest
    <1>15. ASSUME NEW b \in Bridges, CycleForward(b) PROVE LoopTypes'
        BY <1>15 DEF CycleForward, AdbForward
    <1>16. ASSUME NEW b \in Bridges, CycleDial(b) PROVE LoopTypes'
        BY <1>16 DEF CycleDial
    <1>17. ASSUME NEW b \in Bridges, CycleGiveUp(b) PROVE LoopTypes'
        BY <1>17 DEF CycleGiveUp
    <1>18. ASSUME NEW b \in Bridges, Lose(b) PROVE LoopTypes'
        BY <1>18 DEF Lose
    <1>19. ASSUME NEW b \in Bridges, Signal(b) PROVE LoopTypes'
        BY <1>19 DEF Signal
    <1>20. ASSUME NEW d \in Devices, Unplug(d) PROVE LoopTypes'
        BY <1>20 DEF Unplug
    <1>21. ASSUME NEW d \in Devices, Plug(d) PROVE LoopTypes'
        BY <1>21 DEF Plug
    <1>22. ASSUME NEW b \in Bridges, NEW o \in orphans[b], OrphanForward(b, o) PROVE LoopTypes'
        BY <1>22 DEF OrphanForward, AdbForward
    <1>23. ASSUME NEW b \in Bridges, NEW o \in orphans[b], OrphanEnds(b, o) PROVE LoopTypes'
        BY <1>23 DEF OrphanEnds
    <1> QED
        BY <1>1, <1>2, <1>3, <1>4, <1>5, <1>6, <1>7, <1>8, <1>9, <1>10, <1>11,
           <1>12, <1>13, <1>14, <1>15, <1>16, <1>17, <1>18, <1>19, <1>20, <1>21,
           <1>22, <1>23, LooseAssumption
        DEF Next, LoopStep, CycleStep

\* Every step keeps the types of the session.
LEMMA LinkKept == IInv /\ Next => LinkTypes'
    <1> USE NamedAssumption, NoneAssumption, AutoRestartAssumption
        DEF IInv, Goto, Set, netVars, linkVars, proxyVars, loopVars,
            PcAt, StartAt, UpAt, CloseAt, RestAt, EndAt,
            TypeOK, LinkTypes, Sessions, PortAt, LinkAt, Holdings
    <1> SUFFICES ASSUME IInv, Next PROVE LinkTypes'
        OBVIOUS
    <1>1. ASSUME NEW b \in Bridges, Resolve(b) PROVE LinkTypes'
        BY <1>1 DEF Resolve, Leave
    <1>2. ASSUME NEW b \in Bridges, Probe(b) PROVE LinkTypes'
        BY <1>2 DEF Probe, Leave, Free, Failure
    <1>3. ASSUME NEW b \in Bridges, Socket(b) PROVE LinkTypes'
        BY <1>3 DEF Socket, Leave, Failure
    <1>4. ASSUME NEW b \in Bridges, Forward(b) PROVE LinkTypes'
        BY <1>4 DEF Forward, Leave, AdbForward, Target, Failure
    <1>5. ASSUME NEW b \in Bridges, Connect(b) PROVE LinkTypes'
        <2>1. link' = link \/ link' = [link EXCEPT ![b] = "up"]
            BY <1>5 DEF Connect
        <2>2. peer' = peer \/ (\E d \in Devices : peer' = [peer EXCEPT ![b] = d])
            BY <1>5 DEF Connect
        <2>3. UNCHANGED <<done, http, recording, signalled, shared>>
            BY <1>5 DEF Connect
        <2> QED BY <2>1, <2>2, <2>3
    <1>6. ASSUME NEW b \in Bridges, Undo(b) PROVE LinkTypes'
        BY <1>6 DEF Undo, Leave, Unforward, Failure
    <1>7. ASSUME NEW b \in Bridges, Listen(b) PROVE LinkTypes'
        <2>1. http' = http \/ http' = [http EXCEPT ![b] = TRUE]
            BY <1>7 DEF Listen
        <2>2. http' \in [Bridges -> BOOLEAN]
            <3>1. \A v \in BOOLEAN : [http EXCEPT ![b] = v] \in [Bridges -> BOOLEAN]
                OBVIOUS
            <3>2. [http EXCEPT ![b] = TRUE] \in [Bridges -> BOOLEAN]
                BY <3>1
            <3> QED BY <2>1, <3>2
        <2>3. UNCHANGED <<link, peer, done, recording, signalled, shared>>
            BY <1>7 DEF Listen
        <2> QED BY <2>2, <2>3
    <1>8. ASSUME NEW b \in Bridges, Record(b) PROVE LinkTypes'
        BY <1>8 DEF Record
    <1>9. ASSUME NEW b \in Bridges, Wait(b) PROVE LinkTypes'
        BY <1>9 DEF Wait
    <1>10. ASSUME NEW b \in Bridges, StopRecord(b) PROVE LinkTypes'
        BY <1>10 DEF StopRecord
    <1>11. ASSUME NEW b \in Bridges, Shutdown(b) PROVE LinkTypes'
        BY <1>11 DEF Shutdown
    <1>12. ASSUME NEW b \in Bridges, CloseProxy(b) PROVE LinkTypes'
        BY <1>12 DEF CloseProxy
    <1>13. ASSUME NEW b \in Bridges, CloseForward(b) PROVE LinkTypes'
        BY <1>13 DEF CloseForward, Leave, Unforward, AfterLoss, Failure
    <1>14. ASSUME NEW b \in Bridges, Rest(b) PROVE LinkTypes'
        BY <1>14 DEF Rest, Leave, Again
    <1>15. ASSUME NEW b \in Bridges, CycleForward(b) PROVE LinkTypes'
        BY <1>15 DEF CycleForward, AdbForward
    <1>16. ASSUME NEW b \in Bridges, CycleDial(b) PROVE LinkTypes'
        <2>1. done' = done
              /\ (link' = link \/ link' = [link EXCEPT ![b] = "up"])
            BY <1>16 DEF CycleDial
        <2>2. peer' = peer \/ peer' = [peer EXCEPT ![b] = forwards[port[b]]]
            BY <1>16 DEF CycleDial
        <2>3. peer' # peer => forwards[port[b]] \in Devices
            BY <1>16 DEF CycleDial
        <2>4. peer' \in [Bridges -> Devices \cup {NoDevice}]
            BY <2>2, <2>3
        <2>5. link' \in [Bridges -> {"none", "up", "recovering", "down"}]
            BY <2>1
        <2>6. done' \in SUBSET Bridges
            BY <2>1
        <2>7. /\ http' \in [Bridges -> BOOLEAN]
              /\ recording' \in [Bridges -> {"no", "running", "left"}]
              /\ signalled' \in SUBSET Bridges /\ shared' \in SUBSET Bridges
            BY <1>16 DEF CycleDial
        <2> QED BY <2>4, <2>5, <2>6, <2>7, Zenon
    <1>17. ASSUME NEW b \in Bridges, CycleGiveUp(b) PROVE LinkTypes'
        BY <1>17 DEF CycleGiveUp
    <1>18. ASSUME NEW b \in Bridges, Lose(b) PROVE LinkTypes'
        BY <1>18 DEF Lose
    <1>19. ASSUME NEW b \in Bridges, Signal(b) PROVE LinkTypes'
        BY <1>19 DEF Signal
    <1>20. ASSUME NEW d \in Devices, Unplug(d) PROVE LinkTypes'
        BY <1>20 DEF Unplug
    <1>21. ASSUME NEW d \in Devices, Plug(d) PROVE LinkTypes'
        BY <1>21 DEF Plug
    <1>22. ASSUME NEW b \in Bridges, NEW o \in orphans[b], OrphanForward(b, o) PROVE LinkTypes'
        BY <1>22 DEF OrphanForward, AdbForward
    <1>23. ASSUME NEW b \in Bridges, NEW o \in orphans[b], OrphanEnds(b, o) PROVE LinkTypes'
        BY <1>23 DEF OrphanEnds
    <1> QED
        BY <1>1, <1>2, <1>3, <1>4, <1>5, <1>6, <1>7, <1>8, <1>9, <1>10, <1>11,
           <1>12, <1>13, <1>14, <1>15, <1>16, <1>17, <1>18, <1>19, <1>20, <1>21,
           <1>22, <1>23, LooseAssumption
        DEF Next, LoopStep, CycleStep

\* Every step keeps the types of the cycles.
LEMMA CycleTypesKept == IInv /\ Next => CycleTypes'
    <1> USE NamedAssumption, NoneAssumption, AutoRestartAssumption
        DEF IInv, Goto, Set, netVars, linkVars, proxyVars, loopVars,
            PcAt, StartAt, UpAt, CloseAt, RestAt, EndAt,
            TypeOK, CycleTypes, LinkAt, Sessions, PortAt, Holdings, Cycles
    <1> SUFFICES ASSUME IInv, Next PROVE CycleTypes'
        OBVIOUS
    <1>1. ASSUME NEW b \in Bridges, Resolve(b) PROVE CycleTypes'
        <2>1. CASE \E l \in RestAt \cup EndAt : Leave(b, l)
            BY <1>1, <2>1, LeaveKeeps DEF Resolve
        <2>2. CASE ~\E l \in RestAt \cup EndAt : Leave(b, l)
            BY <1>1, <2>2, Ways DEF Resolve
        <2> QED BY <2>1, <2>2
    <1>2. ASSUME NEW b \in Bridges, Probe(b) PROVE CycleTypes'
        <2>1. CASE \E l \in RestAt \cup EndAt : Leave(b, l)
            BY <1>2, <2>1, LeaveKeeps DEF Probe
        <2>2. CASE ~\E l \in RestAt \cup EndAt : Leave(b, l)
            BY <1>2, <2>2, Ways DEF Probe, Free
        <2> QED BY <2>1, <2>2
    <1>3. ASSUME NEW b \in Bridges, Socket(b) PROVE CycleTypes'
        <2>1. CASE \E l \in RestAt \cup EndAt : Leave(b, l)
            BY <1>3, <2>1, LeaveKeeps DEF Socket
        <2>2. CASE ~\E l \in RestAt \cup EndAt : Leave(b, l)
            BY <1>3, <2>2, Ways DEF Socket
        <2> QED BY <2>1, <2>2
    <1>4. ASSUME NEW b \in Bridges, Forward(b) PROVE CycleTypes'
        <2>1. CASE \E l \in RestAt \cup EndAt : Leave(b, l)
            BY <1>4, <2>1, LeaveKeeps DEF Forward
        <2>2. CASE ~\E l \in RestAt \cup EndAt : Leave(b, l)
            BY <1>4, <2>2, Ways DEF Forward, AdbForward, Target
        <2> QED BY <2>1, <2>2
    <1>5. ASSUME NEW b \in Bridges, Connect(b) PROVE CycleTypes'
        BY <1>5 DEF Connect
    <1>6. ASSUME NEW b \in Bridges, Undo(b) PROVE CycleTypes'
        BY <1>6, LeaveKeeps, Ways DEF Undo
    <1>7. ASSUME NEW b \in Bridges, Listen(b) PROVE CycleTypes'
        BY <1>7 DEF Listen
    <1>8. ASSUME NEW b \in Bridges, Record(b) PROVE CycleTypes'
        BY <1>8 DEF Record
    <1>9. ASSUME NEW b \in Bridges, Wait(b) PROVE CycleTypes'
        BY <1>9 DEF Wait
    <1>10. ASSUME NEW b \in Bridges, StopRecord(b) PROVE CycleTypes'
        BY <1>10 DEF StopRecord
    <1>11. ASSUME NEW b \in Bridges, Shutdown(b) PROVE CycleTypes'
        BY <1>11 DEF Shutdown
    <1>12. ASSUME NEW b \in Bridges, CloseProxy(b) PROVE CycleTypes'
        <2>1. cycle[b] # "idle" => [port |-> port[b], serial |-> serial[b]] \in Orphans
            BY <1>12 DEF CloseProxy, Orphans
        <2>2. cycle' \in [Bridges -> {"idle", "forward", "dial"}]
            BY <1>12 DEF CloseProxy
        <2>3. \/ orphans' = orphans
              \/ \E o \in Orphans : orphans' = [orphans EXCEPT ![b] = orphans[b] \cup {o}]
            BY <1>12, <2>1 DEF CloseProxy
        <2>4. orphans' \in [Bridges -> SUBSET Orphans]
            BY <2>3
        <2> QED BY <2>2, <2>4
    <1>13. ASSUME NEW b \in Bridges, CloseForward(b) PROVE CycleTypes'
        BY <1>13, CloseForwardLeaves
    <1>14. ASSUME NEW b \in Bridges, Rest(b) PROVE CycleTypes'
        BY <1>14, LeaveKeeps, Ways DEF Rest
    <1>15. ASSUME NEW b \in Bridges, CycleForward(b) PROVE CycleTypes'
        BY <1>15 DEF CycleForward
    <1>16. ASSUME NEW b \in Bridges, CycleDial(b) PROVE CycleTypes'
        BY <1>16 DEF CycleDial
    <1>17. ASSUME NEW b \in Bridges, CycleGiveUp(b) PROVE CycleTypes'
        BY <1>17 DEF CycleGiveUp
    <1>18. ASSUME NEW b \in Bridges, Lose(b) PROVE CycleTypes'
        BY <1>18 DEF Lose
    <1>19. ASSUME NEW b \in Bridges, Signal(b) PROVE CycleTypes'
        BY <1>19 DEF Signal
    <1>20. ASSUME NEW d \in Devices, Unplug(d) PROVE CycleTypes'
        BY <1>20 DEF Unplug
    <1>21. ASSUME NEW d \in Devices, Plug(d) PROVE CycleTypes'
        BY <1>21 DEF Plug
    <1>22. ASSUME NEW b \in Bridges, NEW o \in orphans[b], OrphanForward(b, o) PROVE CycleTypes'
        BY <1>22 DEF OrphanForward, AdbForward
    <1>23. ASSUME NEW b \in Bridges, NEW o \in orphans[b], OrphanEnds(b, o) PROVE CycleTypes'
        BY <1>23 DEF OrphanEnds
    <1> QED
        BY <1>1, <1>2, <1>3, <1>4, <1>5, <1>6, <1>7, <1>8, <1>9, <1>10, <1>11,
           <1>12, <1>13, <1>14, <1>15, <1>16, <1>17, <1>18, <1>19, <1>20, <1>21,
           <1>22, <1>23, LooseAssumption
        DEF Next, LoopStep, CycleStep

\* Every step keeps the port and the cause of a session.
LEMMA SessionsKept == IInv /\ Next => Sessions'
    <1> USE NamedAssumption, NoneAssumption, AutoRestartAssumption
        DEF IInv, Goto, Set, netVars, linkVars, proxyVars, loopVars,
            PcAt, StartAt, UpAt, CloseAt, RestAt, EndAt,
            TypeOK, Sessions, PortAt, LinkAt
    <1> SUFFICES ASSUME IInv, Next PROVE Sessions'
        OBVIOUS
    <1>1. ASSUME NEW b \in Bridges, Resolve(b) PROVE Sessions'
        BY <1>1 DEF Resolve, Leave
    <1>2. ASSUME NEW b \in Bridges, Probe(b) PROVE Sessions'
        BY <1>2 DEF Probe, Leave, Free, Failure
    <1>3. ASSUME NEW b \in Bridges, Socket(b) PROVE Sessions'
        BY <1>3 DEF Socket, Leave, Failure
    <1>4. ASSUME NEW b \in Bridges, Forward(b) PROVE Sessions'
        BY <1>4 DEF Forward, Leave, AdbForward, Target, Failure
    <1>5. ASSUME NEW b \in Bridges, Connect(b) PROVE Sessions'
        BY <1>5 DEF Connect
    <1>6. ASSUME NEW b \in Bridges, Undo(b) PROVE Sessions'
        BY <1>6 DEF Undo, Leave, Unforward, Failure
    <1>7. ASSUME NEW b \in Bridges, Listen(b) PROVE Sessions'
        BY <1>7 DEF Listen
    <1>8. ASSUME NEW b \in Bridges, Record(b) PROVE Sessions'
        BY <1>8 DEF Record
    <1>9. ASSUME NEW b \in Bridges, Wait(b) PROVE Sessions'
        BY <1>9 DEF Wait
    <1>10. ASSUME NEW b \in Bridges, StopRecord(b) PROVE Sessions'
        <2>1. /\ pc[b] = "stoprecord" /\ pc' = [pc EXCEPT ![b] = "shutdown"]
              /\ UNCHANGED port /\ cause' = cause /\ cause[b] # "none"
            BY <1>10 DEF StopRecord
        <2> QED BY <2>1
    <1>11. ASSUME NEW b \in Bridges, Shutdown(b) PROVE Sessions'
        BY <1>11 DEF Shutdown
    <1>12. ASSUME NEW b \in Bridges, CloseProxy(b) PROVE Sessions'
        BY <1>12 DEF CloseProxy
    <1>13. ASSUME NEW b \in Bridges, CloseForward(b) PROVE Sessions'
        BY <1>13 DEF CloseForward, Leave, Unforward, AfterLoss, Failure
    <1>14. ASSUME NEW b \in Bridges, Rest(b) PROVE Sessions'
        BY <1>14 DEF Rest, Leave, Again
    <1>15. ASSUME NEW b \in Bridges, CycleForward(b) PROVE Sessions'
        BY <1>15 DEF CycleForward, AdbForward
    <1>16. ASSUME NEW b \in Bridges, CycleDial(b) PROVE Sessions'
        BY <1>16 DEF CycleDial
    <1>17. ASSUME NEW b \in Bridges, CycleGiveUp(b) PROVE Sessions'
        BY <1>17 DEF CycleGiveUp
    <1>18. ASSUME NEW b \in Bridges, Lose(b) PROVE Sessions'
        BY <1>18 DEF Lose
    <1>19. ASSUME NEW b \in Bridges, Signal(b) PROVE Sessions'
        BY <1>19 DEF Signal
    <1>20. ASSUME NEW d \in Devices, Unplug(d) PROVE Sessions'
        BY <1>20 DEF Unplug
    <1>21. ASSUME NEW d \in Devices, Plug(d) PROVE Sessions'
        BY <1>21 DEF Plug
    <1>22. ASSUME NEW b \in Bridges, NEW o \in orphans[b], OrphanForward(b, o) PROVE Sessions'
        BY <1>22 DEF OrphanForward, AdbForward
    <1>23. ASSUME NEW b \in Bridges, NEW o \in orphans[b], OrphanEnds(b, o) PROVE Sessions'
        BY <1>23 DEF OrphanEnds
    <1> QED
        BY <1>1, <1>2, <1>3, <1>4, <1>5, <1>6, <1>7, <1>8, <1>9, <1>10, <1>11,
           <1>12, <1>13, <1>14, <1>15, <1>16, <1>17, <1>18, <1>19, <1>20, <1>21,
           <1>22, <1>23, LooseAssumption
        DEF Next, LoopStep, CycleStep

\* Every step keeps what a session holds within its bounds.
LEMMA HoldingsKept == IInv /\ Next => Holdings'
    <1> USE NamedAssumption, NoneAssumption, AutoRestartAssumption
        DEF IInv, Goto, Set, netVars, linkVars, proxyVars, loopVars,
            PcAt, StartAt, UpAt, CloseAt, RestAt, EndAt,
            TypeOK, Sessions, PortAt, Holdings, LinkAt, Cycles
    <1> SUFFICES ASSUME IInv, Next PROVE Holdings'
        OBVIOUS
    <1>1. ASSUME NEW b \in Bridges, Resolve(b) PROVE Holdings'
        BY <1>1 DEF Resolve, Leave
    <1>2. ASSUME NEW b \in Bridges, Probe(b) PROVE Holdings'
        BY <1>2 DEF Probe, Leave, Free, Failure
    <1>3. ASSUME NEW b \in Bridges, Socket(b) PROVE Holdings'
        BY <1>3 DEF Socket, Leave, Failure
    <1>4. ASSUME NEW b \in Bridges, Forward(b) PROVE Holdings'
        <2>1. CASE \E l \in RestAt \cup EndAt : Leave(b, l)
            BY <1>4, <2>1 DEF Forward, Leave, AdbForward
        <2>2. CASE ~\E l \in RestAt \cup EndAt : Leave(b, l)
            <3>1. /\ pc[b] = "forward" /\ pc' = [pc EXCEPT ![b] = "connect"]
                  /\ port' = port /\ by' = [by EXCEPT ![port[b]] = b]
                  /\ UNCHANGED <<link, http, recording>>
                BY <1>4, <2>2, Ways DEF Forward, AdbForward
            <3> QED BY <3>1
        <2> QED BY <2>1, <2>2
    <1>5. ASSUME NEW b \in Bridges, Connect(b) PROVE Holdings'
        BY <1>5 DEF Connect
    <1>6. ASSUME NEW b \in Bridges, Undo(b) PROVE Holdings'
        BY <1>6 DEF Undo, Leave, Unforward, Failure
    <1>7. ASSUME NEW b \in Bridges, Listen(b) PROVE Holdings'
        BY <1>7 DEF Listen
    <1>8. ASSUME NEW b \in Bridges, Record(b) PROVE Holdings'
        BY <1>8 DEF Record
    <1>9. ASSUME NEW b \in Bridges, Wait(b) PROVE Holdings'
        <2>1. pc[b] = "wait" /\ UNCHANGED <<port, by, link, http>>
            BY <1>9 DEF Wait
        <2>2. CASE Goto(b, "stoprecord") /\ recording' = recording
            BY <2>1, <2>2
        <2>3. CASE /\ Goto(b, "shutdown") /\ recording'[b] # "running"
                   /\ \A x \in Bridges \ {b} : recording'[x] = recording[x]
            BY <2>1, <2>3
        <2> QED BY <1>9, <2>2, <2>3 DEF Wait
    <1>10. ASSUME NEW b \in Bridges, StopRecord(b) PROVE Holdings'
        BY <1>10 DEF StopRecord
    <1>11. ASSUME NEW b \in Bridges, Shutdown(b) PROVE Holdings'
        BY <1>11 DEF Shutdown
    <1>12. ASSUME NEW b \in Bridges, CloseProxy(b) PROVE Holdings'
        BY <1>12 DEF CloseProxy
    <1>13. ASSUME NEW b \in Bridges, CloseForward(b) PROVE Holdings'
        BY <1>13 DEF CloseForward, Leave, Unforward, AfterLoss, Failure
    <1>14. ASSUME NEW b \in Bridges, Rest(b) PROVE Holdings'
        BY <1>14 DEF Rest, Leave, Again
    <1>15. ASSUME NEW b \in Bridges, CycleForward(b) PROVE Holdings'
        BY <1>15 DEF CycleForward, AdbForward
    <1>16. ASSUME NEW b \in Bridges, CycleDial(b) PROVE Holdings'
        BY <1>16 DEF CycleDial
    <1>17. ASSUME NEW b \in Bridges, CycleGiveUp(b) PROVE Holdings'
        BY <1>17 DEF CycleGiveUp
    <1>18. ASSUME NEW b \in Bridges, Lose(b) PROVE Holdings'
        BY <1>18 DEF Lose
    <1>19. ASSUME NEW b \in Bridges, Signal(b) PROVE Holdings'
        BY <1>19 DEF Signal
    <1>20. ASSUME NEW d \in Devices, Unplug(d) PROVE Holdings'
        BY <1>20 DEF Unplug
    <1>21. ASSUME NEW d \in Devices, Plug(d) PROVE Holdings'
        BY <1>21 DEF Plug
    <1>22. ASSUME NEW b \in Bridges, NEW o \in orphans[b], OrphanForward(b, o) PROVE Holdings'
        BY <1>22 DEF OrphanForward, AdbForward
    <1>23. ASSUME NEW b \in Bridges, NEW o \in orphans[b], OrphanEnds(b, o) PROVE Holdings'
        BY <1>23 DEF OrphanEnds
    <1> QED
        BY <1>1, <1>2, <1>3, <1>4, <1>5, <1>6, <1>7, <1>8, <1>9, <1>10, <1>11,
           <1>12, <1>13, <1>14, <1>15, <1>16, <1>17, <1>18, <1>19, <1>20, <1>21,
           <1>22, <1>23, LooseAssumption
        DEF Next, LoopStep, CycleStep

\* Every step keeps the cycle and the upstream together.
LEMMA CyclesKept == IInv /\ Next => Cycles'
    <1> USE NamedAssumption, NoneAssumption, AutoRestartAssumption
        DEF IInv, Goto, Set, netVars, linkVars, proxyVars, loopVars,
            PcAt, StartAt, UpAt, CloseAt, RestAt, EndAt,
            TypeOK, Sessions, PortAt, Holdings, LinkAt, Cycles
    <1> SUFFICES ASSUME IInv, Next PROVE Cycles'
        OBVIOUS
    <1>1. ASSUME NEW b \in Bridges, Resolve(b) PROVE Cycles'
        <2>1. CASE \E l \in RestAt \cup EndAt : Leave(b, l)
            BY <1>1, <2>1, LeaveKeeps DEF Resolve
        <2>2. CASE ~\E l \in RestAt \cup EndAt : Leave(b, l)
            BY <1>1, <2>2, Ways DEF Resolve
        <2> QED BY <2>1, <2>2
    <1>2. ASSUME NEW b \in Bridges, Probe(b) PROVE Cycles'
        <2>1. CASE \E l \in RestAt \cup EndAt : Leave(b, l)
            BY <1>2, <2>1, LeaveKeeps DEF Probe
        <2>2. CASE ~\E l \in RestAt \cup EndAt : Leave(b, l)
            <3>1. /\ UNCHANGED <<serial, cycle, link>>
                  /\ \A x \in Bridges : x # b => port'[x] = port[x]
                BY <1>2, <2>2, ProbeFinds
            <3>2. link[b] = "none"
                BY <1>2 DEF Probe
            <3> QED BY <3>1, <3>2
        <2> QED BY <2>1, <2>2
    <1>3. ASSUME NEW b \in Bridges, Socket(b) PROVE Cycles'
        <2>1. CASE \E l \in RestAt \cup EndAt : Leave(b, l)
            BY <1>3, <2>1, LeaveKeeps DEF Socket
        <2>2. CASE ~\E l \in RestAt \cup EndAt : Leave(b, l)
            <3>1. UNCHANGED <<serial, port, cycle, link>>
                BY <1>3, <2>2, Ways DEF Socket
            <3> QED BY <3>1
        <2> QED BY <2>1, <2>2
    <1>4. ASSUME NEW b \in Bridges, Forward(b) PROVE Cycles'
        <2>1. CASE \E l \in RestAt \cup EndAt : Leave(b, l)
            BY <1>4, <2>1, LeaveKeeps DEF Forward
        <2>2. CASE ~\E l \in RestAt \cup EndAt : Leave(b, l)
            <3>1. UNCHANGED <<serial, port, cycle, link>>
                BY <1>4, <2>2, Ways DEF Forward
            <3> QED BY <3>1
        <2> QED BY <2>1, <2>2
    <1>5. ASSUME NEW b \in Bridges, Connect(b) PROVE Cycles'
        <2>1. link[b] = "none" /\ (link' = link \/ link' = [link EXCEPT ![b] = "up"])
            BY <1>5 DEF Connect
        <2>2. UNCHANGED <<serial, port, cycle>>
            BY <1>5 DEF Connect
        <2> QED BY <2>1, <2>2
    <1>6. ASSUME NEW b \in Bridges, Undo(b) PROVE Cycles'
        BY <1>6, LeaveKeeps, Ways DEF Undo
    <1>7. ASSUME NEW b \in Bridges, Listen(b) PROVE Cycles'
        BY <1>7 DEF Listen
    <1>8. ASSUME NEW b \in Bridges, Record(b) PROVE Cycles'
        BY <1>8 DEF Record
    <1>9. ASSUME NEW b \in Bridges, Wait(b) PROVE Cycles'
        BY <1>9 DEF Wait
    <1>10. ASSUME NEW b \in Bridges, StopRecord(b) PROVE Cycles'
        BY <1>10 DEF StopRecord
    <1>11. ASSUME NEW b \in Bridges, Shutdown(b) PROVE Cycles'
        BY <1>11 DEF Shutdown
    <1>12. ASSUME NEW b \in Bridges, CloseProxy(b) PROVE Cycles'
        BY <1>12 DEF CloseProxy
    <1>13. ASSUME NEW b \in Bridges, CloseForward(b) PROVE Cycles'
        BY <1>13, CloseForwardLeaves
    <1>14. ASSUME NEW b \in Bridges, Rest(b) PROVE Cycles'
        BY <1>14, LeaveKeeps, Ways DEF Rest
    <1>15. ASSUME NEW b \in Bridges, CycleForward(b) PROVE Cycles'
        BY <1>15 DEF CycleForward, AdbForward
    <1>16. ASSUME NEW b \in Bridges, CycleDial(b) PROVE Cycles'
        BY <1>16 DEF CycleDial
    <1>17. ASSUME NEW b \in Bridges, CycleGiveUp(b) PROVE Cycles'
        BY <1>17 DEF CycleGiveUp
    <1>18. ASSUME NEW b \in Bridges, Lose(b) PROVE Cycles'
        BY <1>18 DEF Lose
    <1>19. ASSUME NEW b \in Bridges, Signal(b) PROVE Cycles'
        BY <1>19 DEF Signal
    <1>20. ASSUME NEW d \in Devices, Unplug(d) PROVE Cycles'
        BY <1>20 DEF Unplug
    <1>21. ASSUME NEW d \in Devices, Plug(d) PROVE Cycles'
        BY <1>21 DEF Plug
    <1>22. ASSUME NEW b \in Bridges, NEW o \in orphans[b], OrphanForward(b, o) PROVE Cycles'
        BY <1>22 DEF OrphanForward, AdbForward
    <1>23. ASSUME NEW b \in Bridges, NEW o \in orphans[b], OrphanEnds(b, o) PROVE Cycles'
        BY <1>23 DEF OrphanEnds
    <1> QED
        BY <1>1, <1>2, <1>3, <1>4, <1>5, <1>6, <1>7, <1>8, <1>9, <1>10, <1>11,
           <1>12, <1>13, <1>14, <1>15, <1>16, <1>17, <1>18, <1>19, <1>20, <1>21,
           <1>22, <1>23, LooseAssumption
        DEF Next, LoopStep, CycleStep

\* Every step keeps a port with its session.
LEMMA ExclusiveKept == IInv /\ Next => Exclusive'
    <1> USE NamedAssumption, NoneAssumption, AutoRestartAssumption
        DEF IInv, Goto, Set, netVars, linkVars, proxyVars, loopVars,
            PcAt, StartAt, UpAt, CloseAt, RestAt, EndAt,
            TypeOK, Sessions, PortAt, Holdings, LinkAt, Cycles, Exclusive, Alone, Uses
    <1> SUFFICES ASSUME IInv, Next PROVE Exclusive'
        OBVIOUS
    <1>1. ASSUME NEW b \in Bridges, Resolve(b) PROVE Exclusive'
        <2>1. CASE \E l \in RestAt \cup EndAt : Leave(b, l)
            BY <1>1, <2>1, LeaveKeeps DEF Resolve
        <2>2. CASE ~\E l \in RestAt \cup EndAt : Leave(b, l)
            BY <1>1, <2>2, Ways DEF Resolve
        <2> QED BY <2>1, <2>2
    <1>2. ASSUME NEW b \in Bridges, Probe(b) PROVE Exclusive'
        <2>1. CASE \E l \in RestAt \cup EndAt : Leave(b, l)
            BY <1>2, <2>1, LeaveKeeps DEF Probe
        <2>2. CASE ~\E l \in RestAt \cup EndAt : Leave(b, l)
            <3>1. PICK p \in Ports :
                      /\ port' = [port EXCEPT ![b] = p] /\ shared \subseteq shared'
                      /\ (\E x \in Bridges : Uses(x, p)) => b \in shared'
                      /\ \A x \in Bridges : Uses(x, p) => x \in shared'
                      /\ UNCHANGED <<serial, orphans>>
                BY <1>2, <2>2, ProbeFinds
            <3>2. ASSUME NEW x \in Bridges, Alone(x)', x # b
                  PROVE  Alone(x) /\ port'[x] = port[x] /\ port[x] # p
                BY <3>1, <3>2 DEF Alone, Uses
            <3>3. ASSUME Alone(b)' PROVE \A x \in Bridges : ~Uses(x, p)
                BY <3>1, <3>3 DEF Alone
            <3>4. ASSUME NEW x \in Bridges, x # b, NEW q PROVE Uses(x, q)' <=> Uses(x, q)
                BY <3>1, <3>4 DEF Uses
            <3>5. ASSUME NEW q, q # p, Uses(b, q)' PROVE Uses(b, q)
                BY <3>1, <3>5 DEF Uses
            <3>6. ASSUME NEW x \in Bridges, Alone(x)', NEW y \in Bridges \ {x}
                  PROVE  ~Uses(y, port[x])'
                <4>1. CASE x = b
                    BY <3>1, <3>3, <3>4, <3>6, <4>1 DEF Uses
                <4>2. CASE x # b
                    BY <3>1, <3>2, <3>4, <3>5, <3>6, <4>2 DEF Exclusive, Uses
                <4> QED BY <4>1, <4>2
            <3>7. ASSUME NEW x \in Bridges, Alone(x)', NEW o \in orphans'[x],
                         o.port = port'[x]
                  PROVE  o.serial = serial'[x]
                BY <3>1, <3>2, <3>3, <3>7 DEF Exclusive, Uses
            <3> QED BY <3>6, <3>7 DEF Exclusive
        <2> QED BY <2>1, <2>2
    <1>3. ASSUME NEW b \in Bridges, Socket(b) PROVE Exclusive'
        <2>1. CASE \E l \in RestAt \cup EndAt : Leave(b, l)
            BY <1>3, <2>1, LeaveKeeps DEF Socket
        <2>2. CASE ~\E l \in RestAt \cup EndAt : Leave(b, l)
            <3>1. UNCHANGED <<port, orphans, shared, serial>>
                BY <1>3, <2>2, Ways DEF Socket
            <3> QED BY <3>1
        <2> QED BY <2>1, <2>2
    <1>4. ASSUME NEW b \in Bridges, Forward(b) PROVE Exclusive'
        <2>1. CASE \E l \in RestAt \cup EndAt : Leave(b, l)
            BY <1>4, <2>1, LeaveKeeps DEF Forward
        <2>2. CASE ~\E l \in RestAt \cup EndAt : Leave(b, l)
            <3>1. UNCHANGED <<port, orphans, shared, serial>>
                BY <1>4, <2>2, Ways DEF Forward
            <3> QED BY <3>1
        <2> QED BY <2>1, <2>2
    <1>5. ASSUME NEW b \in Bridges, Connect(b) PROVE Exclusive'
        BY <1>5 DEF Connect
    <1>6. ASSUME NEW b \in Bridges, Undo(b) PROVE Exclusive'
        BY <1>6, LeaveKeeps, Ways DEF Undo
    <1>7. ASSUME NEW b \in Bridges, Listen(b) PROVE Exclusive'
        BY <1>7 DEF Listen
    <1>8. ASSUME NEW b \in Bridges, Record(b) PROVE Exclusive'
        BY <1>8 DEF Record
    <1>9. ASSUME NEW b \in Bridges, Wait(b) PROVE Exclusive'
        BY <1>9 DEF Wait
    <1>10. ASSUME NEW b \in Bridges, StopRecord(b) PROVE Exclusive'
        BY <1>10 DEF StopRecord
    <1>11. ASSUME NEW b \in Bridges, Shutdown(b) PROVE Exclusive'
        BY <1>11 DEF Shutdown
    <1>12. ASSUME NEW b \in Bridges, CloseProxy(b) PROVE Exclusive'
        BY <1>12 DEF CloseProxy
    <1>13. ASSUME NEW b \in Bridges, CloseForward(b) PROVE Exclusive'
        BY <1>13, CloseForwardLeaves
    <1>14. ASSUME NEW b \in Bridges, Rest(b) PROVE Exclusive'
        BY <1>14, LeaveKeeps, Ways DEF Rest
    <1>15. ASSUME NEW b \in Bridges, CycleForward(b) PROVE Exclusive'
        BY <1>15 DEF CycleForward, AdbForward
    <1>16. ASSUME NEW b \in Bridges, CycleDial(b) PROVE Exclusive'
        BY <1>16 DEF CycleDial
    <1>17. ASSUME NEW b \in Bridges, CycleGiveUp(b) PROVE Exclusive'
        BY <1>17 DEF CycleGiveUp
    <1>18. ASSUME NEW b \in Bridges, Lose(b) PROVE Exclusive'
        BY <1>18 DEF Lose
    <1>19. ASSUME NEW b \in Bridges, Signal(b) PROVE Exclusive'
        BY <1>19 DEF Signal
    <1>20. ASSUME NEW d \in Devices, Unplug(d) PROVE Exclusive'
        BY <1>20 DEF Unplug
    <1>21. ASSUME NEW d \in Devices, Plug(d) PROVE Exclusive'
        BY <1>21 DEF Plug
    <1>22. ASSUME NEW b \in Bridges, NEW o \in orphans[b], OrphanForward(b, o) PROVE Exclusive'
        BY <1>22 DEF OrphanForward, AdbForward
    <1>23. ASSUME NEW b \in Bridges, NEW o \in orphans[b], OrphanEnds(b, o) PROVE Exclusive'
        BY <1>23 DEF OrphanEnds
    <1> QED
        BY <1>1, <1>2, <1>3, <1>4, <1>5, <1>6, <1>7, <1>8, <1>9, <1>10, <1>11,
           <1>12, <1>13, <1>14, <1>15, <1>16, <1>17, <1>18, <1>19, <1>20, <1>21,
           <1>22, <1>23, LooseAssumption
        DEF Next, LoopStep, CycleStep

\* Every step keeps the mapping of a port that is not shared.
LEMMA MappedKept == IInv /\ Next => Mapped'
    <1> USE NamedAssumption, NoneAssumption, AutoRestartAssumption
        DEF IInv, Goto, Set, netVars, linkVars, proxyVars, loopVars,
            PcAt, StartAt, UpAt, CloseAt, RestAt, EndAt,
            TypeOK, Sessions, PortAt, Holdings, LinkAt, Cycles, Exclusive, Mapped, Alone, Uses
    <1> SUFFICES ASSUME IInv, Next PROVE Mapped'
        OBVIOUS
    <1>1. ASSUME NEW b \in Bridges, Resolve(b) PROVE Mapped'
        BY <1>1 DEF Resolve, Leave
    <1>2. ASSUME NEW b \in Bridges, Probe(b) PROVE Mapped'
        BY <1>2 DEF Probe, Leave, Free, Failure
    <1>3. ASSUME NEW b \in Bridges, Socket(b) PROVE Mapped'
        BY <1>3 DEF Socket, Leave, Failure
    <1>4. ASSUME NEW b \in Bridges, Forward(b) PROVE Mapped'
        BY <1>4 DEF Forward, Leave, AdbForward, Target, Failure
    <1>5. ASSUME NEW b \in Bridges, Connect(b) PROVE Mapped'
        BY <1>5 DEF Connect
    <1>6. ASSUME NEW b \in Bridges, Undo(b) PROVE Mapped'
        BY <1>6 DEF Undo, Leave, Unforward, Failure
    <1>7. ASSUME NEW b \in Bridges, Listen(b) PROVE Mapped'
        BY <1>7 DEF Listen
    <1>8. ASSUME NEW b \in Bridges, Record(b) PROVE Mapped'
        BY <1>8 DEF Record
    <1>9. ASSUME NEW b \in Bridges, Wait(b) PROVE Mapped'
        BY <1>9 DEF Wait
    <1>10. ASSUME NEW b \in Bridges, StopRecord(b) PROVE Mapped'
        BY <1>10 DEF StopRecord
    <1>11. ASSUME NEW b \in Bridges, Shutdown(b) PROVE Mapped'
        BY <1>11 DEF Shutdown
    <1>12. ASSUME NEW b \in Bridges, CloseProxy(b) PROVE Mapped'
        BY <1>12 DEF CloseProxy
    <1>13. ASSUME NEW b \in Bridges, CloseForward(b) PROVE Mapped'
        BY <1>13 DEF CloseForward, Leave, Unforward, AfterLoss, Failure
    <1>14. ASSUME NEW b \in Bridges, Rest(b) PROVE Mapped'
        BY <1>14 DEF Rest, Leave, Again
    <1>15. ASSUME NEW b \in Bridges, CycleForward(b) PROVE Mapped'
        BY <1>15 DEF CycleForward, AdbForward
    <1>16. ASSUME NEW b \in Bridges, CycleDial(b) PROVE Mapped'
        BY <1>16 DEF CycleDial
    <1>17. ASSUME NEW b \in Bridges, CycleGiveUp(b) PROVE Mapped'
        BY <1>17 DEF CycleGiveUp
    <1>18. ASSUME NEW b \in Bridges, Lose(b) PROVE Mapped'
        BY <1>18 DEF Lose
    <1>19. ASSUME NEW b \in Bridges, Signal(b) PROVE Mapped'
        BY <1>19 DEF Signal
    <1>20. ASSUME NEW d \in Devices, Unplug(d) PROVE Mapped'
        BY <1>20 DEF Unplug
    <1>21. ASSUME NEW d \in Devices, Plug(d) PROVE Mapped'
        BY <1>21 DEF Plug
    <1>22. ASSUME NEW b \in Bridges, NEW o \in orphans[b], OrphanForward(b, o) PROVE Mapped'
        BY <1>22 DEF OrphanForward, AdbForward
    <1>23. ASSUME NEW b \in Bridges, NEW o \in orphans[b], OrphanEnds(b, o) PROVE Mapped'
        BY <1>23 DEF OrphanEnds
    <1> QED
        BY <1>1, <1>2, <1>3, <1>4, <1>5, <1>6, <1>7, <1>8, <1>9, <1>10, <1>11,
           <1>12, <1>13, <1>14, <1>15, <1>16, <1>17, <1>18, <1>19, <1>20, <1>21,
           <1>22, <1>23, LooseAssumption
        DEF Next, LoopStep, CycleStep

\* Every step keeps the upstream on its device.
LEMMA OwnDeviceKept == IInv /\ Next => OwnDevice'
    <1> USE NamedAssumption, NoneAssumption, AutoRestartAssumption
        DEF IInv, Goto, Set, netVars, linkVars, proxyVars, loopVars,
            PcAt, StartAt, UpAt, CloseAt, RestAt, EndAt,
            TypeOK, Sessions, PortAt, Holdings, LinkAt, Cycles, Exclusive, Mapped, Alone, Uses,
            OwnDevice
    <1> SUFFICES ASSUME IInv, Next PROVE OwnDevice'
        OBVIOUS
    <1>1. ASSUME NEW b \in Bridges, Resolve(b) PROVE OwnDevice'
        <2>1. CASE \E l \in RestAt \cup EndAt : Leave(b, l)
            BY <1>1, <2>1, LeaveKeeps DEF Resolve
        <2>2. CASE ~\E l \in RestAt \cup EndAt : Leave(b, l)
            BY <1>1, <2>2, Ways DEF Resolve
        <2> QED BY <2>1, <2>2
    <1>2. ASSUME NEW b \in Bridges, Probe(b) PROVE OwnDevice'
        <2>1. CASE \E l \in RestAt \cup EndAt : Leave(b, l)
            BY <1>2, <2>1, LeaveKeeps DEF Probe
        <2>2. CASE ~\E l \in RestAt \cup EndAt : Leave(b, l)
            <3>1. UNCHANGED <<serial, link, peer>> /\ shared \subseteq shared'
                BY <1>2, <2>2, ProbeFinds
            <3> QED BY <3>1
        <2> QED BY <2>1, <2>2
    <1>3. ASSUME NEW b \in Bridges, Socket(b) PROVE OwnDevice'
        <2>1. CASE \E l \in RestAt \cup EndAt : Leave(b, l)
            BY <1>3, <2>1, LeaveKeeps DEF Socket
        <2>2. CASE ~\E l \in RestAt \cup EndAt : Leave(b, l)
            BY <1>3, <2>2, Ways DEF Socket
        <2> QED BY <2>1, <2>2
    <1>4. ASSUME NEW b \in Bridges, Forward(b) PROVE OwnDevice'
        <2>1. CASE \E l \in RestAt \cup EndAt : Leave(b, l)
            BY <1>4, <2>1, LeaveKeeps DEF Forward
        <2>2. CASE ~\E l \in RestAt \cup EndAt : Leave(b, l)
            BY <1>4, <2>2, Ways DEF Forward, AdbForward, Target
        <2> QED BY <2>1, <2>2
    <1>5. ASSUME NEW b \in Bridges, Connect(b) PROVE OwnDevice'
        BY <1>5 DEF Connect
    <1>6. ASSUME NEW b \in Bridges, Undo(b) PROVE OwnDevice'
        BY <1>6, LeaveKeeps, Ways DEF Undo
    <1>7. ASSUME NEW b \in Bridges, Listen(b) PROVE OwnDevice'
        BY <1>7 DEF Listen
    <1>8. ASSUME NEW b \in Bridges, Record(b) PROVE OwnDevice'
        BY <1>8 DEF Record
    <1>9. ASSUME NEW b \in Bridges, Wait(b) PROVE OwnDevice'
        BY <1>9 DEF Wait
    <1>10. ASSUME NEW b \in Bridges, StopRecord(b) PROVE OwnDevice'
        BY <1>10 DEF StopRecord
    <1>11. ASSUME NEW b \in Bridges, Shutdown(b) PROVE OwnDevice'
        BY <1>11 DEF Shutdown
    <1>12. ASSUME NEW b \in Bridges, CloseProxy(b) PROVE OwnDevice'
        BY <1>12 DEF CloseProxy
    <1>13. ASSUME NEW b \in Bridges, CloseForward(b) PROVE OwnDevice'
        BY <1>13, CloseForwardLeaves
    <1>14. ASSUME NEW b \in Bridges, Rest(b) PROVE OwnDevice'
        BY <1>14, LeaveKeeps, Ways DEF Rest
    <1>15. ASSUME NEW b \in Bridges, CycleForward(b) PROVE OwnDevice'
        BY <1>15 DEF CycleForward, AdbForward
    <1>16. ASSUME NEW b \in Bridges, CycleDial(b) PROVE OwnDevice'
        BY <1>16 DEF CycleDial
    <1>17. ASSUME NEW b \in Bridges, CycleGiveUp(b) PROVE OwnDevice'
        BY <1>17 DEF CycleGiveUp
    <1>18. ASSUME NEW b \in Bridges, Lose(b) PROVE OwnDevice'
        BY <1>18 DEF Lose
    <1>19. ASSUME NEW b \in Bridges, Signal(b) PROVE OwnDevice'
        BY <1>19 DEF Signal
    <1>20. ASSUME NEW d \in Devices, Unplug(d) PROVE OwnDevice'
        BY <1>20 DEF Unplug
    <1>21. ASSUME NEW d \in Devices, Plug(d) PROVE OwnDevice'
        BY <1>21 DEF Plug
    <1>22. ASSUME NEW b \in Bridges, NEW o \in orphans[b], OrphanForward(b, o) PROVE OwnDevice'
        BY <1>22 DEF OrphanForward, AdbForward
    <1>23. ASSUME NEW b \in Bridges, NEW o \in orphans[b], OrphanEnds(b, o) PROVE OwnDevice'
        BY <1>23 DEF OrphanEnds
    <1> QED
        BY <1>1, <1>2, <1>3, <1>4, <1>5, <1>6, <1>7, <1>8, <1>9, <1>10, <1>11,
           <1>12, <1>13, <1>14, <1>15, <1>16, <1>17, <1>18, <1>19, <1>20, <1>21,
           <1>22, <1>23, LooseAssumption
        DEF Next, LoopStep, CycleStep

\* No process has a session at first, and no port is mapped.
LEMMA InitInv == Init => IInv
    <1> USE NoneAssumption DEF Init
    <1> SUFFICES ASSUME Init PROVE IInv
        OBVIOUS
    <1>1. NetTypes /\ LoopTypes /\ CycleTypes
        BY DEF NetTypes, LoopTypes, CycleTypes, PcAt, StartAt
    <1>2. LinkTypes
        <2>1. http \in [Bridges -> BOOLEAN]
            OBVIOUS
        <2> QED BY <2>1 DEF LinkTypes
    <1>3. Sessions /\ Holdings /\ Cycles
        BY DEF Sessions, Holdings, Cycles, PortAt, UpAt, CloseAt
    <1>4. Exclusive /\ Mapped /\ OwnDevice
        BY DEF Exclusive, Mapped, Alone, OwnDevice
    <1> QED BY <1>1, <1>2, <1>3, <1>4, Parts DEF IInv

\* The inductive invariant holds of every behaviour.
THEOREM InvariantHolds == Spec => []IInv
    <1>1. IInv /\ Next => IInv'
        <2> SUFFICES ASSUME IInv, Next PROVE IInv'
            OBVIOUS
        <2>1. TypeOK'
            BY NetKept, LoopKept, LinkKept, CycleTypesKept
            DEF TypeOK, NetTypes, LoopTypes, LinkTypes, CycleTypes
        <2> QED
            BY <2>1, SessionsKept, HoldingsKept, CyclesKept, ExclusiveKept, MappedKept,
               OwnDeviceKept
            DEF IInv
    <1>2. IInv /\ UNCHANGED vars => IInv'
        <2> USE DEF vars, netVars, linkVars, proxyVars, loopVars
        <2> SUFFICES ASSUME IInv, UNCHANGED vars PROVE IInv'
            OBVIOUS
        <2>1. TypeOK' /\ Sessions' /\ Holdings' /\ Cycles'
            BY DEF IInv, TypeOK, Sessions, Holdings, Cycles
        <2>2. Exclusive' /\ Mapped' /\ OwnDevice'
            BY DEF IInv, Exclusive, Mapped, Alone, Uses, OwnDevice
        <2> QED BY <2>1, <2>2 DEF IInv
    <1> QED BY InitInv, <1>1, <1>2, PTL DEF Spec

\* Type correctness of the loops, the sessions and the adb server.
THEOREM TypesHold == Spec => []TypeOK
    BY InvariantHolds, PTL DEF IInv

\* No way out of a session leaves an upstream, a listener or a mapping behind, but those
\* that adb or a cycle behind Close keep (StartAttachedServer, AttachedServer.Close).
THEOREM ReleasedAtRestHolds == Spec => []ReleasedAtRest
    <1>1. IInv => ReleasedAtRest
        BY DEF IInv, Holdings, ReleasedAtRest, LinkAt, PortAt, UpAt, CloseAt, RestAt, EndAt
    <1> QED BY InvariantHolds, <1>1, PTL

\* A session whose port was never shared is connected to its own device, through any
\* number of other sessions, unplugs and reconnects (freeTCPPort, Forward, reconnect).
THEOREM OwnDeviceHolds == Spec => []OwnDevice
    BY InvariantHolds, PTL DEF IInv

\* Who has a port to himself: no other process writes the adb server's table there, and
\* his own session and its cycles write his own device.
LEMMA MappingStep ==
    ASSUME IInv, Next, NEW b \in Bridges, Alone(b), port'[b] = port[b],
           forwards[port[b]] = serial[b], serial[b] \in present'
    PROVE  forwards'[port[b]] = serial[b]
    <1> USE NoneAssumption, LooseAssumption DEF Set
    <1>a. /\ forwards \in [Ports -> Devices \cup {NoDevice}]
          /\ pc \in [Bridges -> PcAt]
          /\ port \in [Bridges -> Ports \cup {NoPort}]
          /\ port[b] \in Ports /\ port[b] # NoPort
          /\ \A x \in Bridges \ {b} : ~Uses(x, port[b])
          /\ \A o \in orphans[b] : o.port = port[b] => o.serial = serial[b]
        BY DEF IInv, TypeOK, Exclusive, Alone
    <1>1. CASE UNCHANGED forwards
        BY <1>1
    <1>2. ASSUME NEW x \in Bridges, Forward(x) PROVE forwards'[port[b]] = serial[b]
        <2>1. CASE UNCHANGED forwards
            BY <2>1
        <2>2. CASE AdbForward(x, port[x], serial[x])
            <3>1. port[x] = port[b] => x = b
                BY <1>a DEF Uses
            <3> QED BY <1>a, <2>2, <3>1 DEF AdbForward
        <2> QED BY <1>2, <2>1, <2>2 DEF Forward, Target
    <1>3. ASSUME NEW x \in Bridges, Unforward(x), x # b PROVE forwards'[port[b]] = serial[b]
        <2>1. port[x] # port[b]
            BY <1>a, <1>3 DEF Uses
        <2> QED BY <1>a, <1>3, <2>1 DEF Unforward
    <1>4. ASSUME NEW l, Leave(b, l) PROVE FALSE
        BY <1>4, <1>a DEF Leave
    <1>5. ASSUME NEW x \in Bridges, Undo(x) \/ CloseForward(x)
          PROVE  forwards'[port[b]] = serial[b]
        <2>1. Unforward(x) /\ \E l : Leave(x, l)
            BY <1>5 DEF Undo, CloseForward
        <2> QED BY <1>3, <1>4, <2>1
    <1>6. ASSUME NEW x \in Bridges, CycleForward(x) PROVE forwards'[port[b]] = serial[b]
        <2>1. port[x] = port[b] => x = b
            BY <1>a DEF Uses
        <2> QED BY <1>a, <1>6, <2>1 DEF CycleForward, AdbForward
    <1>10. ASSUME NEW x \in Bridges, NEW o \in orphans[x], OrphanForward(x, o)
           PROVE  forwards'[port[b]] = serial[b]
        <2>1. o.port = port[b] => x = b
            BY <1>a DEF Uses
        <2> QED BY <1>a, <1>10, <2>1 DEF OrphanForward, AdbForward
    <1>11. ASSUME NEW x \in Bridges, NEW o \in orphans[x], OrphanEnds(x, o)
           PROVE  UNCHANGED forwards
        BY <1>11 DEF OrphanEnds, netVars
    <1>7. ASSUME NEW d \in Devices, Unplug(d) PROVE forwards'[port[b]] = serial[b]
        BY <1>7, <1>a DEF Unplug
    <1>8. ASSUME NEW x \in Bridges,
                 \/ Resolve(x) \/ Probe(x) \/ Socket(x) \/ Connect(x) \/ Listen(x) \/ Record(x)
                 \/ Wait(x) \/ StopRecord(x) \/ Shutdown(x) \/ CloseProxy(x) \/ Rest(x)
                 \/ CycleDial(x) \/ CycleGiveUp(x) \/ Lose(x) \/ Signal(x)
          PROVE  UNCHANGED forwards
        BY <1>8 DEF Resolve, Probe, Socket, Connect, Listen, Record, Wait, StopRecord, Shutdown,
               CloseProxy, Rest, CycleDial, CycleGiveUp, Lose, Signal, netVars
    <1>9. ASSUME NEW d \in Devices, Plug(d) PROVE UNCHANGED forwards
        BY <1>9 DEF Plug
    <1> QED
        BY <1>1, <1>2, <1>5, <1>6, <1>7, <1>8, <1>9, <1>10, <1>11
        DEF Next, LoopStep, CycleStep

\* A session that has its port to itself keeps its mapping until it gives the port up,
\* whatever the others do (Forward, Unforward and a cycle of a session closed long ago).
THEOREM MappingKeptHolds == Spec => MappingKept
    <1>1. IInv /\ Next => \A b \in Bridges : KeepsMapping(b)
        BY MappingStep DEF KeepsMapping, Alone
    <1> QED BY InvariantHolds, <1>1, PTL DEF Spec, MappingKept

-----------------------------------------------------------------------------
\* A process with --auto-restart exits on a signal alone, and only one without --device
\* ends for another reason: there is not one device that is ready.
Persists ==
    \A b \in Bridges :
        /\ cause[b] = "signal" => b \in signalled
        /\ b \in AutoRestart => /\ pc[b] = "exit" => b \in signalled
                                /\ pc[b] = "fatal" => b \notin Named

\* Leaving an iteration is no reason to end.
LEMMA LeavePersists ==
    ASSUME IInv, Persists, NEW b \in Bridges, NEW l, Leave(b, l), UNCHANGED signalled,
           b \in AutoRestart => /\ l = "exit" => b \in signalled
                                /\ l = "fatal" => b \notin Named
    PROVE  Persists'
    <1>1. /\ pc \in [Bridges -> PcAt] /\ pc' = [pc EXCEPT ![b] = l]
          /\ cause \in [Bridges -> {"none", "failed", "lost", "signal"}]
          /\ cause' = [cause EXCEPT ![b] = "none"]
        BY DEF Leave, Goto, Set, IInv, TypeOK
    <1> QED BY <1>1 DEF Persists

LEMMA PersistsKept == IInv /\ Persists /\ Next => Persists'
    <1> USE DEF Goto, Set, netVars, linkVars, proxyVars, loopVars
    <1> SUFFICES ASSUME IInv, Persists, Next PROVE Persists'
        OBVIOUS
    <1>a. /\ pc \in [Bridges -> PcAt]
          /\ cause \in [Bridges -> {"none", "failed", "lost", "signal"}]
        BY DEF IInv, TypeOK
    <1>1. ASSUME NEW b \in Bridges, Resolve(b) PROVE Persists'
        <2>1. CASE b \notin Named /\ Leave(b, "fatal")
            BY <1>1, <2>1, LeavePersists DEF Resolve
        <2>2. CASE Goto(b, "probe") /\ cause' = cause
            BY <1>1, <1>a, <2>2 DEF Resolve, Persists
        <2> QED BY <1>1, <2>1, <2>2 DEF Resolve
    <1>2. ASSUME NEW b \in Bridges, Leave(b, Failure(b)), UNCHANGED signalled PROVE Persists'
        BY <1>2, LeavePersists DEF Failure
    <1>3. ASSUME NEW b \in Bridges, Probe(b) \/ Socket(b) \/ Forward(b) \/ Undo(b)
          PROVE  Persists'
        <2>1. UNCHANGED signalled
            BY <1>3 DEF Probe, Socket, Forward, Undo
        <2>2. CASE Leave(b, Failure(b))
            BY <1>2, <2>1, <2>2
        <2>3. CASE \E l \in {"socket", "forward", "connect"} : Goto(b, l) /\ cause' = cause
            BY <1>a, <2>1, <2>3 DEF Persists
        <2> QED BY <1>3, <2>2, <2>3 DEF Probe, Socket, Forward, Undo
    <1>4. ASSUME NEW b \in Bridges,
                 Connect(b) \/ Record(b) \/ StopRecord(b) \/ Shutdown(b) \/ CloseProxy(b)
          PROVE  Persists'
        BY <1>4, <1>a DEF Connect, Record, StopRecord, Shutdown, CloseProxy, Persists
    <1>5. ASSUME NEW b \in Bridges, Listen(b) PROVE Persists'
        BY <1>5, <1>a DEF Listen, Persists
    <1>6. ASSUME NEW b \in Bridges, Wait(b) PROVE Persists'
        BY <1>6, <1>a DEF Wait, Persists
    <1>7. ASSUME NEW b \in Bridges, CloseForward(b) PROVE Persists'
        <2>1. UNCHANGED signalled /\ cause[b] \in {"failed", "lost", "signal"}
            BY <1>7, <1>a DEF CloseForward, IInv, Sessions, CloseAt
        <2>2. CASE cause[b] = "failed"
            BY <1>2, <1>7, <2>1, <2>2 DEF CloseForward
        <2>3. CASE cause[b] = "lost"
            <3>1. Leave(b, AfterLoss(b))
                BY <1>7, <2>3 DEF CloseForward
            <3> QED BY <2>1, <3>1, LeavePersists DEF AfterLoss
        <2>4. CASE cause[b] = "signal"
            <3>1. Leave(b, "exit") /\ b \in signalled
                BY <1>7, <2>4 DEF CloseForward, Persists
            <3> QED BY <2>1, <3>1, LeavePersists
        <2> QED BY <2>1, <2>2, <2>3, <2>4
    <1>8. ASSUME NEW b \in Bridges, Rest(b) PROVE Persists'
        <2>1. Leave(b, Again(b)) /\ UNCHANGED signalled
            BY <1>8 DEF Rest
        <2> QED BY <2>1, LeavePersists DEF Again
    <1>9. ASSUME NEW b \in Bridges, CycleStep(b) \/ Signal(b) PROVE Persists'
        BY <1>9 DEF CycleStep, Lose, CycleForward, CycleDial, CycleGiveUp, OrphanForward,
               OrphanEnds, Signal, Persists
    <1>10. ASSUME NEW d \in Devices, Unplug(d) \/ Plug(d) PROVE Persists'
        BY <1>10 DEF Unplug, Plug, Persists
    <1> QED BY <1>1, <1>3, <1>4, <1>5, <1>6, <1>7, <1>8, <1>9, <1>10, LooseAssumption
            DEF Next, LoopStep

\* --auto-restart: neither a start that fails nor a session that is lost ends the process,
\* but for a signal or, without --device, a device that cannot be chosen (runBridge).
THEOREM AutoRestartPersists == Spec => []Persists
    <1>1. Init => Persists
        BY DEF Init, Persists
    <1>2. Persists /\ UNCHANGED vars => Persists'
        BY DEF Persists, vars, loopVars
    <1> QED BY InvariantHolds, PersistsKept, <1>1, <1>2, PTL DEF Spec
=============================================================================
