---------------------------- MODULE ProxyProofs ----------------------------
(***************************************************************************)
(* Proofs about Proxy, for any number of clients, connections and          *)
(* attempts.  The inductive invariant is the conjunction of the safety     *)
(* invariants with what they need of each other.                           *)
(***************************************************************************)
EXTENDS Proxy, TLAPS

\* The lock of a write and the location of its pump go together.
WritingHeld ==
    /\ \A p \in Pumps : pc[p] = "writing" <=> writing = p
    /\ writing # Nobody => upstream # NoConn

\* The upstream is out while a cycle runs, and the cycle installs a connection.
CycleHolds ==
    /\ reconnectGate # Nobody => upstream = NoConn
    /\ \A p \in Pumps : pc[p] = "install" => hold[p] # NoConn
    /\ reconnectGate = Nobody => tries = 0
    /\ \A p \in Pumps : pc[p] \in {"closeold", "forward", "dial"} => tries < Attempts

\* p.upstream, the cycle and Close never have the same connection.
OneOwner ==
    /\ upstream # NoConn => upstream # closing
    /\ \A p \in Pumps, k \in Conns : Carries(p, k) => k # upstream /\ k # closing
    /\ closing # NoConn => closer = "closeconn"

\* How far Close has come.
CloserOrder ==
    /\ closer # "idle" => closed
    /\ closer \notin {"idle", "signal"} => done

IInv == /\ TypeOK /\ OneServe /\ SingleFlight /\ NoLostWakeup
        /\ WritingHeld /\ NoCloseDuringWrite
        /\ CycleHolds /\ OneOwner /\ NoneLeaked /\ NilExplained /\ CloserOrder

-----------------------------------------------------------------------------
\* What a pump is: a client and a role; Nobody is none.
LEMMA PumpFacts ==
    /\ \A c \in Clients : /\ Reader(c) \in Pumps /\ Reader(c)[1] = c /\ Reader(c)[2] = "reader"
                          /\ Writer(c) \in Pumps /\ Writer(c)[1] = c /\ Writer(c)[2] = "writer"
    /\ \A p \in Pumps : p[1] \in Clients /\ p[2] \in Roles
    /\ \A p \in Pumps : p = Reader(p[1]) \/ p = Writer(p[1])
    /\ Nobody \notin Pumps
    BY DEF Pumps, Roles, Reader, Writer, Nobody

\* NewProxy's result has every invariant.
LEMMA InitInv == Init => IInv
    <1> USE PumpFacts, ConnsAssumption, AttemptsAssumption DEF Init
    <1>1. Init => TypeOK
        <2>1. Init => ProxyTypes
            <3>1. Init => tries \in 0..Attempts
                OBVIOUS
            <3>2. Init => reconnectErr \in BOOLEAN /\ closed \in BOOLEAN /\ done \in BOOLEAN
                          /\ busy \in BOOLEAN
                OBVIOUS
            <3> QED BY <3>1, <3>2 DEF ProxyTypes
        <2>2. Init => WorldTypes
            BY DEF WorldTypes
        <2>3. Init => PumpTypes
            BY DEF PumpTypes, PumpAt, StopAt
        <2>4. Init => CallTypes
            BY DEF CallTypes, MainAt, CloserAt
        <2> QED BY <2>1, <2>2, <2>3, <2>4 DEF TypeOK
    <1>2. Init => OneServe /\ SingleFlight /\ NoLostWakeup /\ WritingHeld /\ NoCloseDuringWrite
        BY DEF OneServe, InServe, SingleFlight, NoLostWakeup, WritingHeld, NoCloseDuringWrite,
               CycleAt
    <1>3. Init => CycleHolds /\ OneOwner /\ NoneLeaked /\ NilExplained /\ CloserOrder
        BY DEF CycleHolds, OneOwner, NoneLeaked, Owned, Carries, NilExplained, CloserOrder
    <1> QED BY <1>1, <1>2, <1>3 DEF IInv

-----------------------------------------------------------------------------
\* Type correctness, with the bound on the attempts it needs.
\* Types: the reader's own steps and the frames it is sent.
LEMMA ReaderTypes ==
    ASSUME TypeOK, CycleHolds, NEW c \in Clients, ReaderStep(c) \/ ReadFrame(c)
    PROVE  TypeOK'
    <1> USE PumpFacts, ConnsAssumption, AttemptsAssumption
        DEF TypeOK, ProxyTypes, WorldTypes, PumpTypes, CallTypes,
        CycleAt, ReleaseAt, StopAt, PumpAt, ReaderAt, WriterAt,
        ReconnectAt, MainAt, CloserAt, Roles,
        proxyVars, worldVars, pumpVars, serveVars, closeVars, Goto
    <1>1. CASE ReaderTop(c)
        <2>1. ProxyTypes'
            BY <1>1 DEF ReaderTop, CycleHolds
        <2>2. WorldTypes'
            BY <1>1 DEF ReaderTop, CycleHolds
        <2>3. PumpTypes'
            <3>1. (pc \in [Pumps -> PumpAt])'
                BY <1>1, SMTT(30) DEF ReaderTop
            <3>2. (hold \in [Pumps -> Conns \cup {NoConn}])'
                BY <1>1 DEF ReaderTop
            <3>3. (await \in [Pumps -> Pumps \cup {Nobody}])'
                BY <1>1 DEF ReaderTop
            <3>4. (purpose \in [Clients -> {"frame", "retry", "synthetic"}])'
                BY <1>1 DEF ReaderTop
            <3> QED BY <3>1, <3>2, <3>3, <3>4
        <2>4. CallTypes'
            BY <1>1 DEF ReaderTop, CycleHolds
        <2> QED BY <2>1, <2>2, <2>3, <2>4
    <1>2. CASE ReaderGateWait(c)
        BY <1>2 DEF ReaderGateWait
    <1>3. CASE ReadError(c)
        BY <1>3 DEF ReadError
    <1>4. CASE ReadFrame(c)
        BY <1>4 DEF ReadFrame, WriteDownstream
    <1> QED BY <1>1, <1>2, <1>3, <1>4 DEF ReaderStep

\* Types: the writer's steps, and what its client sends it.
LEMMA WriterTypes ==
    ASSUME TypeOK, CycleHolds, NEW c \in Clients, WriterStep(c) \/ WriterRecv(c) \/ Method(c)
    PROVE  TypeOK'
    <1> USE PumpFacts, ConnsAssumption, AttemptsAssumption
        DEF TypeOK, ProxyTypes, WorldTypes, PumpTypes, CallTypes,
        CycleAt, ReleaseAt, StopAt, PumpAt, ReaderAt, WriterAt,
        ReconnectAt, MainAt, CloserAt, Roles,
        proxyVars, worldVars, pumpVars, serveVars, closeVars, Goto
    <1>1. CASE WriterRecvError(c)
        BY <1>1 DEF WriterRecvError
    <1>2. CASE SyntheticEnd(c)
        BY <1>2 DEF SyntheticEnd
    <1>3. CASE Reply(c)
        BY <1>3 DEF Reply, WriteDownstream
    <1>4. CASE WriteBegin(c)
        <2>1. ProxyTypes'
            BY <1>4 DEF WriteBegin, CanWrite, AfterWriteError, CycleHolds
        <2>2. WorldTypes'
            BY <1>4 DEF WriteBegin, CanWrite, AfterWriteError, CycleHolds
        <2>3. PumpTypes'
            <3>1. (pc \in [Pumps -> PumpAt])'
                BY <1>4, SMTT(30) DEF WriteBegin, CanWrite, AfterWriteError
            <3>2. (hold \in [Pumps -> Conns \cup {NoConn}])'
                BY <1>4 DEF WriteBegin, CanWrite, AfterWriteError
            <3>3. (await \in [Pumps -> Pumps \cup {Nobody}])'
                BY <1>4 DEF WriteBegin, CanWrite, AfterWriteError
            <3>4. (purpose \in [Clients -> {"frame", "retry", "synthetic"}])'
                BY <1>4 DEF WriteBegin, CanWrite, AfterWriteError
            <3> QED BY <3>1, <3>2, <3>3, <3>4
        <2>4. CallTypes'
            BY <1>4 DEF WriteBegin, CanWrite, AfterWriteError, CycleHolds
        <2> QED BY <2>1, <2>2, <2>3, <2>4
    <1>5. CASE WriteEnd(c)
        <2>1. ProxyTypes'
            BY <1>5 DEF WriteEnd, AfterWrite, AfterWriteError, CycleHolds
        <2>2. WorldTypes'
            BY <1>5 DEF WriteEnd, AfterWrite, AfterWriteError, CycleHolds
        <2>3. PumpTypes'
            <3>1. (pc \in [Pumps -> PumpAt])'
                BY <1>5, SMTT(30) DEF WriteEnd, AfterWrite, AfterWriteError
            <3>2. (hold \in [Pumps -> Conns \cup {NoConn}])'
                BY <1>5 DEF WriteEnd, AfterWrite, AfterWriteError
            <3>3. (await \in [Pumps -> Pumps \cup {Nobody}])'
                BY <1>5 DEF WriteEnd, AfterWrite, AfterWriteError
            <3>4. (purpose \in [Clients -> {"frame", "retry", "synthetic"}])'
                BY <1>5 DEF WriteEnd, AfterWrite, AfterWriteError
            <3> QED BY <3>1, <3>2, <3>3, <3>4
        <2>4. CallTypes'
            BY <1>5 DEF WriteEnd, AfterWrite, AfterWriteError, CycleHolds
        <2> QED BY <2>1, <2>2, <2>3, <2>4
    <1>6. CASE WriterRecv(c)
        BY <1>6 DEF WriterRecv
    <1>7. CASE WriterRecvMethod(c)
        BY <1>7 DEF WriterRecvMethod
    <1>8. CASE SyntheticSend(c)
        BY <1>8 DEF SyntheticSend
    <1> QED BY <1>1, <1>2, <1>3, <1>4, <1>5, <1>6, <1>7, <1>8 DEF WriterStep, Method

\* Types: losing the upstream: either pump's way through the reconnect.
LEMMA CycleTypes ==
    ASSUME TypeOK, CycleHolds, NEW p \in Pumps, ReconnectStep(p)
    PROVE  TypeOK'
    <1> USE PumpFacts, ConnsAssumption, AttemptsAssumption
        DEF TypeOK, ProxyTypes, WorldTypes, PumpTypes, CallTypes,
        CycleAt, ReleaseAt, StopAt, PumpAt, ReaderAt, WriterAt,
        ReconnectAt, MainAt, CloserAt, Roles,
        proxyVars, worldVars, pumpVars, serveVars, closeVars, Goto
    <1>1. CASE Failed(p)
        BY <1>1 DEF Failed
    <1>2. CASE Ensure(p)
        BY <1>2 DEF Ensure, CanLock, JoinCycle
    <1>3. CASE Reconnect(p)
        <2>1. ProxyTypes'
            <3>1. (upstream \in Conns \cup {NoConn})'
                BY <1>3 DEF Reconnect, CanLock, NoCycle, JoinCycle
            <3>2. (reconnectGate \in Pumps \cup {Nobody})'
                BY <1>3 DEF Reconnect, CanLock, NoCycle, JoinCycle
            <3>3. (reconnectErr \in BOOLEAN)'
                BY <1>3 DEF Reconnect, CanLock, NoCycle, JoinCycle
            <3>4. UNCHANGED <<closed, done, busy, writing, tries>>
                BY <1>3 DEF Reconnect, CanLock, NoCycle, JoinCycle
            <3> QED BY <3>1, <3>2, <3>3, <3>4
        <2>2. WorldTypes'
            BY <1>3 DEF Reconnect, CanLock, NoCycle, JoinCycle, CycleHolds
        <2>3. PumpTypes'
            <3>1. (pc \in [Pumps -> PumpAt])'
                BY <1>3, SMTT(30) DEF Reconnect, CanLock, NoCycle, JoinCycle
            <3>2. (hold \in [Pumps -> Conns \cup {NoConn}])'
                BY <1>3 DEF Reconnect, CanLock, NoCycle, JoinCycle
            <3>3. (await \in [Pumps -> Pumps \cup {Nobody}])'
                BY <1>3 DEF Reconnect, CanLock, NoCycle, JoinCycle
            <3>4. (purpose \in [Clients -> {"frame", "retry", "synthetic"}])'
                BY <1>3 DEF Reconnect, CanLock, NoCycle, JoinCycle
            <3> QED BY <3>1, <3>2, <3>3, <3>4
        <2>4. CallTypes'
            BY <1>3 DEF Reconnect, CanLock, NoCycle, JoinCycle, CycleHolds
        <2> QED BY <2>1, <2>2, <2>3, <2>4
    <1>4. CASE CloseOld(p)
        BY <1>4 DEF CloseOld, CycleHolds
    <1>5. CASE ForwardStep(p)
        <2>1. ProxyTypes'
            BY <1>5 DEF ForwardStep, NextAttempt, CycleHolds
        <2>2. WorldTypes'
            BY <1>5 DEF ForwardStep, NextAttempt, CycleHolds
        <2>3. PumpTypes'
            BY <1>5 DEF ForwardStep, NextAttempt, CycleHolds
        <2>4. CallTypes'
            BY <1>5 DEF ForwardStep, NextAttempt, CycleHolds
        <2> QED BY <2>1, <2>2, <2>3, <2>4
    <1>6. CASE Dial(p)
        <2>1. ProxyTypes'
            BY <1>6 DEF Dial, NextAttempt, Free, CycleHolds
        <2>2. WorldTypes'
            BY <1>6 DEF Dial, NextAttempt, Free, CycleHolds
        <2>3. PumpTypes'
            BY <1>6 DEF Dial, NextAttempt, Free, CycleHolds
        <2>4. CallTypes'
            BY <1>6 DEF Dial, NextAttempt, Free, CycleHolds
        <2> QED BY <2>1, <2>2, <2>3, <2>4
    <1>7. CASE Install(p)
        BY <1>7 DEF Install, CanLock
    <1>8. CASE GiveUp(p)
        BY <1>8 DEF GiveUp, CanLock
    <1>9. CASE Release(p)
        BY <1>9 DEF Release, Wake, Resume
    <1>10. CASE ReleaseFail(p)
        BY <1>10 DEF ReleaseFail, Wake
    <1>11. CASE SignalDone(p)
        BY <1>11 DEF SignalDone
    <1>12. CASE AwaitReturn(p)
        <2>1. ProxyTypes'
            BY <1>12 DEF AwaitReturn, Resume, CycleHolds
        <2>2. WorldTypes'
            BY <1>12 DEF AwaitReturn, Resume, CycleHolds
        <2>3. PumpTypes'
            <3>1. (pc \in [Pumps -> PumpAt])'
                BY <1>12, SMTT(30) DEF AwaitReturn, Resume
            <3>2. (hold \in [Pumps -> Conns \cup {NoConn}])'
                BY <1>12 DEF AwaitReturn, Resume
            <3>3. (await \in [Pumps -> Pumps \cup {Nobody}])'
                BY <1>12 DEF AwaitReturn, Resume
            <3>4. (purpose \in [Clients -> {"frame", "retry", "synthetic"}])'
                BY <1>12 DEF AwaitReturn, Resume
            <3> QED BY <3>1, <3>2, <3>3, <3>4
        <2>4. CallTypes'
            BY <1>12 DEF AwaitReturn, Resume, CycleHolds
        <2> QED BY <2>1, <2>2, <2>3, <2>4
    <1>13. CASE PumpExit(p)
        BY <1>13 DEF PumpExit
    <1> QED BY <1>1, <1>2, <1>3, <1>4, <1>5, <1>6, <1>7, <1>8, <1>9, <1>10, <1>11, <1>12,
        <1>13 DEF ReconnectStep

\* Types: the HTTP handler and Serve.
LEMMA ServeTypes ==
    ASSUME TypeOK, CycleHolds, NEW c \in Clients,
        ServeStep(c) \/ Attach(c) \/ Cancel(c) \/ ClientLeaves(c)
    PROVE  TypeOK'
    <1> USE PumpFacts, ConnsAssumption, AttemptsAssumption
        DEF TypeOK, ProxyTypes, WorldTypes, PumpTypes, CallTypes,
        CycleAt, ReleaseAt, StopAt, PumpAt, ReaderAt, WriterAt,
        ReconnectAt, MainAt, CloserAt, Roles,
        proxyVars, worldVars, pumpVars, serveVars, closeVars, MainGoto
    <1>1. CASE ServeBegin(c)
        <2>1. ProxyTypes'
            BY <1>1 DEF ServeBegin, CycleHolds
        <2>2. WorldTypes'
            BY <1>1 DEF ServeBegin, CycleHolds
        <2>3. PumpTypes'
            BY <1>1 DEF ServeBegin, CycleHolds
        <2>4. CallTypes'
            BY <1>1 DEF ServeBegin, CycleHolds
        <2> QED BY <2>1, <2>2, <2>3, <2>4
    <1>2. CASE TurnedAway(c)
        BY <1>2 DEF TurnedAway
    <1>3. CASE Select(c)
        BY <1>3 DEF Select, ServeStop
    <1>4. CASE Snapshot(c)
        BY <1>4 DEF Snapshot
    <1>5. CASE Deadline(c)
        BY <1>5 DEF Deadline
    <1>6. CASE ServeReturn(c)
        <2>1. ProxyTypes'
            BY <1>6 DEF ServeReturn, Joined, CycleHolds
        <2>2. WorldTypes'
            BY <1>6 DEF ServeReturn, Joined, CycleHolds
        <2>3. PumpTypes'
            BY <1>6 DEF ServeReturn, Joined, CycleHolds
        <2>4. CallTypes'
            BY <1>6 DEF ServeReturn, Joined, CycleHolds
        <2> QED BY <2>1, <2>2, <2>3, <2>4
    <1>7. CASE Attach(c)
        BY <1>7 DEF Attach
    <1>8. CASE Cancel(c)
        BY <1>8 DEF Cancel, ServeStop
    <1>9. CASE ClientLeaves(c)
        BY <1>9 DEF ClientLeaves
    <1> QED BY <1>1, <1>2, <1>3, <1>4, <1>5, <1>6, <1>7, <1>8, <1>9 DEF ServeStep

\* Types: close, and what happens outside the program.
LEMMA CloseTypes ==
    ASSUME TypeOK, CycleHolds, CloseBegin \/ CloseStep \/ ConnLost \/ ForwardLost \/ Finished
    PROVE  TypeOK'
    <1> USE PumpFacts, ConnsAssumption, AttemptsAssumption
        DEF TypeOK, ProxyTypes, WorldTypes, PumpTypes, CallTypes,
        CycleAt, ReleaseAt, StopAt, PumpAt, ReaderAt, WriterAt,
        ReconnectAt, MainAt, CloserAt, Roles,
        proxyVars, worldVars, pumpVars, serveVars, closeVars
    <1>1. CASE CloseBegin
        BY <1>1 DEF CloseBegin
    <1>2. CASE CloseSignal
        BY <1>2 DEF CloseSignal
    <1>3. CASE CloseSwap
        BY <1>3 DEF CloseSwap, CanLock
    <1>4. CASE CloseConn
        BY <1>4 DEF CloseConn
    <1>5. CASE CloseUnforward
        <2>1. WorldTypes'
            BY <1>5 DEF CloseUnforward
        <2>2. ProxyTypes' /\ CallTypes'
            BY <1>5 DEF CloseUnforward
        <2>3. PumpTypes'
            BY <1>5 DEF CloseUnforward
        <2> QED BY <2>1, <2>2, <2>3
    <1>6. CASE ConnLost
        <2>1. WorldTypes'
            BY <1>6 DEF ConnLost, Live
        <2>2. ProxyTypes' /\ CallTypes'
            BY <1>6 DEF ConnLost
        <2>3. PumpTypes'
            BY <1>6 DEF ConnLost
        <2> QED BY <2>1, <2>2, <2>3
    <1>7. CASE ForwardLost
        <2>1. WorldTypes'
            BY <1>7 DEF ForwardLost, Live
        <2>2. ProxyTypes' /\ CallTypes'
            BY <1>7 DEF ForwardLost
        <2>3. PumpTypes'
            BY <1>7 DEF ForwardLost
        <2> QED BY <2>1, <2>2, <2>3
    <1>8. CASE Finished
        BY <1>8 DEF Finished, vars
    <1> QED BY <1>1, <1>2, <1>3, <1>4, <1>5, <1>6, <1>7, <1>8 DEF CloseStep

-----------------------------------------------------------------------------
\* The rest of the inductive invariant.
\* The reader's own steps and the frames it is sent.
LEMMA ReaderKeeps ==
    ASSUME IInv, NEW c \in Clients, ReaderStep(c) \/ ReadFrame(c)
    PROVE  IInv'
    <1> USE PumpFacts, ConnsAssumption, AttemptsAssumption
        DEF IInv, TypeOK, ProxyTypes, WorldTypes, PumpTypes, CallTypes,
        OneServe, SingleFlight, NoLostWakeup, WritingHeld, NoCloseDuringWrite, CycleHolds,
            OneOwner, NoneLeaked, NilExplained, CloserOrder, Carries,
        Owned, InServe,
        CycleAt, ReleaseAt, StopAt, PumpAt, ReaderAt, WriterAt,
        ReconnectAt, MainAt, CloserAt, Roles,
        proxyVars, worldVars, pumpVars, serveVars, closeVars, Goto
    <1>0. TypeOK'
        BY ReaderTypes
    <1>1. CASE ReaderTop(c)
        <2>1. OneServe'
            BY <1>0, <1>1 DEF ReaderTop
        <2>2. SingleFlight'
            BY <1>0, <1>1 DEF ReaderTop
        <2>3. NoLostWakeup'
            BY <1>0, <1>1 DEF ReaderTop
        <2>4. WritingHeld'
            BY <1>0, <1>1 DEF ReaderTop
        <2>5. NoCloseDuringWrite'
            BY <1>0, <1>1 DEF ReaderTop
        <2>6. CycleHolds'
            BY <1>0, <1>1 DEF ReaderTop
        <2>7. OneOwner'
            BY <1>0, <1>1 DEF ReaderTop
        <2>8. NoneLeaked'
            BY <1>0, <1>1, SMTT(20) DEF ReaderTop
        <2>9. NilExplained'
            BY <1>0, <1>1 DEF ReaderTop
        <2>10. CloserOrder'
            BY <1>0, <1>1 DEF ReaderTop
        <2> QED BY <1>0, <2>1, <2>2, <2>3, <2>4, <2>5, <2>6, <2>7, <2>8, <2>9, <2>10
    <1>2. CASE ReaderGateWait(c)
        <2>1. OneServe'
            BY <1>0, <1>2 DEF ReaderGateWait
        <2>2. SingleFlight'
            BY <1>0, <1>2 DEF ReaderGateWait
        <2>3. NoLostWakeup'
            BY <1>0, <1>2 DEF ReaderGateWait
        <2>4. WritingHeld'
            BY <1>0, <1>2 DEF ReaderGateWait
        <2>5. NoCloseDuringWrite'
            BY <1>0, <1>2 DEF ReaderGateWait
        <2>6. CycleHolds'
            BY <1>0, <1>2 DEF ReaderGateWait
        <2>7. OneOwner'
            BY <1>0, <1>2 DEF ReaderGateWait
        <2>8. NoneLeaked'
            BY <1>0, <1>2 DEF ReaderGateWait
        <2>9. NilExplained'
            BY <1>0, <1>2 DEF ReaderGateWait
        <2>10. CloserOrder'
            BY <1>0, <1>2 DEF ReaderGateWait
        <2> QED BY <1>0, <2>1, <2>2, <2>3, <2>4, <2>5, <2>6, <2>7, <2>8, <2>9, <2>10
    <1>3. CASE ReadError(c)
        BY <1>0, <1>3 DEF ReadError
    <1>4. CASE ReadFrame(c)
        BY <1>0, <1>4 DEF ReadFrame, WriteDownstream
    <1> QED BY <1>1, <1>2, <1>3, <1>4 DEF ReaderStep

\* The writer's steps, and what its client sends it.
LEMMA WriterKeeps ==
    ASSUME IInv, NEW c \in Clients, WriterStep(c) \/ WriterRecv(c) \/ Method(c)
    PROVE  IInv'
    <1> USE PumpFacts, ConnsAssumption, AttemptsAssumption
        DEF IInv, TypeOK, ProxyTypes, WorldTypes, PumpTypes, CallTypes,
        OneServe, SingleFlight, NoLostWakeup, WritingHeld, NoCloseDuringWrite, CycleHolds,
            OneOwner, NoneLeaked, NilExplained, CloserOrder, Carries,
        Owned, InServe,
        CycleAt, ReleaseAt, StopAt, PumpAt, ReaderAt, WriterAt,
        ReconnectAt, MainAt, CloserAt, Roles,
        proxyVars, worldVars, pumpVars, serveVars, closeVars, Goto
    <1>0. TypeOK'
        BY WriterTypes
    <1>1. CASE WriterRecvError(c)
        BY <1>0, <1>1 DEF WriterRecvError
    <1>2. CASE SyntheticEnd(c)
        BY <1>0, <1>2 DEF SyntheticEnd
    <1>3. CASE Reply(c)
        BY <1>0, <1>3 DEF Reply, WriteDownstream
    <1>4. CASE WriteBegin(c)
        <2>1. OneServe'
            BY <1>0, <1>4 DEF WriteBegin, CanWrite, AfterWriteError
        <2>2. SingleFlight'
            BY <1>0, <1>4 DEF WriteBegin, CanWrite, AfterWriteError
        <2>3. NoLostWakeup'
            BY <1>0, <1>4 DEF WriteBegin, CanWrite, AfterWriteError
        <2>4. WritingHeld'
            BY <1>0, <1>4 DEF WriteBegin, CanWrite, AfterWriteError
        <2>5. NoCloseDuringWrite'
            BY <1>0, <1>4 DEF WriteBegin, CanWrite, AfterWriteError
        <2>6. CycleHolds'
            BY <1>0, <1>4 DEF WriteBegin, CanWrite, AfterWriteError
        <2>7. OneOwner'
            BY <1>0, <1>4 DEF WriteBegin, CanWrite, AfterWriteError
        <2>8. NoneLeaked'
            BY <1>0, <1>4 DEF WriteBegin, CanWrite, AfterWriteError
        <2>9. NilExplained'
            BY <1>0, <1>4 DEF WriteBegin, CanWrite, AfterWriteError
        <2>10. CloserOrder'
            BY <1>0, <1>4 DEF WriteBegin, CanWrite, AfterWriteError
        <2> QED BY <1>0, <2>1, <2>2, <2>3, <2>4, <2>5, <2>6, <2>7, <2>8, <2>9, <2>10
    <1>5. CASE WriteEnd(c)
        <2>1. OneServe'
            BY <1>0, <1>5 DEF WriteEnd, AfterWrite, AfterWriteError
        <2>2. SingleFlight'
            BY <1>0, <1>5 DEF WriteEnd, AfterWrite, AfterWriteError
        <2>3. NoLostWakeup'
            BY <1>0, <1>5 DEF WriteEnd, AfterWrite, AfterWriteError
        <2>4. WritingHeld'
            BY <1>0, <1>5 DEF WriteEnd, AfterWrite, AfterWriteError
        <2>5. NoCloseDuringWrite'
            BY <1>0, <1>5 DEF WriteEnd, AfterWrite, AfterWriteError
        <2>6. CycleHolds'
            BY <1>0, <1>5 DEF WriteEnd, AfterWrite, AfterWriteError
        <2>7. OneOwner'
            BY <1>0, <1>5 DEF WriteEnd, AfterWrite, AfterWriteError
        <2>8. NoneLeaked'
            BY <1>0, <1>5 DEF WriteEnd, AfterWrite, AfterWriteError
        <2>9. NilExplained'
            BY <1>0, <1>5 DEF WriteEnd, AfterWrite, AfterWriteError
        <2>10. CloserOrder'
            BY <1>0, <1>5 DEF WriteEnd, AfterWrite, AfterWriteError
        <2> QED BY <1>0, <2>1, <2>2, <2>3, <2>4, <2>5, <2>6, <2>7, <2>8, <2>9, <2>10
    <1>6. CASE WriterRecv(c)
        BY <1>0, <1>6 DEF WriterRecv
    <1>7. CASE WriterRecvMethod(c)
        BY <1>0, <1>7 DEF WriterRecvMethod
    <1>8. CASE SyntheticSend(c)
        BY <1>0, <1>8 DEF SyntheticSend
    <1> QED BY <1>1, <1>2, <1>3, <1>4, <1>5, <1>6, <1>7, <1>8 DEF WriterStep, Method

\* Losing the upstream: either pump's way through the reconnect.
LEMMA CycleKeeps ==
    ASSUME IInv, NEW p \in Pumps, ReconnectStep(p)
    PROVE  IInv'
    <1> USE PumpFacts, ConnsAssumption, AttemptsAssumption
        DEF IInv, TypeOK, ProxyTypes, WorldTypes, PumpTypes, CallTypes,
        OneServe, SingleFlight, NoLostWakeup, WritingHeld, NoCloseDuringWrite, CycleHolds,
            OneOwner, NoneLeaked, NilExplained, CloserOrder, Carries,
        Owned, InServe,
        CycleAt, ReleaseAt, StopAt, PumpAt, ReaderAt, WriterAt,
        ReconnectAt, MainAt, CloserAt, Roles,
        proxyVars, worldVars, pumpVars, serveVars, closeVars, Goto
    <1>0. TypeOK'
        BY CycleTypes
    <1>1. CASE Failed(p)
        BY <1>0, <1>1 DEF Failed
    <1>2. CASE Ensure(p)
        <2>1. OneServe'
            BY <1>0, <1>2 DEF Ensure, CanLock, JoinCycle
        <2>2. SingleFlight'
            BY <1>0, <1>2 DEF Ensure, CanLock, JoinCycle
        <2>3. NoLostWakeup'
            <3>1. CASE reconnectGate = Nobody
                BY <1>0, <1>2, <3>1 DEF Ensure, CanLock, JoinCycle
            <3>2. CASE reconnectGate # Nobody
                BY <1>0, <1>2, <3>2 DEF Ensure, CanLock, JoinCycle
            <3> QED BY <1>2, <3>1, <3>2 DEF Ensure, CanLock, JoinCycle
        <2>4. WritingHeld'
            BY <1>0, <1>2 DEF Ensure, CanLock, JoinCycle
        <2>5. NoCloseDuringWrite'
            BY <1>0, <1>2 DEF Ensure, CanLock, JoinCycle
        <2>6. CycleHolds'
            BY <1>0, <1>2 DEF Ensure, CanLock, JoinCycle
        <2>7. OneOwner'
            BY <1>0, <1>2 DEF Ensure, CanLock, JoinCycle
        <2>8. NoneLeaked'
            BY <1>0, <1>2 DEF Ensure, CanLock, JoinCycle
        <2>9. NilExplained'
            BY <1>0, <1>2 DEF Ensure, CanLock, JoinCycle
        <2>10. CloserOrder'
            BY <1>0, <1>2 DEF Ensure, CanLock, JoinCycle
        <2> QED BY <1>0, <2>1, <2>2, <2>3, <2>4, <2>5, <2>6, <2>7, <2>8, <2>9, <2>10
    <1>3. CASE Reconnect(p)
        <2>1. OneServe'
            BY <1>0, <1>3 DEF Reconnect, CanLock, NoCycle, JoinCycle
        <2>2. SingleFlight'
            BY <1>0, <1>3 DEF Reconnect, CanLock, NoCycle, JoinCycle
        <2>3. NoLostWakeup'
            BY <1>0, <1>3 DEF Reconnect, CanLock, NoCycle, JoinCycle
        <2>4. WritingHeld'
            BY <1>0, <1>3 DEF Reconnect, CanLock, NoCycle, JoinCycle
        <2>5. NoCloseDuringWrite'
            BY <1>0, <1>3 DEF Reconnect, CanLock, NoCycle, JoinCycle
        <2>6. CycleHolds'
            BY <1>0, <1>3 DEF Reconnect, CanLock, NoCycle, JoinCycle
        <2>7. OneOwner'
            BY <1>0, <1>3 DEF Reconnect, CanLock, NoCycle, JoinCycle
        <2>8. NoneLeaked'
            BY <1>0, <1>3 DEF Reconnect, CanLock, NoCycle, JoinCycle
        <2>9. NilExplained'
            BY <1>0, <1>3 DEF Reconnect, CanLock, NoCycle, JoinCycle
        <2>10. CloserOrder'
            BY <1>0, <1>3 DEF Reconnect, CanLock, NoCycle, JoinCycle
        <2> QED BY <1>0, <2>1, <2>2, <2>3, <2>4, <2>5, <2>6, <2>7, <2>8, <2>9, <2>10
    <1>4. CASE CloseOld(p)
        <2>1. OneServe'
            BY <1>0, <1>4 DEF CloseOld
        <2>2. SingleFlight'
            BY <1>0, <1>4 DEF CloseOld
        <2>3. NoLostWakeup'
            BY <1>0, <1>4 DEF CloseOld
        <2>4. WritingHeld'
            BY <1>0, <1>4 DEF CloseOld
        <2>5. NoCloseDuringWrite'
            BY <1>0, <1>4 DEF CloseOld
        <2>6. CycleHolds'
            BY <1>0, <1>4 DEF CloseOld
        <2>7. OneOwner'
            BY <1>0, <1>4 DEF CloseOld
        <2>8. NoneLeaked'
            BY <1>0, <1>4 DEF CloseOld
        <2>9. NilExplained'
            BY <1>0, <1>4 DEF CloseOld
        <2>10. CloserOrder'
            BY <1>0, <1>4 DEF CloseOld
        <2> QED BY <1>0, <2>1, <2>2, <2>3, <2>4, <2>5, <2>6, <2>7, <2>8, <2>9, <2>10
    <1>5. CASE ForwardStep(p)
        <2>1. OneServe'
            BY <1>0, <1>5 DEF ForwardStep, NextAttempt
        <2>2. SingleFlight'
            BY <1>0, <1>5 DEF ForwardStep, NextAttempt
        <2>3. NoLostWakeup'
            BY <1>0, <1>5 DEF ForwardStep, NextAttempt
        <2>4. WritingHeld'
            BY <1>0, <1>5 DEF ForwardStep, NextAttempt
        <2>5. NoCloseDuringWrite'
            BY <1>0, <1>5 DEF ForwardStep, NextAttempt
        <2>6. CycleHolds'
            BY <1>0, <1>5 DEF ForwardStep, NextAttempt
        <2>7. OneOwner'
            BY <1>0, <1>5 DEF ForwardStep, NextAttempt
        <2>8. NoneLeaked'
            BY <1>0, <1>5 DEF ForwardStep, NextAttempt
        <2>9. NilExplained'
            BY <1>0, <1>5 DEF ForwardStep, NextAttempt
        <2>10. CloserOrder'
            BY <1>0, <1>5 DEF ForwardStep, NextAttempt
        <2> QED BY <1>0, <2>1, <2>2, <2>3, <2>4, <2>5, <2>6, <2>7, <2>8, <2>9, <2>10
    <1>6. CASE Dial(p)
        <2>1. OneServe'
            BY <1>0, <1>6 DEF Dial, NextAttempt, Free
        <2>2. SingleFlight'
            BY <1>0, <1>6 DEF Dial, NextAttempt, Free
        <2>3. NoLostWakeup'
            BY <1>0, <1>6 DEF Dial, NextAttempt, Free
        <2>4. WritingHeld'
            BY <1>0, <1>6 DEF Dial, NextAttempt, Free
        <2>5. NoCloseDuringWrite'
            BY <1>0, <1>6 DEF Dial, NextAttempt, Free
        <2>6. CycleHolds'
            BY <1>0, <1>6 DEF Dial, NextAttempt, Free
        <2>7. OneOwner'
            BY <1>0, <1>6 DEF Dial, NextAttempt, Free
        <2>8. NoneLeaked'
            BY <1>0, <1>6 DEF Dial, NextAttempt, Free
        <2>9. NilExplained'
            BY <1>0, <1>6 DEF Dial, NextAttempt, Free
        <2>10. CloserOrder'
            BY <1>0, <1>6 DEF Dial, NextAttempt, Free
        <2> QED BY <1>0, <2>1, <2>2, <2>3, <2>4, <2>5, <2>6, <2>7, <2>8, <2>9, <2>10
    <1>7. CASE Install(p)
        BY <1>0, <1>7 DEF Install, CanLock
    <1>8. CASE GiveUp(p)
        BY <1>0, <1>8 DEF GiveUp, CanLock
    <1>9. CASE Release(p)
        BY <1>0, <1>9 DEF Release, Wake, Resume
    <1>10. CASE ReleaseFail(p)
        BY <1>0, <1>10 DEF ReleaseFail, Wake
    <1>11. CASE SignalDone(p)
        BY <1>0, <1>11 DEF SignalDone
    <1>12. CASE AwaitReturn(p)
        <2>1. OneServe'
            BY <1>0, <1>12 DEF AwaitReturn, Resume
        <2>2. SingleFlight'
            BY <1>0, <1>12 DEF AwaitReturn, Resume
        <2>3. NoLostWakeup'
            BY <1>0, <1>12 DEF AwaitReturn, Resume
        <2>4. WritingHeld'
            BY <1>0, <1>12 DEF AwaitReturn, Resume
        <2>5. NoCloseDuringWrite'
            BY <1>0, <1>12 DEF AwaitReturn, Resume
        <2>6. CycleHolds'
            BY <1>0, <1>12 DEF AwaitReturn, Resume
        <2>7. OneOwner'
            BY <1>0, <1>12 DEF AwaitReturn, Resume
        <2>8. NoneLeaked'
            BY <1>0, <1>12 DEF AwaitReturn, Resume
        <2>9. NilExplained'
            BY <1>0, <1>12 DEF AwaitReturn, Resume
        <2>10. CloserOrder'
            BY <1>0, <1>12 DEF AwaitReturn, Resume
        <2> QED BY <1>0, <2>1, <2>2, <2>3, <2>4, <2>5, <2>6, <2>7, <2>8, <2>9, <2>10
    <1>13. CASE PumpExit(p)
        BY <1>0, <1>13 DEF PumpExit
    <1> QED BY <1>1, <1>2, <1>3, <1>4, <1>5, <1>6, <1>7, <1>8, <1>9, <1>10, <1>11, <1>12,
        <1>13 DEF ReconnectStep

\* The HTTP handler and Serve.
LEMMA ServeKeeps ==
    ASSUME IInv, NEW c \in Clients, ServeStep(c) \/ Attach(c) \/ Cancel(c) \/ ClientLeaves(c)
    PROVE  IInv'
    <1> USE PumpFacts, ConnsAssumption, AttemptsAssumption
        DEF IInv, TypeOK, ProxyTypes, WorldTypes, PumpTypes, CallTypes,
        OneServe, SingleFlight, NoLostWakeup, WritingHeld, NoCloseDuringWrite, CycleHolds,
            OneOwner, NoneLeaked, NilExplained, CloserOrder, Carries,
        Owned, InServe,
        CycleAt, ReleaseAt, StopAt, PumpAt, ReaderAt, WriterAt,
        ReconnectAt, MainAt, CloserAt, Roles,
        proxyVars, worldVars, pumpVars, serveVars, closeVars, MainGoto
    <1>0. TypeOK'
        BY ServeTypes
    <1>1. CASE ServeBegin(c)
        <2>1. OneServe'
            <3>1. CASE busy
                BY <1>0, <1>1, <3>1, SMTT(30) DEF ServeBegin
            <3>2. CASE ~busy
                <4>1. /\ \A d \in Clients : ~InServe(d)
                      /\ \A d \in Clients : d # c => main'[d] = main[d]
                    BY <1>1, <3>2 DEF ServeBegin
                <4>2. \A d \in Clients : InServe(d)' <=> d = c
                    BY <1>0, <1>1, <3>2, <4>1 DEF ServeBegin
                <4>3. busy'
                    BY <1>1, <3>2 DEF ServeBegin
                <4>4. \A p \in Pumps : p[1] # c => pc'[p] = pc[p] /\ pc[p] = "off"
                    BY <1>1, <4>1 DEF ServeBegin
                <4> QED BY <4>1, <4>2, <4>3, <4>4
            <3> QED BY <1>1, <3>1, <3>2, SMTT(30) DEF ServeBegin
        <2>2. SingleFlight'
            BY <1>0, <1>1 DEF ServeBegin
        <2>3. NoLostWakeup'
            BY <1>0, <1>1 DEF ServeBegin
        <2>4. WritingHeld'
            BY <1>0, <1>1, SMTT(20) DEF ServeBegin
        <2>5. NoCloseDuringWrite'
            BY <1>0, <1>1 DEF ServeBegin
        <2>6. CycleHolds'
            BY <1>0, <1>1, SMTT(20) DEF ServeBegin
        <2>7. OneOwner'
            BY <1>0, <1>1 DEF ServeBegin
        <2>8. NoneLeaked'
            BY <1>0, <1>1, SMTT(20) DEF ServeBegin
        <2>9. NilExplained'
            BY <1>0, <1>1 DEF ServeBegin
        <2>10. CloserOrder'
            BY <1>0, <1>1 DEF ServeBegin
        <2> QED BY <1>0, <2>1, <2>2, <2>3, <2>4, <2>5, <2>6, <2>7, <2>8, <2>9, <2>10
    <1>2. CASE TurnedAway(c)
        BY <1>0, <1>2 DEF TurnedAway
    <1>3. CASE Select(c)
        BY <1>0, <1>3 DEF Select, ServeStop
    <1>4. CASE Snapshot(c)
        BY <1>0, <1>4 DEF Snapshot
    <1>5. CASE Deadline(c)
        <2>1. OneServe'
            BY <1>0, <1>5 DEF Deadline
        <2>2. SingleFlight'
            BY <1>0, <1>5 DEF Deadline
        <2>3. NoLostWakeup'
            BY <1>0, <1>5 DEF Deadline
        <2>4. WritingHeld'
            BY <1>0, <1>5 DEF Deadline
        <2>5. NoCloseDuringWrite'
            BY <1>0, <1>5 DEF Deadline
        <2>6. CycleHolds'
            BY <1>0, <1>5 DEF Deadline
        <2>7. OneOwner'
            BY <1>0, <1>5 DEF Deadline
        <2>8. NoneLeaked'
            BY <1>0, <1>5 DEF Deadline
        <2>9. NilExplained'
            BY <1>0, <1>5 DEF Deadline
        <2>10. CloserOrder'
            BY <1>0, <1>5 DEF Deadline
        <2> QED BY <1>0, <2>1, <2>2, <2>3, <2>4, <2>5, <2>6, <2>7, <2>8, <2>9, <2>10
    <1>6. CASE ServeReturn(c)
        <2>1. OneServe'
            BY <1>0, <1>6 DEF ServeReturn, Joined
        <2>2. SingleFlight'
            BY <1>0, <1>6 DEF ServeReturn, Joined
        <2>3. NoLostWakeup'
            BY <1>0, <1>6 DEF ServeReturn, Joined
        <2>4. WritingHeld'
            BY <1>0, <1>6 DEF ServeReturn, Joined
        <2>5. NoCloseDuringWrite'
            BY <1>0, <1>6 DEF ServeReturn, Joined
        <2>6. CycleHolds'
            BY <1>0, <1>6 DEF ServeReturn, Joined
        <2>7. OneOwner'
            BY <1>0, <1>6 DEF ServeReturn, Joined
        <2>8. NoneLeaked'
            BY <1>0, <1>6 DEF ServeReturn, Joined
        <2>9. NilExplained'
            BY <1>0, <1>6 DEF ServeReturn, Joined
        <2>10. CloserOrder'
            BY <1>0, <1>6 DEF ServeReturn, Joined
        <2> QED BY <1>0, <2>1, <2>2, <2>3, <2>4, <2>5, <2>6, <2>7, <2>8, <2>9, <2>10
    <1>7. CASE Attach(c)
        <2>1. OneServe'
            BY <1>0, <1>7, SMTT(20) DEF Attach
        <2>2. SingleFlight'
            BY <1>0, <1>7 DEF Attach
        <2>3. NoLostWakeup'
            BY <1>0, <1>7 DEF Attach
        <2>4. WritingHeld'
            BY <1>0, <1>7 DEF Attach
        <2>5. NoCloseDuringWrite'
            BY <1>0, <1>7 DEF Attach
        <2>6. CycleHolds'
            BY <1>0, <1>7 DEF Attach
        <2>7. OneOwner'
            BY <1>0, <1>7 DEF Attach
        <2>8. NoneLeaked'
            BY <1>0, <1>7 DEF Attach
        <2>9. NilExplained'
            BY <1>0, <1>7 DEF Attach
        <2>10. CloserOrder'
            BY <1>0, <1>7 DEF Attach
        <2> QED BY <1>0, <2>1, <2>2, <2>3, <2>4, <2>5, <2>6, <2>7, <2>8, <2>9, <2>10
    <1>8. CASE Cancel(c)
        BY <1>0, <1>8 DEF Cancel, ServeStop
    <1>9. CASE ClientLeaves(c)
        BY <1>0, <1>9 DEF ClientLeaves
    <1> QED BY <1>1, <1>2, <1>3, <1>4, <1>5, <1>6, <1>7, <1>8, <1>9 DEF ServeStep

\* Close, and what happens outside the program.
LEMMA CloseKeeps ==
    ASSUME IInv, CloseBegin \/ CloseStep \/ ConnLost \/ ForwardLost \/ Finished
    PROVE  IInv'
    <1> USE PumpFacts, ConnsAssumption, AttemptsAssumption
        DEF IInv, TypeOK, ProxyTypes, WorldTypes, PumpTypes, CallTypes,
        OneServe, SingleFlight, NoLostWakeup, WritingHeld, NoCloseDuringWrite, CycleHolds,
            OneOwner, NoneLeaked, NilExplained, CloserOrder, Carries,
        Owned, InServe,
        CycleAt, ReleaseAt, StopAt, PumpAt, ReaderAt, WriterAt,
        ReconnectAt, MainAt, CloserAt, Roles,
        proxyVars, worldVars, pumpVars, serveVars, closeVars
    <1>0. TypeOK'
        BY CloseTypes
    <1>1. CASE CloseBegin
        BY <1>0, <1>1 DEF CloseBegin
    <1>2. CASE CloseSignal
        BY <1>0, <1>2 DEF CloseSignal
    <1>3. CASE CloseSwap
        BY <1>0, <1>3 DEF CloseSwap, CanLock
    <1>4. CASE CloseConn
        <2>1. OneServe'
            BY <1>0, <1>4 DEF CloseConn
        <2>2. SingleFlight'
            BY <1>0, <1>4 DEF CloseConn
        <2>3. NoLostWakeup'
            BY <1>0, <1>4 DEF CloseConn
        <2>4. WritingHeld'
            BY <1>0, <1>4 DEF CloseConn
        <2>5. NoCloseDuringWrite'
            BY <1>0, <1>4 DEF CloseConn
        <2>6. CycleHolds'
            BY <1>0, <1>4 DEF CloseConn
        <2>7. OneOwner'
            BY <1>0, <1>4 DEF CloseConn
        <2>8. NoneLeaked'
            BY <1>0, <1>4 DEF CloseConn
        <2>9. NilExplained'
            BY <1>0, <1>4 DEF CloseConn
        <2>10. CloserOrder'
            BY <1>0, <1>4 DEF CloseConn
        <2> QED BY <1>0, <2>1, <2>2, <2>3, <2>4, <2>5, <2>6, <2>7, <2>8, <2>9, <2>10
    <1>5. CASE CloseUnforward
        <2>1. OneServe'
            BY <1>0, <1>5 DEF CloseUnforward
        <2>2. SingleFlight'
            BY <1>0, <1>5 DEF CloseUnforward
        <2>3. NoLostWakeup'
            BY <1>0, <1>5 DEF CloseUnforward
        <2>4. WritingHeld'
            BY <1>0, <1>5 DEF CloseUnforward
        <2>5. NoCloseDuringWrite'
            BY <1>0, <1>5 DEF CloseUnforward
        <2>6. CycleHolds'
            BY <1>0, <1>5 DEF CloseUnforward
        <2>7. OneOwner'
            BY <1>0, <1>5 DEF CloseUnforward
        <2>8. NoneLeaked'
            BY <1>0, <1>5 DEF CloseUnforward
        <2>9. NilExplained'
            BY <1>0, <1>5 DEF CloseUnforward
        <2>10. CloserOrder'
            BY <1>0, <1>5 DEF CloseUnforward
        <2> QED BY <1>0, <2>1, <2>2, <2>3, <2>4, <2>5, <2>6, <2>7, <2>8, <2>9, <2>10
    <1>6. CASE ConnLost
        BY <1>0, <1>6 DEF ConnLost, Live
    <1>7. CASE ForwardLost
        <2>1. OneServe'
            BY <1>0, <1>7 DEF ForwardLost, Live
        <2>2. SingleFlight'
            BY <1>0, <1>7 DEF ForwardLost, Live
        <2>3. NoLostWakeup'
            BY <1>0, <1>7 DEF ForwardLost, Live
        <2>4. WritingHeld'
            BY <1>0, <1>7 DEF ForwardLost, Live
        <2>5. NoCloseDuringWrite'
            BY <1>0, <1>7 DEF ForwardLost, Live
        <2>6. CycleHolds'
            BY <1>0, <1>7 DEF ForwardLost, Live
        <2>7. OneOwner'
            BY <1>0, <1>7 DEF ForwardLost, Live
        <2>8. NoneLeaked'
            BY <1>0, <1>7 DEF ForwardLost, Live
        <2>9. NilExplained'
            BY <1>0, <1>7 DEF ForwardLost, Live
        <2>10. CloserOrder'
            BY <1>0, <1>7 DEF ForwardLost, Live
        <2> QED BY <1>0, <2>1, <2>2, <2>3, <2>4, <2>5, <2>6, <2>7, <2>8, <2>9, <2>10
    <1>8. CASE Finished
        BY <1>0, <1>8 DEF Finished, vars
    <1> QED BY <1>1, <1>2, <1>3, <1>4, <1>5, <1>6, <1>7, <1>8 DEF CloseStep

\* The inductive invariant holds of every behaviour.
THEOREM InvariantHolds == Spec => []IInv
    <1>1. IInv /\ UNCHANGED vars => IInv'
        BY DEF IInv, TypeOK, ProxyTypes, WorldTypes, PumpTypes, CallTypes, OneServe,
               SingleFlight, NoLostWakeup, WritingHeld, NoCloseDuringWrite, CycleHolds,
                   OneOwner, NoneLeaked, NilExplained, CloserOrder,
               Carries, Owned, InServe, vars, proxyVars, worldVars, pumpVars, serveVars,
                   closeVars
    <1>2. IInv /\ Next => IInv'
        BY ReaderKeeps, WriterKeeps, CycleKeeps, ServeKeeps, CloseKeeps DEF Next, Outside
    <1> QED BY InitInv, <1>1, <1>2, PTL DEF Spec

\* Type correctness: every pump, handler and Close is where the code can be, with a
\* connection or none in hand.
THEOREM TypesHold == Spec => []TypeOK
    BY InvariantHolds, PTL DEF IInv

\* Serve has one client at a time, however many pass the Busy check of the handler
\* before it (p.busy under serveMu).
THEOREM OneServeHolds == Spec => []OneServe
    BY InvariantHolds, PTL DEF IInv

\* One cycle at a time: reader and writer never dial both (the gate under reconnectMu).
THEOREM SingleFlightHolds == Spec => []SingleFlight
    BY InvariantHolds, PTL DEF IInv

\* A pump that waits for a cycle waits for one that is still to close its gate.
THEOREM NoLostWakeupHolds == Spec => []NoLostWakeup
    BY InvariantHolds, PTL DEF IInv

\* No connection is closed under a WriteMessage: reconnect and Close take the write side
\* of upstreamMu to take it out.
THEOREM NoCloseDuringWriteHolds == Spec => []NoCloseDuringWrite
    BY InvariantHolds, PTL DEF IInv

\* A connection that is open is somebody's: failed dials and swapped upstreams leave none.
THEOREM NoneLeakedHolds == Spec => []NoneLeaked
    BY InvariantHolds, PTL DEF IInv

\* The upstream is nil for a reason: a cycle, a give-up or Close.
THEOREM NilExplainedHolds == Spec => []NilExplained
    BY InvariantHolds, PTL DEF IInv

-----------------------------------------------------------------------------
\* The refinement: initial states map to initial states, steps to steps or stutters.
LEMMA InitLink == Init => Link!Init
    BY PumpFacts, ConnsAssumption DEF Init, Link!Init, LinkState, Owed

\* Refinement: the reader's own steps and the frames it is sent.
LEMMA ReaderLinks ==
    ASSUME IInv, NEW c \in Clients, ReaderStep(c) \/ ReadFrame(c)
    PROVE  [Link!Next]_(Link!linkVars)
    <1> USE PumpFacts, ConnsAssumption DEF Link!linkVars, LinkState, Owed, IInv, TypeOK,
        PumpTypes, ProxyTypes, proxyVars, worldVars, pumpVars, serveVars, closeVars, Goto
    <1>1. CASE ReaderTop(c)
        BY <1>1 DEF ReaderTop
    <1>2. CASE ReaderGateWait(c)
        BY <1>2 DEF ReaderGateWait
    <1>3. CASE ReadError(c)
        BY <1>3 DEF ReadError
    <1>4. CASE ReadFrame(c)
        BY <1>4 DEF ReadFrame, WriteDownstream
    <1> QED BY <1>1, <1>2, <1>3, <1>4 DEF ReaderStep

\* Refinement: the writer's steps, and what its client sends it.
LEMMA WriterLinks ==
    ASSUME IInv, NEW c \in Clients, WriterStep(c) \/ WriterRecv(c) \/ Method(c)
    PROVE  [Link!Next]_(Link!linkVars)
    <1> USE PumpFacts, ConnsAssumption DEF Link!linkVars, LinkState, Owed, IInv, TypeOK,
        PumpTypes, ProxyTypes, proxyVars, worldVars, pumpVars, serveVars, closeVars, Goto
    <1>1. CASE WriterRecvError(c)
        BY <1>1 DEF WriterRecvError
    <1>2. CASE SyntheticEnd(c)
        BY <1>2 DEF SyntheticEnd
    <1>3. CASE Reply(c)
        BY <1>3 DEF Reply, WriteDownstream
    <1>4. CASE WriteBegin(c)
        BY <1>4 DEF WriteBegin, CanWrite, AfterWriteError
    <1>5. CASE WriteEnd(c)
        BY <1>5 DEF WriteEnd, AfterWrite, AfterWriteError
    <1>6. CASE WriterRecv(c)
        BY <1>6 DEF WriterRecv
    <1>7. CASE WriterRecvMethod(c)
        BY <1>7 DEF WriterRecvMethod
    <1>8. CASE SyntheticSend(c)
        BY <1>8 DEF SyntheticSend
    <1> QED BY <1>1, <1>2, <1>3, <1>4, <1>5, <1>6, <1>7, <1>8 DEF WriterStep, Method

\* Refinement: losing the upstream: either pump's way through the reconnect.
LEMMA CycleLinks ==
    ASSUME IInv, NEW p \in Pumps, ReconnectStep(p)
    PROVE  [Link!Next]_(Link!linkVars)
    <1> USE PumpFacts, ConnsAssumption DEF Link!linkVars, LinkState, Owed, IInv, TypeOK,
        PumpTypes, ProxyTypes, proxyVars, worldVars, pumpVars, serveVars, closeVars, Goto
    <1>1. CASE Failed(p)
        BY <1>1 DEF Failed
    <1>2. CASE Ensure(p)
        BY <1>2 DEF Ensure, CanLock, JoinCycle
    <1>3. CASE Reconnect(p)
        BY <1>3 DEF Reconnect, CanLock, NoCycle, JoinCycle, Link!Next, Link!Lose
    <1>4. CASE CloseOld(p)
        BY <1>4 DEF CloseOld
    <1>5. CASE ForwardStep(p)
        BY <1>5 DEF ForwardStep, NextAttempt
    <1>6. CASE Dial(p)
        BY <1>6 DEF Dial, NextAttempt, Free
    <1>7. CASE Install(p)
        BY <1>7 DEF Install, CanLock, SingleFlight, CycleHolds, CycleAt, Link!Next, Link!Recover
    <1>8. CASE GiveUp(p)
        BY <1>8 DEF GiveUp, CanLock, SingleFlight, CycleHolds, CycleAt, Link!Next, Link!GiveUp
    <1>9. CASE Release(p)
        BY <1>9 DEF Release, Wake, Resume
    <1>10. CASE ReleaseFail(p)
        BY <1>10 DEF ReleaseFail, Wake
    <1>11. CASE SignalDone(p)
        BY <1>11 DEF SignalDone, Link!Next, Link!Report
    <1>12. CASE AwaitReturn(p)
        BY <1>12 DEF AwaitReturn, Resume
    <1>13. CASE PumpExit(p)
        BY <1>13 DEF PumpExit
    <1> QED BY <1>1, <1>2, <1>3, <1>4, <1>5, <1>6, <1>7, <1>8, <1>9, <1>10, <1>11, <1>12,
        <1>13 DEF ReconnectStep

\* Refinement: the HTTP handler and Serve.
LEMMA ServeLinks ==
    ASSUME IInv, NEW c \in Clients, ServeStep(c) \/ Attach(c) \/ Cancel(c) \/ ClientLeaves(c)
    PROVE  [Link!Next]_(Link!linkVars)
    <1> USE PumpFacts, ConnsAssumption DEF Link!linkVars, LinkState, Owed, IInv, TypeOK,
        PumpTypes, ProxyTypes, proxyVars, worldVars, pumpVars, serveVars, closeVars, MainGoto
    <1>1. CASE ServeBegin(c)
        BY <1>1 DEF ServeBegin, OneServe, InServe
    <1>2. CASE TurnedAway(c)
        BY <1>2 DEF TurnedAway
    <1>3. CASE Select(c)
        BY <1>3 DEF Select, ServeStop
    <1>4. CASE Snapshot(c)
        BY <1>4 DEF Snapshot
    <1>5. CASE Deadline(c)
        BY <1>5 DEF Deadline
    <1>6. CASE ServeReturn(c)
        BY <1>6 DEF ServeReturn, Joined
    <1>7. CASE Attach(c)
        BY <1>7 DEF Attach
    <1>8. CASE Cancel(c)
        BY <1>8 DEF Cancel, ServeStop
    <1>9. CASE ClientLeaves(c)
        BY <1>9 DEF ClientLeaves
    <1> QED BY <1>1, <1>2, <1>3, <1>4, <1>5, <1>6, <1>7, <1>8, <1>9 DEF ServeStep

\* Refinement: close, and what happens outside the program.
LEMMA CloseLinks ==
    ASSUME IInv, CloseBegin \/ CloseStep \/ ConnLost \/ ForwardLost \/ Finished
    PROVE  [Link!Next]_(Link!linkVars)
    <1> USE PumpFacts, ConnsAssumption DEF Link!linkVars, LinkState, Owed, IInv, TypeOK,
        PumpTypes, ProxyTypes, proxyVars, worldVars, pumpVars, serveVars, closeVars
    <1>1. CASE CloseBegin
        BY <1>1 DEF CloseBegin, Link!Next, Link!Shut
    <1>2. CASE CloseSignal
        BY <1>2 DEF CloseSignal, CloserOrder, Link!Next, Link!ShutReport
    <1>3. CASE CloseSwap
        BY <1>3 DEF CloseSwap, CanLock, CloserOrder, CycleHolds, Link!Next, Link!ShutDown
    <1>4. CASE CloseConn
        BY <1>4 DEF CloseConn
    <1>5. CASE CloseUnforward
        BY <1>5 DEF CloseUnforward
    <1>6. CASE ConnLost
        BY <1>6 DEF ConnLost, Live
    <1>7. CASE ForwardLost
        BY <1>7 DEF ForwardLost, Live
    <1>8. CASE Finished
        BY <1>8 DEF Finished, vars
    <1> QED BY <1>1, <1>2, <1>3, <1>4, <1>5, <1>6, <1>7, <1>8 DEF CloseStep

\* Every behaviour of the proxy is one of the abstract upstream link.
THEOREM Refinement == Spec => ImplementsLink
    <1>1. IInv /\ [Next]_vars => [Link!Next]_(Link!linkVars)
        <2>1. IInv /\ Next => [Link!Next]_(Link!linkVars)
            BY ReaderLinks, WriterLinks, CycleLinks, ServeLinks, CloseLinks DEF Next, Outside
        <2>2. UNCHANGED vars => UNCHANGED Link!linkVars
            BY DEF vars, proxyVars, worldVars, pumpVars, serveVars, closeVars, Link!linkVars,
                   LinkState, Owed
        <2> QED BY <2>1, <2>2
    <1> QED BY InitLink, InvariantHolds, <1>1, PTL DEF Spec, ImplementsLink, Link!Spec

\* So what the abstract link promises holds of the proxy: nobody is left with an
\* upstream that is silently gone.
THEOREM LossAlwaysTold == Spec => []LossIsTold
    <1>1. Link!Init => LossIsTold
        BY DEF Link!Init, LossIsTold, Link!DownIsTold
    <1>2. LossIsTold /\ [Link!Next]_(Link!linkVars) => LossIsTold'
        <2> USE DEF LossIsTold, Link!DownIsTold
        <2>1. LossIsTold /\ UNCHANGED Link!linkVars => LossIsTold'
            BY DEF Link!linkVars
        <2>2. LossIsTold /\ Link!Next => LossIsTold'
            BY DEF Link!Next, Link!Lose, Link!Recover, Link!GiveUp, Link!Report, Link!Shut,
                   Link!ShutReport, Link!ShutDown
        <2> QED BY <2>1, <2>2
    <1> QED BY Refinement, <1>1, <1>2, PTL DEF ImplementsLink, Link!Spec
=============================================================================
