------------------------------- MODULE Proxy -------------------------------
(***************************************************************************)
(* The CDP proxy of pkg/mobilebridge/proxy.go: one upstream WebSocket to   *)
(* Chrome shared by the two pump goroutines of the attached client, the    *)
(* reconnect cycle either pump may run when the upstream fails, the Serve  *)
(* call that owns the pumps, and Close.                                    *)
(*                                                                         *)
(* A goroutine is a program counter; one action is one lock section, one   *)
(* blocking call or one send on a channel.  Connections are objects: a     *)
(* dial takes one that is closed and that nobody refers to any more, so    *)
(* no counter is needed.  A reconnect gate is a channel made by the        *)
(* goroutine that runs the cycle, so the gate is that goroutine's name,    *)
(* and closing it wakes whoever waits on it (`await').                     *)
(***************************************************************************)
EXTENDS Naturals, FiniteSets

CONSTANTS
    Clients,    \* CDP clients: each is at most one WebSocket request at a time
    Conns,      \* upstream connection objects
    Initial,    \* the connection NewProxy dialled
    NoConn,     \* nil
    Attempts    \* len(reconnectBackoff)

ASSUME ConnsAssumption == Initial \in Conns /\ NoConn \notin Conns
ASSUME AttemptsAssumption == Attempts \in Nat \ {0}

Roles == {"reader", "writer"}
Pumps == Clients \X Roles
Reader(c) == <<c, "reader">>
Writer(c) == <<c, "writer">>
Nobody == <<NoConn, "nobody">>      \* no pump: a nil gate, a free lock

VARIABLES
    upstream,       \* p.upstream
    reconnectGate,  \* p.reconnectGate: the pump running the cycle, or Nobody
    reconnectErr,   \* p.reconnectErr # nil
    closed, done,   \* p.closed and p.done: is the channel closed
    busy,           \* p.busy
    writing,        \* the pump inside WriteMessage: it holds writeMu and the read lock
    tries,          \* failed attempts of the cycle in flight
    conn,           \* what has become of each connection: open, past its read
                    \* deadline, lost, or closed by the program
    forward,        \* is the adb forward in place
    pc, hold, await, purpose,   \* per pump: where it is, the connection it uses,
                                \* the gate it waits on, what its write is for
    main, up, serveDone,        \* per client: its HTTP handler, the connection
                                \* Serve's teardown works on, the serveDone channel
    downstream,     \* per client: its own WebSocket
    closer,         \* the goroutine in Close
    closing         \* the connection Close took

proxyVars == <<upstream, reconnectGate, reconnectErr, closed, done, busy, writing, tries>>
worldVars == <<conn, forward, downstream>>
pumpVars  == <<pc, hold, await, purpose>>
serveVars == <<main, up, serveDone>>
closeVars == <<closer, closing>>
vars == <<proxyVars, worldVars, pumpVars, serveVars, closeVars>>

(***************************************************************************)
(* Locations.                                                              *)
(***************************************************************************)
ReaderAt == {"top", "gatewait", "reading"}
WriterAt == {"recv", "send", "writing", "synthetic", "reply"}
\* The pump holds the gate: it is inside the cycle.
CycleAt  == {"closeold", "forward", "dial", "install", "giveup"}
\* The gate is down but its channel is not closed yet.
ReleaseAt == {"release", "releasefail"}
ReconnectAt == {"ensure", "reconnect", "await", "signaldone"} \cup CycleAt \cup ReleaseAt
\* fail: the error is on errCh; off: the goroutine has returned.
StopAt == {"fail", "off"}
PumpAt == ReaderAt \cup WriterAt \cup ReconnectAt \cup StopAt \cup {"failed"}

MainAt == {"idle", "refused", "upgraded", "rejected", "serving", "teardown",
           "deadline", "join"}
CloserAt == {"idle", "signal", "swap", "closeconn", "unforward", "returned"}

Init ==
    /\ upstream = Initial
    /\ reconnectGate = Nobody /\ reconnectErr = FALSE
    /\ closed = FALSE /\ done = FALSE /\ busy = FALSE
    /\ writing = Nobody /\ tries = 0
    /\ conn = [k \in Conns |-> IF k = Initial THEN "open" ELSE "closed"]
    /\ forward = TRUE
    /\ pc = [p \in Pumps |-> "off"]
    /\ hold = [p \in Pumps |-> NoConn]
    /\ await = [p \in Pumps |-> Nobody]
    /\ purpose = [c \in Clients |-> "frame"]
    /\ main = [c \in Clients |-> "idle"]
    /\ up = [c \in Clients |-> NoConn]
    /\ serveDone = [c \in Clients |-> FALSE]
    /\ downstream = [c \in Clients |-> "gone"]
    /\ closer = "idle" /\ closing = NoConn

Goto(p, l) == pc' = [pc EXCEPT ![p] = l]
MainGoto(c, l) == main' = [main EXCEPT ![c] = l]

\* Mutant: the swap does not wait for the write in flight.
CanLock_NoWait == TRUE

\* upstreamMu.Lock waits for the reader lock held throughout a WriteMessage.
CanLock == writing = Nobody
\* writeMu.Lock followed by upstreamMu.RLock.
CanWrite == writing = Nobody

\* Nobody refers to the connection any more: the next dial may stand for it.
Free(k) == /\ conn[k] = "closed"
           /\ k # closing
           /\ \A p \in Pumps : hold[p] # k
           /\ \A c \in Clients : up[c] # k

\* A read fails on a connection that is lost, closed, or past its deadline; a write
\* does not look at the read deadline.
ReadFails(k) == conn[k] # "open"
Live(k) == conn[k] \in {"open", "expired"}

(***************************************************************************)
(* Serve's reader: upstream to downstream.                                 *)
(***************************************************************************)

\* The snapshot of upstream and gate under the read lock, and what it decides.
ReaderTop(c) == LET p == Reader(c) IN
    /\ pc[p] = "top"
    /\ \/ /\ upstream # NoConn
          /\ hold' = [hold EXCEPT ![p] = upstream]
          /\ Goto(p, "reading")
          /\ UNCHANGED await
       \/ /\ upstream = NoConn /\ reconnectGate # Nobody
          /\ await' = [await EXCEPT ![p] = reconnectGate]
          /\ Goto(p, "gatewait")
          /\ UNCHANGED hold
       \/ /\ upstream = NoConn /\ reconnectGate = Nobody
          /\ Goto(p, "fail")
          /\ UNCHANGED <<hold, await>>
    /\ UNCHANGED <<purpose, proxyVars, worldVars, serveVars, closeVars>>

\* select { case <-gate: continue; case <-serveDone: exit }
ReaderGateWait(c) == LET p == Reader(c) IN
    /\ pc[p] = "gatewait"
    /\ \/ await[p] = Nobody /\ Goto(p, "top")
       \/ serveDone[c] /\ Goto(p, "fail")
    /\ await' = [await EXCEPT ![p] = Nobody]
    /\ UNCHANGED <<hold, purpose, proxyVars, worldVars, serveVars, closeVars>>

\* writeDownstream fails once the client is gone (what its socket still takes
\* counts as sent before it left).
WriteDownstream(p, ok) == Goto(p, IF downstream[p[1]] = "gone" THEN "fail" ELSE ok)

\* ReadMessage returns a frame Chrome sent, and the client gets it.  Frames already
\* buffered when the connection is lost count as read before it.
ReadFrame(c) == LET p == Reader(c) IN
    /\ pc[p] = "reading" /\ ~ReadFails(hold[p])
    /\ WriteDownstream(p, "top")
    /\ hold' = [hold EXCEPT ![p] = NoConn]
    /\ UNCHANGED <<await, purpose, proxyVars, worldVars, serveVars, closeVars>>

ReadError(c) == LET p == Reader(c) IN
    /\ pc[p] = "reading" /\ ReadFails(hold[p])
    /\ Goto(p, "failed")
    /\ hold' = [hold EXCEPT ![p] = NoConn]
    /\ UNCHANGED <<await, purpose, proxyVars, worldVars, serveVars, closeVars>>

(***************************************************************************)
(* Serve's writer: downstream to upstream.                                 *)
(***************************************************************************)

\* downstream.ReadMessage: a frame for Chrome, a MobileBridge.* method, or the
\* error of a client that left or whose deadline Serve's teardown has set.
WriterRecv(c) == LET p == Writer(c) IN
    /\ pc[p] = "recv" /\ downstream[c] = "open"
    /\ Goto(p, "send")
    /\ UNCHANGED <<hold, await, purpose, proxyVars, worldVars, serveVars, closeVars>>

WriterRecvMethod(c) == LET p == Writer(c) IN
    /\ pc[p] = "recv" /\ downstream[c] = "open"
    /\ Goto(p, "synthetic")
    /\ UNCHANGED <<hold, await, purpose, proxyVars, worldVars, serveVars, closeVars>>

WriterRecvError(c) == LET p == Writer(c) IN
    /\ pc[p] = "recv" /\ downstream[c] # "open"
    /\ Goto(p, "fail")
    /\ UNCHANGED <<hold, await, purpose, proxyVars, worldVars, serveVars, closeVars>>

\* A handler of maybeHandleSynthetic sends any number of frames with
\* sendUpstream and then has its reply.
SyntheticSend(c) == LET p == Writer(c) IN
    /\ pc[p] = "synthetic"
    /\ Goto(p, "send")
    /\ purpose' = [purpose EXCEPT ![c] = "synthetic"]
    /\ UNCHANGED <<hold, await, proxyVars, worldVars, serveVars, closeVars>>

SyntheticEnd(c) == LET p == Writer(c) IN
    /\ pc[p] = "synthetic"
    /\ Goto(p, "reply")
    /\ UNCHANGED <<hold, await, purpose, proxyVars, worldVars, serveVars, closeVars>>

Reply(c) ==
    /\ pc[Writer(c)] = "reply"
    /\ WriteDownstream(Writer(c), "recv")
    /\ UNCHANGED <<hold, await, purpose, proxyVars, worldVars, serveVars, closeVars>>

\* Where a failed write leads: a first try to the reconnect, a replay to the
\* end of Serve, a synthetic method to its error reply.
AfterWriteError == [frame |-> "failed", retry |-> "fail", synthetic |-> "reply"]
AfterWrite == [frame |-> "recv", retry |-> "recv", synthetic |-> "synthetic"]

\* writeUpstream and sendUpstream up to WriteMessage.
WriteBegin(c) == LET p == Writer(c) IN
    /\ pc[p] = "send" /\ CanWrite
    /\ \/ /\ upstream # NoConn
          /\ hold' = [hold EXCEPT ![p] = upstream]
          /\ writing' = p
          /\ Goto(p, "writing")
          /\ UNCHANGED purpose
       \/ /\ upstream = NoConn
          /\ Goto(p, AfterWriteError[purpose[c]])
          /\ purpose' = [purpose EXCEPT ![c] = "frame"]
          /\ UNCHANGED <<hold, writing>>
    /\ UNCHANGED <<upstream, reconnectGate, reconnectErr, closed, done, busy, tries,
                   await, worldVars, serveVars, closeVars>>

\* Mutant: an early return on a failed write leaves writeMu locked.
WriteEnd_KeepsLock(c) == LET p == Writer(c) IN
    /\ pc[p] = "writing"
    /\ \/ conn[hold[p]] # "closed" /\ Goto(p, AfterWrite[purpose[c]]) /\ writing' = Nobody
       \/ ~Live(hold[p]) /\ Goto(p, AfterWriteError[purpose[c]]) /\ UNCHANGED writing
    /\ hold' = [hold EXCEPT ![p] = NoConn]
    /\ purpose' = [purpose EXCEPT ![c] = "frame"]
    /\ UNCHANGED <<upstream, reconnectGate, reconnectErr, closed, done, busy, tries,
                   await, worldVars, serveVars, closeVars>>

\* WriteMessage returns: on a lost connection the kernel may still take the frame.
WriteEnd(c) == LET p == Writer(c) IN
    /\ pc[p] = "writing"
    /\ \/ conn[hold[p]] # "closed" /\ Goto(p, AfterWrite[purpose[c]])
       \/ ~Live(hold[p]) /\ Goto(p, AfterWriteError[purpose[c]])
    /\ writing' = Nobody
    /\ hold' = [hold EXCEPT ![p] = NoConn]
    /\ purpose' = [purpose EXCEPT ![c] = "frame"]
    /\ UNCHANGED <<upstream, reconnectGate, reconnectErr, closed, done, busy, tries,
                   await, worldVars, serveVars, closeVars>>

(***************************************************************************)
(* Losing the upstream: ensureReconnect and reconnect, run by either pump. *)
(***************************************************************************)

\* if !serveActive() the pump reports the error, else it calls ensureReconnect.
Failed(p) ==
    /\ pc[p] = "failed"
    /\ Goto(p, IF serveDone[p[1]] THEN "fail" ELSE "ensure")
    /\ UNCHANGED <<hold, await, purpose, proxyVars, worldVars, serveVars, closeVars>>

\* A cycle is in flight: unlock and wait on its gate.
JoinCycle(p) ==
    /\ reconnectGate # Nobody
    /\ await' = [await EXCEPT ![p] = reconnectGate]
    /\ Goto(p, "await")
    /\ UNCHANGED <<hold, purpose, proxyVars, worldVars, serveVars, closeVars>>

\* ensureReconnect's lock section.
Ensure(p) ==
    /\ pc[p] = "ensure" /\ CanLock
    /\ \/ JoinCycle(p)
       \/ /\ reconnectGate = Nobody
          /\ Goto(p, "reconnect")
          /\ UNCHANGED <<hold, await, purpose, proxyVars, worldVars, serveVars, closeVars>>

\* Mutant: reconnect trusts the check ensureReconnect made before unlocking.
NoCycle_Unchecked == TRUE

NoCycle == reconnectGate = Nobody

\* reconnect's first lock section: join the cycle that began since ensureReconnect
\* looked, or raise the gate and take the old connection out.
Reconnect(p) ==
    /\ pc[p] = "reconnect" /\ CanLock
    /\ \/ ~NoCycle /\ JoinCycle(p)
       \/ /\ NoCycle
          /\ reconnectGate' = p /\ reconnectErr' = FALSE
          /\ hold' = [hold EXCEPT ![p] = upstream]
          /\ upstream' = NoConn
          /\ Goto(p, "closeold")
          /\ UNCHANGED <<closed, done, busy, writing, tries, await, purpose,
                         worldVars, serveVars, closeVars>>

\* Mutant: the old connection is dropped, not closed.
CloseOld_Dropped(p) ==
    /\ pc[p] = "closeold"
    /\ hold' = [hold EXCEPT ![p] = NoConn]
    /\ Goto(p, "forward")
    /\ UNCHANGED <<await, purpose, worldVars, proxyVars, serveVars, closeVars>>

CloseOld(p) ==
    /\ pc[p] = "closeold"
    /\ conn' = [k \in Conns |-> IF k = hold[p] THEN "closed" ELSE conn[k]]
    /\ hold' = [hold EXCEPT ![p] = NoConn]
    /\ Goto(p, "forward")
    /\ UNCHANGED <<await, purpose, forward, downstream, proxyVars, serveVars,
                   closeVars>>

\* Mutant: one attempt too many.
NextAttempt_OneMore(p) ==
    /\ tries' = tries + 1
    /\ Goto(p, IF tries = Attempts THEN "giveup" ELSE "forward")

\* The backoff loop's `continue', and its exit after the last delay.
NextAttempt(p) ==
    /\ tries' = tries + 1
    /\ Goto(p, IF tries + 1 = Attempts THEN "giveup" ELSE "forward")

\* One attempt's `adb forward'.
ForwardStep(p) ==
    /\ pc[p] = "forward"
    /\ \/ forward' = TRUE /\ Goto(p, "dial") /\ UNCHANGED tries
       \/ NextAttempt(p) /\ UNCHANGED forward
    /\ UNCHANGED <<upstream, reconnectGate, reconnectErr, closed, done, busy, writing,
                   hold, await, purpose, conn, downstream, serveVars, closeVars>>

\* One attempt's /json/version query and dial; only through the forward.
Dial(p) ==
    /\ pc[p] = "dial"
    /\ \/ \E k \in Conns :
            /\ forward /\ Free(k)
            /\ conn' = [conn EXCEPT ![k] = "open"]
            /\ hold' = [hold EXCEPT ![p] = k]
            /\ Goto(p, "install")
            /\ UNCHANGED tries
       \/ NextAttempt(p) /\ UNCHANGED <<conn, hold>>
    /\ UNCHANGED <<upstream, reconnectGate, reconnectErr, closed, done, busy, writing,
                   await, purpose, forward, downstream, serveVars, closeVars>>

Install(p) ==
    /\ pc[p] = "install" /\ CanLock
    /\ upstream' = hold[p]
    /\ reconnectGate' = Nobody
    /\ hold' = [hold EXCEPT ![p] = NoConn]
    /\ tries' = 0
    /\ Goto(p, "release")
    /\ UNCHANGED <<reconnectErr, closed, done, busy, writing, await, purpose,
                   worldVars, serveVars, closeVars>>

\* Mutant: the error is not left for the waiters.
GiveUp_NoError(p) ==
    /\ pc[p] = "giveup" /\ CanLock
    /\ reconnectGate' = Nobody
    /\ tries' = 0
    /\ Goto(p, "releasefail")
    /\ UNCHANGED <<upstream, reconnectErr, closed, done, busy, writing, hold, await,
                   purpose, worldVars, serveVars, closeVars>>

GiveUp(p) ==
    /\ pc[p] = "giveup" /\ CanLock
    /\ reconnectGate' = Nobody
    /\ reconnectErr' = TRUE
    /\ tries' = 0
    /\ Goto(p, "releasefail")
    /\ UNCHANGED <<upstream, closed, done, busy, writing, hold, await, purpose,
                   worldVars, serveVars, closeVars>>

\* What a nil error of ensureReconnect means: the reader takes a new snapshot,
\* the writer replays its frame.
Resume(p) ==
    /\ Goto(p, IF p[2] = "reader" THEN "top" ELSE "send")
    /\ purpose' = IF p[2] = "reader" THEN purpose ELSE [purpose EXCEPT ![p[1]] = "retry"]

\* Mutant: the gate is set to nil and never closed.
Wake_Forgotten(p) == UNCHANGED await

Wake(p) == await' = [q \in Pumps |-> IF await[q] = p THEN Nobody ELSE await[q]]

\* Mutant: signalDone on every way out of reconnect.
Release_SignalsDone(p) ==
    /\ pc[p] = "release"
    /\ Wake(p) /\ Resume(p)
    /\ done' = TRUE
    /\ UNCHANGED <<hold, upstream, reconnectGate, reconnectErr, closed, busy, writing, tries,
                   worldVars, serveVars, closeVars>>

\* close(gate), then return to the pump's loop.
Release(p) ==
    /\ pc[p] = "release"
    /\ Wake(p) /\ Resume(p)
    /\ UNCHANGED <<hold, proxyVars, worldVars, serveVars, closeVars>>

\* Mutant: a give-up returns without signalDone.
ReleaseFail_Silent(p) ==
    /\ pc[p] = "releasefail"
    /\ Wake(p) /\ Goto(p, "fail")
    /\ UNCHANGED <<hold, purpose, proxyVars, worldVars, serveVars, closeVars>>

ReleaseFail(p) ==
    /\ pc[p] = "releasefail"
    /\ Wake(p) /\ Goto(p, "signaldone")
    /\ UNCHANGED <<hold, purpose, proxyVars, worldVars, serveVars, closeVars>>

SignalDone(p) ==
    /\ pc[p] = "signaldone"
    /\ done' = TRUE
    /\ Goto(p, "fail")
    /\ UNCHANGED <<upstream, reconnectGate, reconnectErr, closed, busy, writing, tries,
                   hold, await, purpose, worldVars, serveVars, closeVars>>

\* The waiter reads reconnectErr after the gate is closed.
AwaitReturn(p) ==
    /\ pc[p] = "await" /\ await[p] = Nobody
    /\ \/ reconnectErr /\ Goto(p, "fail") /\ UNCHANGED purpose
       \/ ~reconnectErr /\ Resume(p)
    /\ UNCHANGED <<hold, await, proxyVars, worldVars, serveVars, closeVars>>

\* The deferred signalServeDone and serveWG.Done.
PumpExit(p) ==
    /\ pc[p] = "fail"
    /\ Goto(p, "off")
    /\ serveDone' = [serveDone EXCEPT ![p[1]] = TRUE]
    /\ UNCHANGED <<hold, await, purpose, main, up, proxyVars, worldVars, closeVars>>

(***************************************************************************)
(* The HTTP handler around Serve, and Serve's own goroutine.               *)
(***************************************************************************)

\* wsHandler's Busy() check, then the upgrade.  The listener is shut before
\* Close is called, so no request arrives after that.
Attach(c) ==
    /\ main[c] = "idle" /\ closer = "idle"
    /\ \/ busy /\ MainGoto(c, "refused") /\ UNCHANGED downstream
       \/ ~busy /\ MainGoto(c, "upgraded")
                /\ downstream' = [downstream EXCEPT ![c] = "open"]
    /\ UNCHANGED <<up, serveDone, conn, forward, proxyVars, pumpVars, closeVars>>

\* Serve's own check of busy, and the start of the pumps.
ServeBegin(c) ==
    /\ main[c] = "upgraded"
    /\ \/ busy /\ MainGoto(c, "rejected") /\ UNCHANGED <<busy, pc>>
       \/ /\ ~busy /\ busy' = TRUE
          /\ pc' = [pc EXCEPT ![Reader(c)] = "top", ![Writer(c)] = "recv"]
          /\ MainGoto(c, "serving")
    /\ UNCHANGED <<upstream, reconnectGate, reconnectErr, closed, done, writing, tries,
                   hold, await, purpose, up, serveDone, worldVars, closeVars>>

\* The 503, or the ErrBusy frame and the close of a socket already upgraded.
TurnedAway(c) ==
    /\ main[c] \in {"refused", "rejected"}
    /\ MainGoto(c, "idle")
    /\ downstream' = [downstream EXCEPT ![c] = "gone"]
    /\ UNCHANGED <<up, serveDone, conn, forward, proxyVars, pumpVars, closeVars>>

\* The select's errCh and closed cases: an error has been sent, or Close began.
MustStop(c) == closed \/ \E p \in Pumps : p[1] = c /\ pc[p] \in StopAt

\* The select returns and signalServeDone runs.
ServeStop(c) ==
    /\ main[c] = "serving"
    /\ MainGoto(c, "teardown")
    /\ serveDone' = [serveDone EXCEPT ![c] = TRUE]
    /\ UNCHANGED <<up, proxyVars, worldVars, pumpVars, closeVars>>

Select(c) == MustStop(c) /\ ServeStop(c)
Cancel(c) == ServeStop(c)           \* ctx.Done(), at any time

\* up := p.upstream under the read lock.
Snapshot(c) ==
    /\ main[c] = "teardown"
    /\ up' = [up EXCEPT ![c] = upstream]
    /\ MainGoto(c, "deadline")
    /\ UNCHANGED <<serveDone, proxyVars, worldVars, pumpVars, closeVars>>

\* Mutant: only the upstream's deadline is set.
Deadline_UpstreamOnly(c) ==
    /\ main[c] = "deadline"
    /\ conn' = [k \in Conns |-> IF k = up[c] /\ conn[k] = "open" THEN "expired" ELSE conn[k]]
    /\ up' = [up EXCEPT ![c] = NoConn]
    /\ MainGoto(c, "join")
    /\ UNCHANGED <<serveDone, downstream, forward, proxyVars, pumpVars, closeVars>>

\* SetReadDeadline(now) on both sides, which fails the pumps' reads.
Deadline(c) ==
    /\ main[c] = "deadline"
    /\ conn' = [k \in Conns |-> IF k = up[c] /\ conn[k] = "open" THEN "expired" ELSE conn[k]]
    /\ up' = [up EXCEPT ![c] = NoConn]
    /\ downstream' = [downstream EXCEPT ![c] = IF @ = "open" THEN "expired" ELSE @]
    /\ MainGoto(c, "join")
    /\ UNCHANGED <<serveDone, forward, proxyVars, pumpVars, closeVars>>

\* Mutant: Serve returns without waiting for its pumps.
Joined_NoWait(c) == c \in Clients

Joined(c) == \A p \in Pumps : p[1] = c => pc[p] = "off"

\* serveWG.Wait, the deferred busy = false, and the handler's ws.Close.
ServeReturn(c) ==
    /\ main[c] = "join" /\ Joined(c)
    /\ busy' = FALSE
    /\ downstream' = [downstream EXCEPT ![c] = "gone"]
    /\ serveDone' = [serveDone EXCEPT ![c] = FALSE]
    /\ MainGoto(c, "idle")
    /\ UNCHANGED <<upstream, reconnectGate, reconnectErr, closed, done, writing, tries,
                   conn, forward, up, pumpVars, closeVars>>

(***************************************************************************)
(* Close, once.                                                            *)
(***************************************************************************)
CloseBegin ==
    /\ closer = "idle" /\ closer' = "signal"
    /\ closed' = TRUE
    /\ UNCHANGED <<closing, upstream, reconnectGate, reconnectErr, done, busy, writing,
                   tries, worldVars, pumpVars, serveVars>>

CloseSignal ==
    /\ closer = "signal" /\ closer' = "swap"
    /\ done' = TRUE
    /\ UNCHANGED <<closing, upstream, reconnectGate, reconnectErr, closed, busy, writing,
                   tries, worldVars, pumpVars, serveVars>>

CloseSwap ==
    /\ closer = "swap" /\ CanLock /\ closer' = "closeconn"
    /\ closing' = upstream
    /\ upstream' = NoConn
    /\ UNCHANGED <<reconnectGate, reconnectErr, closed, done, busy, writing, tries,
                   worldVars, pumpVars, serveVars>>

CloseConn ==
    /\ closer = "closeconn" /\ closer' = "unforward"
    /\ conn' = [k \in Conns |-> IF k = closing THEN "closed" ELSE conn[k]]
    /\ closing' = NoConn
    /\ UNCHANGED <<forward, downstream, proxyVars, pumpVars, serveVars>>

\* adb forward --remove may fail; Close then returns its error.
CloseUnforward ==
    /\ closer = "unforward" /\ closer' = "returned"
    /\ forward' \in {forward, FALSE}
    /\ UNCHANGED <<closing, conn, downstream, proxyVars, pumpVars, serveVars>>

(***************************************************************************)
(* Outside the program: Chrome, adb and the clients.                       *)
(***************************************************************************)
ConnLost == \E k \in Conns :
    /\ Live(k)
    /\ conn' = [conn EXCEPT ![k] = "dead"]
    /\ UNCHANGED <<forward, downstream, proxyVars, pumpVars, serveVars, closeVars>>

ForwardLost ==
    /\ forward
    /\ forward' = FALSE
    /\ conn' = [k \in Conns |-> IF Live(k) THEN "dead" ELSE conn[k]]
    /\ UNCHANGED <<downstream, proxyVars, pumpVars, serveVars, closeVars>>

ClientLeaves(c) ==
    /\ downstream[c] # "gone"
    /\ downstream' = [downstream EXCEPT ![c] = "gone"]
    /\ UNCHANGED <<conn, forward, proxyVars, pumpVars, serveVars, closeVars>>

\* Close has returned and no request is left: nothing more need happen.
Finished ==
    /\ closer = "returned" /\ \A c \in Clients : main[c] = "idle"
    /\ UNCHANGED vars

(***************************************************************************)
(* The specification.                                                      *)
(***************************************************************************)
ReaderStep(c) == ReaderTop(c) \/ ReaderGateWait(c) \/ ReadError(c)
WriterStep(c) ==
    WriterRecvError(c) \/ SyntheticEnd(c) \/ Reply(c) \/ WriteBegin(c) \/ WriteEnd(c)
ReconnectStep(p) ==
    \/ Failed(p) \/ Ensure(p) \/ Reconnect(p) \/ CloseOld(p) \/ ForwardStep(p) \/ Dial(p)
    \/ Install(p) \/ GiveUp(p) \/ Release(p) \/ ReleaseFail(p) \/ SignalDone(p)
    \/ AwaitReturn(p) \/ PumpExit(p)
ServeStep(c) ==
    ServeBegin(c) \/ TurnedAway(c) \/ Select(c) \/ Snapshot(c) \/ Deadline(c) \/ ServeReturn(c)
CloseStep == CloseSignal \/ CloseSwap \/ CloseConn \/ CloseUnforward
\* Never obliged to happen.
Outside(c) == Attach(c) \/ ReadFrame(c) \/ WriterRecv(c) \/ Cancel(c) \/ ClientLeaves(c)
Method(c) == WriterRecvMethod(c) \/ SyntheticSend(c)

Next ==
    \/ \E c \in Clients : ReaderStep(c) \/ WriterStep(c) \/ ServeStep(c) \/ Outside(c)
                            \/ Method(c)
    \/ \E p \in Pumps : ReconnectStep(p)
    \/ CloseBegin \/ CloseStep \/ ConnLost \/ ForwardLost \/ Finished

Spec == Init /\ [][Next]_vars

\* A goroutine that can go on does: a blocking call other than a read returns (the dial
\* and the HTTP query have timeouts; adb and a write are taken to return), and Go's mutexes
\* hand the lock to whoever waits, so
\* a pump that keeps being able to take one does (strong fairness).  A synthetic
\* handler sends finitely many frames.
Fairness ==
    /\ \A c \in Clients : WF_vars(ReaderStep(c)) /\ SF_vars(WriterStep(c))
                          /\ SF_vars(SyntheticEnd(c)) /\ WF_vars(ServeStep(c))
    /\ \A p \in Pumps : SF_vars(ReconnectStep(p))
    /\ SF_vars(CloseStep)

FairSpec == Spec /\ Fairness

-----------------------------------------------------------------------------
(***************************************************************************)
(* Properties.                                                             *)
(***************************************************************************)

\* Every variable has its type, in four parts: the Proxy's fields, the world
\* around it, the pumps, and the Serve and Close calls.
ProxyTypes ==
    /\ upstream \in Conns \cup {NoConn}
    /\ reconnectGate \in Pumps \cup {Nobody}
    /\ reconnectErr \in BOOLEAN /\ closed \in BOOLEAN /\ done \in BOOLEAN /\ busy \in BOOLEAN
    /\ writing \in Pumps \cup {Nobody}
    /\ tries \in 0..Attempts
WorldTypes ==
    /\ conn \in [Conns -> {"open", "expired", "dead", "closed"}]
    /\ forward \in BOOLEAN
    /\ downstream \in [Clients -> {"open", "gone", "expired"}]
PumpTypes ==
    /\ pc \in [Pumps -> PumpAt]
    /\ hold \in [Pumps -> Conns \cup {NoConn}]
    /\ await \in [Pumps -> Pumps \cup {Nobody}]
    /\ purpose \in [Clients -> {"frame", "retry", "synthetic"}]
CallTypes ==
    /\ main \in [Clients -> MainAt]
    /\ up \in [Clients -> Conns \cup {NoConn}]
    /\ serveDone \in [Clients -> BOOLEAN]
    /\ closer \in CloserAt /\ closing \in Conns \cup {NoConn}
TypeOK == ProxyTypes /\ WorldTypes /\ PumpTypes /\ CallTypes

\* At most one reconnect cycle runs, by the goroutine whose gate is raised: the
\* reader and the writer noticing the loss at once never start two (reconnect).
SingleFlight == \A p \in Pumps : pc[p] \in CycleAt <=> reconnectGate = p

\* Whoever waits on a gate waits on a goroutine that is still to close it: no pump
\* waits on a cycle that is over (ensureReconnect, the reader's gate wait).
NoLostWakeup ==
    \A p \in Pumps : await[p] # Nobody =>
        /\ pc[p] \in {"await", "gatewait"}
        /\ await[p] \in Pumps /\ pc[await[p]] \in CycleAt \cup ReleaseAt

\* While a WriteMessage runs its connection is the upstream and is not closed: the
\* swap of reconnect and of Close waits for it (writeUpstream, sendUpstream).
NoCloseDuringWrite ==
    \A p \in Pumps : pc[p] = "writing" =>
        writing = p /\ hold[p] = upstream /\ conn[hold[p]] # "closed"

\* The goroutines that have taken a connection and must close or install it.
Carries(p, k) == pc[p] \in {"closeold", "install"} /\ hold[p] = k
Owned(k) == k = upstream \/ k = closing \/ \E p \in Pumps : Carries(p, k)

\* A connection is open exactly while something answers for it: p.upstream, the
\* cycle that took it or dialled it, or Close.  None is leaked by a swap, and
\* p.upstream is never a connection already closed.
NoneLeaked == \A k \in Conns : conn[k] # "closed" <=> Owned(k)

\* p.upstream is nil with no cycle in flight only after a give-up or a Close, so the
\* reader that then ends Serve is right to; and reconnectErr is never left over from
\* an earlier cycle, so a waiter that is told of a failure is told of the last one.
NilExplained ==
    /\ upstream = NoConn /\ reconnectGate = Nobody =>
           reconnectErr \/ closer \in {"closeconn", "unforward", "returned"}
    /\ reconnectErr => upstream = NoConn /\ reconnectGate = Nobody

\* Serve admits one client, and its pumps live inside it: while a handler is in
\* Serve busy is set and no other is, and outside Serve no pump runs.
InServe(c) == main[c] \in {"serving", "teardown", "deadline", "join"}
OneServe ==
    /\ \A c \in Clients : InServe(c) => busy
    /\ \A c, d \in Clients : InServe(c) /\ InServe(d) => c = d
    /\ \A p \in Pumps : ~InServe(p[1]) => pc[p] = "off"

\* Close comes to its end whatever the pumps do: it waits at most for one write.
CloseReturns == closed ~> closer = "returned"

\* The reader is in ReadMessage on a connection whose deadline the teardown did not set.
Stranded(c) ==
    /\ main[c] = "join" /\ pc[Writer(c)] = "off"
    /\ pc[Reader(c)] = "reading" /\ ~ReadFails(hold[Reader(c)])

\* Once torn down Serve returns, unless its reader took up a connection installed
\* after the teardown looked: every other path ends, the cycles included.
ServeReturnsOrStranded ==
    \A c \in Clients : main[c] = "teardown" ~> main[c] = "idle" \/ Stranded(c)

\* What a client of the proxy may see of its upstream: the abstract specification.
LinkState == IF upstream # NoConn THEN "up"
             ELSE IF reconnectGate # Nobody THEN "recovering" ELSE "down"
Owed == \E p \in Pumps : pc[p] \in {"releasefail", "signaldone"}
Link == INSTANCE UpstreamLink WITH link <- LinkState, shut <- closed, owed <- Owed, over <- done

\* The proxy implements it: the link goes down only by a give-up or a Close, it
\* always passes through a cycle to come back, and every give-up is reported.
ImplementsLink == Link!Spec

\* The consumer of Done is never left with an upstream that is silently gone: with
\* no cycle in flight, Done is closed or a pump is on its way to close it.
LossIsTold == Link!DownIsTold

\* Violated.  proxy.go says Close tears down the upstream WebSocket: when it has
\* returned and no Serve runs, no upstream connection is open.
CloseReleases ==
    closer = "returned" /\ (\A c \in Clients : main[c] = "idle")
        => \A k \in Conns : ~Live(k)

\* Violated.  reconnect's comment rules out Done closed on a live proxy: unless Close
\* was called, Done is not closed while a connection is installed.
DoneMeansLost == [][done' /\ ~done /\ ~closed => upstream = NoConn]_vars
=============================================================================
