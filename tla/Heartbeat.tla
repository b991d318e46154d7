----------------------------- MODULE Heartbeat -----------------------------
(***************************************************************************)
(* The worker's heartbeat: the publisher goroutine of worker_heartbeat.go, *)
(* Snapshot of worker_control.go with the request counters it reads, and   *)
(* Enrich of enrich.go, whose four adb reads run in parallel.              *)
(*                                                                         *)
(* A heartbeat is put together from reads at different times: the list of  *)
(* devices, then each device in turn, then the server's counters.  adb may *)
(* hang: only Enrich bounds its calls, and the cancelled context ends all. *)
(* The session counts, exact in WorkerControl, are read with the counters. *)
(***************************************************************************)
EXTENDS Naturals, FiniteSets

CONSTANTS
    Devices,
    Fields,         \* the four reads of Enrich
    NoDevice,
    NoError, AdbError, RequestError,    \* what lastError tells apart
    MaxRequests     \* bound: requests counted

ASSUME FieldsAssumption == Fields # {} /\ NoError \notin Fields
ASSUME NoneAssumption == NoDevice \notin Devices
ASSUME ErrorsAssumption == NoError # AdbError /\ RequestError \notin {NoError, AdbError}
ASSUME BoundAssumption == MaxRequests \in Nat

VARIABLES
    attached,       \* the devices adb devices would list
    wedged,         \* adb hangs: its calls do not return
    at,             \* the publisher: see At
    cancelled,      \* ctx is done
    left, cur,      \* the listed devices still to visit; the one at hand
    reader,         \* Enrich's goroutines: "off", "call", "store", "ok" or "fail"
    got,            \* the fields of cur that were set
    okAny, firstErr,    \* what record folds; an error is the name of its field
    errors,         \* history: the fields whose error was recorded
    result,         \* what Enrich returned
    listed,         \* history: the devices of the list
    report,         \* the devices of the heartbeat
    requests, failures, lastError,  \* the server's counters
    beat,           \* the heartbeat that is posted
    refused         \* a POST failed

enrichVars == <<reader, got, okAny, firstErr, errors, result>>
buildVars == <<left, cur, listed, report>>
serverVars == <<requests, failures, lastError>>
vars == <<attached, wedged, at, cancelled, enrichVars, buildVars, serverVars, beat, refused>>

At == {"list", "next", "enrich", "socket", "count", "post", "wait", "ended"}

Beat(ok, devices) ==
    [healthy |-> ok, devices |-> devices, requests |-> requests, failures |-> failures,
     lastError |-> IF ~ok /\ lastError = NoError THEN AdbError ELSE lastError]

NoBeat == [healthy |-> TRUE, devices |-> {}, requests |-> 0, failures |-> 0,
           lastError |-> NoError]

Init ==
    /\ attached \in SUBSET Devices /\ wedged = FALSE
    /\ at = "list" /\ cancelled = FALSE
    /\ left = {} /\ cur = NoDevice
    /\ reader = [f \in Fields |-> "off"] /\ got = {}
    /\ okAny = FALSE /\ firstErr = NoError /\ errors = {} /\ result = NoError
    /\ listed = {} /\ report = {}
    /\ requests = 0 /\ failures = 0 /\ lastError = NoError
    /\ beat = NoBeat /\ refused = FALSE

\* An adb call works or fails while adb does not hang, and fails with the context.
Answers == ~wedged /\ ~cancelled
Fails == ~wedged \/ cancelled

(***************************************************************************)
(* Snapshot: collectHeartbeatDevices, then the counters under s.mu.        *)
(***************************************************************************)
\* Mutant: a failed list ends the heartbeat.
ListFailed_Ends == at' = "ended" /\ UNCHANGED beat

ListFailed == at' = "post" /\ beat' = Beat(FALSE, {})

List ==
    /\ at = "list"
    /\ \/ /\ Answers
          /\ left' = attached /\ listed' = attached
          /\ at' = "next"
          /\ UNCHANGED beat
       \/ /\ Fails
          /\ ListFailed
          /\ left' = {} /\ listed' = {}
    /\ report' = {}
    /\ UNCHANGED <<attached, wedged, cancelled, cur, enrichVars, serverVars, refused>>

\* The next device is enriched: four goroutines, each with its call under way.
Visit(d) ==
    /\ at = "next" /\ d \in left
    /\ left' = left \ {d} /\ cur' = d
    /\ reader' = [f \in Fields |-> "call"] /\ got' = {}
    /\ okAny' = FALSE /\ firstErr' = NoError /\ errors' = {}
    /\ at' = "enrich"
    /\ UNCHANGED <<attached, wedged, cancelled, result, listed, report, serverVars, beat,
                   refused>>

Collected ==
    /\ at = "next" /\ left = {} /\ at' = "count"
    /\ UNCHANGED <<attached, wedged, cancelled, enrichVars, buildVars, serverVars, beat,
                   refused>>

(***************************************************************************)
(* Enrich.                                                                 *)
(***************************************************************************)
\* Mutant: the calls are made with the caller's context.
TimesOut_Never == Fails

\* enrichPerCallTimeout ends every call.
TimesOut == TRUE

\* The call returns what can be parsed, or an error, or text that cannot be parsed.
ReadReturns(f) ==
    /\ at = "enrich" /\ reader[f] = "call"
    /\ \/ Answers /\ cur \in attached /\ reader' = [reader EXCEPT ![f] = "store"]
       \/ TimesOut /\ reader' = [reader EXCEPT ![f] = "fail"]
    /\ UNCHANGED <<attached, wedged, at, cancelled, got, okAny, firstErr, errors, result,
                   buildVars, serverVars, beat, refused>>

\* The parsed value is stored under mu ...
StoreField(f) ==
    /\ reader[f] = "store" /\ reader' = [reader EXCEPT ![f] = "ok"]
    /\ got' = got \cup {f}
    /\ UNCHANGED <<attached, wedged, at, cancelled, okAny, firstErr, errors, result, buildVars,
                   serverVars, beat, refused>>

\* An error is kept unless there is one already.
Fold(f) == IF firstErr = NoError THEN f ELSE firstErr

\* ... and record takes the lock once more.
Record(f) ==
    /\ \/ /\ reader[f] = "ok" /\ okAny' = TRUE
          /\ UNCHANGED <<firstErr, errors>>
       \/ /\ reader[f] = "fail" /\ firstErr' = Fold(f)
          /\ errors' = errors \cup {f}
          /\ UNCHANGED okAny
    /\ reader' = [reader EXCEPT ![f] = "off"]
    /\ UNCHANGED <<attached, wedged, at, cancelled, got, result, buildVars, serverVars, beat,
                   refused>>

\* Mutant: an error is returned though other reads worked.
Outcome_AnyError == firstErr

Outcome == IF okAny THEN NoError ELSE firstErr

\* wg.Wait is over.
EnrichReturns ==
    /\ at = "enrich" /\ \A f \in Fields : reader[f] = "off"
    /\ result' = Outcome
    /\ at' = "socket"
    /\ UNCHANGED <<attached, wedged, cancelled, reader, got, okAny, firstErr, errors, buildVars,
                   serverVars, beat, refused>>

\* Mutant: a device that could not be enriched is passed over.
Entry_IfEnriched(ok) ==
    IF result = NoError THEN {[device |-> cur, inspectable |-> ok]} ELSE {}

\* Whatever Enrich returned, the device goes into the heartbeat with what is known of it.
Entry(ok) == {[device |-> cur, inspectable |-> ok]}

\* ChromeDevtoolsSocketInfo: no DevTools socket and a failed call both make the device one
\* that cannot be inspected.
SocketInfo ==
    /\ at = "socket"
    /\ \/ Answers /\ cur \in attached /\ report' = report \cup Entry(TRUE)
       \/ Fails /\ report' = report \cup Entry(FALSE)
    /\ cur' = NoDevice /\ got' = {} /\ errors' = {} /\ result' = NoError
    /\ okAny' = FALSE /\ firstErr' = NoError
    /\ at' = "next"
    /\ UNCHANGED <<attached, wedged, cancelled, reader, left, listed, serverVars, beat,
                   refused>>

Count ==
    /\ at = "count" /\ at' = "post"
    /\ beat' = Beat(TRUE, report) /\ report' = {}
    /\ UNCHANGED <<attached, wedged, cancelled, enrichVars, left, cur, listed, serverVars,
                   refused>>

(***************************************************************************)
(* WorkerHeartbeatPublisher.                                               *)
(***************************************************************************)
\* client.Do, with its own timeout: Run returns the error of the first POST that is not
\* answered with 200, and it cannot be with the context done.
Post ==
    /\ at = "post"
    /\ \/ ~cancelled /\ at' = "wait" /\ UNCHANGED refused
       \/ at' = "ended" /\ refused' = TRUE
    /\ beat' = NoBeat /\ listed' = {}
    /\ UNCHANGED <<attached, wedged, cancelled, enrichVars, left, cur, report, serverVars>>

\* select { case <-ctx.Done(); case <-ticker.C }: with both ready, either.
Tick ==
    /\ at = "wait" /\ at' = "list"
    /\ UNCHANGED <<attached, wedged, cancelled, enrichVars, buildVars, serverVars, beat,
                   refused>>

Return ==
    /\ at = "wait" /\ cancelled /\ at' = "ended"
    /\ UNCHANGED <<attached, wedged, cancelled, enrichVars, buildVars, serverVars, beat,
                   refused>>

(***************************************************************************)
(* The rest of the worker, and the world.                                  *)
(***************************************************************************)
\* Mutant: a request that works clears the error.
LastError_Cleared(ok) == IF ok THEN NoError ELSE RequestError

LastError(ok) == IF ok THEN lastError ELSE RequestError

\* Mutant: a request that failed is not counted as one.
RecordRequest_Worked(ok) ==
    /\ requests < MaxRequests /\ requests' = IF ok THEN requests + 1 ELSE requests
    /\ failures < MaxRequests /\ failures' = IF ok THEN failures ELSE failures + 1
    /\ lastError' = LastError(ok)
    /\ UNCHANGED <<attached, wedged, at, cancelled, enrichVars, buildVars, beat, refused>>

\* recordRequest, by the handlers of the control server.
RecordRequest(ok) ==
    /\ requests < MaxRequests /\ requests' = requests + 1
    /\ failures' = IF ok THEN failures ELSE failures + 1
    /\ lastError' = LastError(ok)
    /\ UNCHANGED <<attached, wedged, at, cancelled, enrichVars, buildVars, beat, refused>>

Hotplug(d) ==
    /\ attached' \in {attached \cup {d}, attached \ {d}} \ {attached}
    /\ UNCHANGED <<wedged, at, cancelled, enrichVars, buildVars, serverVars, beat, refused>>

Wedge ==
    /\ wedged' = ~wedged
    /\ UNCHANGED <<attached, at, cancelled, enrichVars, buildVars, serverVars, beat, refused>>

\* The signal that stops runWorkerControl.
Cancel ==
    /\ ~cancelled /\ cancelled' = TRUE
    /\ UNCHANGED <<attached, wedged, at, enrichVars, buildVars, serverVars, beat, refused>>

Read(f) == ReadReturns(f) \/ StoreField(f) \/ Record(f)
Enrich == (\E f \in Fields : Read(f)) \/ EnrichReturns
Snapshot == List \/ (\E d \in Devices : Visit(d)) \/ Collected \/ Enrich \/ SocketInfo \/ Count
Publisher == Snapshot \/ Post \/ Return

Next ==
    \/ Publisher \/ Tick \/ Wedge \/ Cancel
    \/ \E ok \in BOOLEAN : RecordRequest(ok)
    \/ \E d \in Devices : Hotplug(d)

\* Calls that return do return, Enrich's timers fire, and a goroutine that can run does.
\* Nothing makes adb stop hanging.
Fairness == WF_vars(Publisher)

Spec == Init /\ [][Next]_vars /\ Fairness

-----------------------------------------------------------------------------
Entries == [device : Devices, inspectable : BOOLEAN]
TypeOK ==
    /\ attached \in SUBSET Devices /\ wedged \in BOOLEAN /\ cancelled \in BOOLEAN
    /\ at \in At
    /\ left \in SUBSET Devices /\ listed \in SUBSET Devices
    /\ cur \in Devices \cup {NoDevice} /\ (cur = NoDevice <=> at \notin {"enrich", "socket"})
    /\ reader \in [Fields -> {"off", "call", "store", "ok", "fail"}]
    /\ got \in SUBSET Fields /\ okAny \in BOOLEAN
    /\ firstErr \in Fields \cup {NoError} /\ result \in Fields \cup {NoError}
    /\ errors \in SUBSET Fields
    /\ report \in SUBSET Entries
    /\ requests \in 0..MaxRequests /\ failures \in 0..requests
    /\ lastError \in {NoError, RequestError}
    /\ beat \in [healthy : BOOLEAN, devices : SUBSET Entries, requests : 0..MaxRequests,
                 failures : 0..MaxRequests, lastError : {NoError, AdbError, RequestError}]
    /\ refused \in BOOLEAN

\* Enrich comes back though adb hangs, and nothing of it runs on that could still write to
\* the device.  Each of its reads is accounted for once, by its field or by its error, and
\* it returns one of the errors if and only if it has nothing else.
EnrichResult ==
    /\ \A f \in Fields : reader[f] = "off"
    /\ got \cup errors = Fields /\ got \cap errors = {}
    /\ IF got = {} THEN result \in errors ELSE result = NoError
Enriched ==
    /\ [](at = "socket" => EnrichResult)
    /\ at = "enrich" ~> at # "enrich"

\* A heartbeat hangs together, though it was read in pieces: a device of the list is in it
\* exactly once, whatever adb said of it since; an unhealthy one names an error; and the
\* error of a request is named as long as its failure is counted (Snapshot, recordRequest).
BeatExplained ==
    LET Told(b, d) == {e \in b.devices : e.device = d} IN
    at = "post" =>
        /\ \A d \in Devices : Cardinality(Told(beat, d)) = IF d \in listed THEN 1 ELSE 0
        /\ ~beat.healthy => beat.devices = {} /\ beat.lastError # NoError
        /\ beat.lastError = RequestError <=> beat.failures > 0
        /\ beat.failures <= beat.requests

\* The heartbeat ends when it is cancelled or a POST fails, also while adb hangs, and
\* only then: an adb that fails does not end it (Run, Send).
EndsWhenTold ==
    /\ cancelled \/ refused ~> at = "ended"
    /\ [](at = "ended" => cancelled \/ refused)
=============================================================================
