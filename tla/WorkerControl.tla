--------------------------- MODULE WorkerControl ---------------------------
(***************************************************************************)
(* The worker-control server of pkg/mobilebridge/worker_control.go: HTTP   *)
(* handlers that attach and release device sessions and start, stop and    *)
(* delete screen recordings, the goroutine that watches each session, and  *)
(* Stop.  Every handler runs on its own goroutine; one action is one       *)
(* section under s.mu (or screenRecordMu), or one call outside it.         *)
(*                                                                         *)
(* Screen recordings are those of recording.go: a child process tracked    *)
(* for each proxy, which writes to one path of the device.  The sessions   *)
(* here are all of one device, whose path they share; sessions of two      *)
(* devices share nothing of it.                                            *)
(*                                                                         *)
(* Session and recording ids are fresh; here an id that nothing refers to  *)
(* any more may come back, so that no counter is needed.  The request      *)
(* counters and lastError, which only a heartbeat reads, are left out, and *)
(* so are the requests turned away before they touch the tables (method,   *)
(* token, JSON) and createTarget, which changes nothing here.              *)
(***************************************************************************)
EXTENDS Naturals, FiniteSets

CONSTANTS
    Handlers,       \* goroutines serving a request
    Sessions,       \* session ids, with their *workerControlSession
    Recordings,     \* recording ids, with their *workerControlRecording
    NoSession, NoRecording,
    MaxSessions     \* SetMaxSessions: 0 is no limit

ASSUME LimitAssumption == MaxSessions \in Nat
ASSUME NoneAssumption == NoSession \notin Sessions /\ NoRecording \notin Recordings
ASSUME IdsAssumption == Sessions \cap Recordings = {}       \* "mbw_...", "mbr_..."
ASSUME HandlersAssumption == IsFiniteSet(Handlers) /\ IsFiniteSet(Sessions)

VARIABLES
    sessions,       \* the ids in s.sessions
    pending,        \* s.pending
    recordings,     \* the ids in s.recordings
    owner,          \* recording.sessionID
    recordingID,    \* session.recordingID, "" being NoRecording
    bridge,         \* each session's attached server and proxy: "up", "lost" once the
                    \* proxy has closed Done by itself, "closed", or "none" before
    watcher,        \* sessions whose watchSession goroutine runs
    screen,         \* screenRecords: the recording whose screenrecord runs for a session
    remote,         \* the recording whose video is at remoteScreenRecordPath
    opened,         \* recordings whose screenrecord has opened that path
    video,          \* for each recording, the one whose video its file on the host holds
    at, ses, rec,   \* per handler: where it is, its session, its recording
    taken,          \* per handler: the screenrecord it took out of screenRecords
    todo,           \* per handler: the ids cleanupSessionRecordings has still to do
    stopping,       \* Stop: "no", "closing" or "shut"
    toClose, toRemove,  \* its snapshots of sessions and recordings
    mixed,  \* history: recordings during which another one opened the path
    cut,    \* history: recordings a request about another one took the pointer from
    late    \* history: sessions and recordings that entered their table too late for
            \* the request, or the Stop, that empties it

tableVars == <<recordings, owner, recordingID>>
deviceVars == <<remote, opened, mixed>>
screenVars == <<screen, video, deviceVars>>
bridgeVars == <<sessions, bridge, watcher>>
handlerVars == <<at, ses, rec, taken, todo>>
stopVars == <<stopping, toClose, toRemove>>
vars == <<pending, tableVars, screenVars, bridgeVars, handlerVars, stopVars, cut, late>>

AttachAt == {"attaching", "inserting", "releasing"}
ReleaseAt == {"closing", "listing", "cleaning"}
StartAt == {"known", "lookup", "clear", "start", "register"}
StopAt == {"find", "stop", "pull", "remove", "stat", "forget"}
HandlerAt == {"idle"} \cup AttachAt \cup ReleaseAt \cup StartAt \cup StopAt

Init ==
    /\ sessions = {} /\ pending = 0 /\ recordings = {}
    /\ owner = [r \in Recordings |-> NoSession]
    /\ recordingID = [e \in Sessions |-> NoRecording]
    /\ bridge = [e \in Sessions |-> "none"]
    /\ watcher = {}
    /\ screen = [e \in Sessions |-> NoRecording]
    /\ remote = NoRecording /\ opened = {}
    /\ video = [r \in Recordings |-> NoRecording]
    /\ mixed = {} /\ cut = {} /\ late = {}
    /\ at = [h \in Handlers |-> "idle"]
    /\ ses = [h \in Handlers |-> NoSession]
    /\ rec = [h \in Handlers |-> NoRecording]
    /\ taken = [h \in Handlers |-> NoRecording]
    /\ todo = [h \in Handlers |-> {}]
    /\ stopping = "no" /\ toClose = {} /\ toRemove = {}

Goto(h, l) == at' = [at EXCEPT ![h] = l]

\* The handler replies: it holds nothing any more.
Done(h) ==
    /\ Goto(h, "idle")
    /\ ses' = [ses EXCEPT ![h] = NoSession]
    /\ rec' = [rec EXCEPT ![h] = NoRecording]

\* A request is accepted until Stop has shut the listener.
Accepts(h) == at[h] = "idle" /\ stopping # "shut"

\* Nothing refers to the id: it may stand for a new one.
FreeSession(e) ==
    /\ e \notin sessions \cup watcher \cup toClose
    /\ bridge[e] \in {"none", "closed", "failed"}
    /\ \A h \in Handlers : ses[h] # e
    /\ \A r \in recordings : owner[r] # e
    /\ screen[e] = NoRecording
FreeRecording(r) ==
    /\ r \notin recordings \cup toRemove /\ remote # r
    /\ video[r] = NoRecording /\ \A q \in Recordings : video[q] # r
    /\ \A h \in Handlers : rec[h] # r /\ taken[h] # r /\ r \notin todo[h]
    /\ \A e \in Sessions : recordingID[e] # r /\ screen[e] # r

(***************************************************************************)
(* POST /sessions.                                                         *)
(***************************************************************************)
\* Mutant: attaches in flight are not counted.
HasRoom_TableOnly == MaxSessions = 0 \/ Cardinality(sessions) < MaxSessions

\* reserveAttachSlot's condition.
HasRoom == MaxSessions = 0 \/ Cardinality(sessions) + pending < MaxSessions

Reserve(h) ==
    /\ Accepts(h) /\ HasRoom
    /\ pending' = pending + 1
    /\ Goto(h, "attaching")
    /\ UNCHANGED <<ses, rec, taken, todo, tableVars, screenVars, bridgeVars, stopVars, cut,
                   late>>

\* freeTCPPort and startAttached: an error, or a bridge that is up.
Start(h) ==
    /\ at[h] = "attaching"
    /\ \/ /\ Goto(h, "releasing")
          /\ UNCHANGED <<bridge, ses>>
       \/ \E e \in Sessions :
            /\ FreeSession(e)
            /\ bridge' = [bridge EXCEPT ![e] = "up"]
            /\ ses' = [ses EXCEPT ![h] = e]
            /\ Goto(h, "inserting")
    /\ UNCHANGED <<pending, sessions, watcher, rec, taken, todo, tableVars, screenVars,
                   stopVars,
                   cut, late>>

\* The new entry goes into the table, and its watcher is started.
Insert(h) ==
    /\ at[h] = "inserting"
    /\ sessions' = sessions \cup {ses[h]}
    /\ recordingID' = [recordingID EXCEPT ![ses[h]] = NoRecording]
    /\ watcher' = watcher \cup {ses[h]}
    /\ late' = IF stopping = "no" THEN late \ {ses[h]} ELSE late \cup {ses[h]}
    /\ Goto(h, "releasing")
    /\ UNCHANGED <<pending, recordings, owner, bridge, ses, rec, taken, todo, screenVars,
                   stopVars, cut>>

\* Mutant: the slot is released on success only.
Release_OnSuccess(h) ==
    /\ at[h] = "releasing"
    /\ pending' = IF ses[h] # NoSession /\ pending > 0 THEN pending - 1 ELSE pending
    /\ Done(h)
    /\ UNCHANGED <<taken, todo, tableVars, screenVars, bridgeVars, stopVars, cut, late>>

\* Mutant: the error path gives the slot back, and so does the defer.
Release_Unchecked(h) ==
    /\ at[h] = "releasing"
    /\ pending' = pending - (IF ses[h] = NoSession THEN 2 ELSE 1)
    /\ Done(h)
    /\ UNCHANGED <<taken, todo, tableVars, screenVars, bridgeVars, stopVars, cut, late>>

\* The deferred releaseAttachSlot.
Release(h) ==
    /\ at[h] = "releasing"
    /\ pending' = IF pending > 0 THEN pending - 1 ELSE pending
    /\ Done(h)
    /\ UNCHANGED <<taken, todo, tableVars, screenVars, bridgeVars, stopVars, cut, late>>

(***************************************************************************)
(* The watcher: the entry of a session whose proxy is done leaves the      *)
(* table.  The attached server is not closed.                              *)
(***************************************************************************)
\* Mutant: the goroutine ends without touching the table.
Forget_Nothing(e) == UNCHANGED sessions

Forget(e) == sessions' = sessions \ {e}

Watch(e) ==
    /\ e \in watcher /\ bridge[e] \in {"lost", "closed", "failed"}
    /\ Forget(e)
    /\ watcher' = watcher \ {e}
    /\ UNCHANGED <<pending, bridge, tableVars, screenVars, handlerVars, stopVars, cut, late>>

(***************************************************************************)
(* DELETE /sessions/{id}.                                                  *)
(***************************************************************************)
\* Mutant: get and delete under two locks, so that two requests take one entry.
Take_GetOnly(e) == UNCHANGED sessions

Take(e) == sessions' = sessions \ {e}

\* popSession.
Pop(h, e) ==
    /\ Accepts(h) /\ e \in sessions
    /\ Take(e)
    /\ ses' = [ses EXCEPT ![h] = e]
    /\ Goto(h, "closing")
    /\ UNCHANGED <<pending, bridge, watcher, rec, taken, todo, tableVars, screenVars, stopVars,
                   cut, late>>

\* AttachedServer.Close closes server and proxy even when it returns an error; the
\* error ends the request before the recordings are cleaned up.
CloseSession(h) ==
    /\ at[h] = "closing"
    /\ \/ /\ bridge' = [bridge EXCEPT ![ses[h]] = "closed"]
          /\ Goto(h, "listing") /\ UNCHANGED <<ses, rec>>
       \/ /\ bridge' = [bridge EXCEPT ![ses[h]] = "failed"]
          /\ Done(h)
    /\ UNCHANGED <<pending, sessions, watcher, taken, todo, tableVars, screenVars, stopVars,
                   cut,
                   late>>

\* Mutant: the ids come from the one recording the session points to.
Own_Pointed(e) == {recordingID[e]} \cap recordings

\* cleanupSessionRecordings collects the ids under one lock ...
Own(e) == {r \in recordings : owner[r] = e}

ListRecordings(h) ==
    /\ at[h] = "listing"
    /\ todo' = [todo EXCEPT ![h] = Own(ses[h])]
    /\ Goto(h, "cleaning")
    /\ UNCHANGED <<pending, ses, rec, taken, tableVars, screenVars, bridgeVars, stopVars, cut,
                   late>>

\* Mutant: the pointer of the session is left behind.
Cleanup_KeepsPointer(r) ==
    /\ recordings' = recordings \ {r}
    /\ video' = [video EXCEPT ![r] = NoRecording]
    /\ UNCHANGED recordingID

\* cleanupRecording: the entry, the pointer of its session if the session is still
\* in the table, and the file.
Cleanup(r) ==
    /\ recordings' = recordings \ {r}
    /\ video' = IF r \in recordings THEN [video EXCEPT ![r] = NoRecording] ELSE video
    /\ recordingID' = [e \in Sessions |->
         IF r \in recordings /\ e = owner[r] /\ e \in sessions /\ recordingID[e] = r
         THEN NoRecording ELSE recordingID[e]]

\* ... and cleans them up one lock at a time.
CleanOne(h) ==
    /\ at[h] = "cleaning"
    /\ \/ \E r \in todo[h] :
            /\ Cleanup(r)
            /\ todo' = [todo EXCEPT ![h] = @ \ {r}]
            /\ UNCHANGED <<at, ses, rec>>
       \/ /\ todo[h] = {}
          /\ Done(h)
          /\ UNCHANGED <<recordings, video, recordingID, todo>>
    /\ UNCHANGED <<pending, owner, screen, taken, deviceVars, bridgeVars, stopVars, cut, late>>

(***************************************************************************)
(* POST /sessions/{id}/recording/start.                                    *)
(***************************************************************************)
\* getSession.
StartRecording(h, e) ==
    /\ Accepts(h) /\ e \in sessions
    /\ ses' = [ses EXCEPT ![h] = e]
    /\ Goto(h, "known")
    /\ UNCHANGED <<pending, rec, taken, todo, tableVars, screenVars, bridgeVars, stopVars, cut,
                   late>>

\* entry.recordingID is read twice outside the lock: to see whether there is one ...
Pointed(h) ==
    /\ at[h] = "known"
    /\ Goto(h, IF recordingID[ses[h]] = NoRecording THEN "start" ELSE "lookup")
    /\ UNCHANGED <<pending, ses, rec, taken, todo, tableVars, screenVars, bridgeVars, stopVars,
                   cut, late>>

\* ... and for getRecording: one that is known is answered as it is.  The race can
\* also tear the string, which ends the request in net/http's recover.
Lookup(h) ==
    /\ at[h] = "lookup"
    /\ \/ Done(h)
       \/ /\ recordingID[ses[h]] \notin recordings
          /\ Goto(h, "clear")
          /\ UNCHANGED <<ses, rec>>
    /\ UNCHANGED <<pending, taken, todo, tableVars, screenVars, bridgeVars, stopVars, cut,
                   late>>

\* The pointer of e is cleared by a request about recording r, or about none.
ClearPointer(e, r) ==
    /\ recordingID' = [recordingID EXCEPT ![e] = NoRecording]
    /\ cut' = cut \cup ({recordingID[e]} \cap (recordings \ {r}))

ClearStale(h) ==
    /\ at[h] = "clear"
    /\ ClearPointer(ses[h], NoRecording)
    /\ Goto(h, "start")
    /\ UNCHANGED <<pending, recordings, owner, ses, rec, taken, todo, screenVars, bridgeVars,
                   stopVars, late>>

\* StartScreenRecording starts the child unless one runs for the proxy, or fails; the
\* file name is the recording's.
Screenrecord(h) ==
    /\ at[h] = "start"
    /\ \/ /\ Done(h)
          /\ UNCHANGED <<screen, opened, mixed, cut, late>>
       \/ \E r \in Recordings :
            /\ screen[ses[h]] = NoRecording /\ FreeRecording(r)
            /\ screen' = [screen EXCEPT ![ses[h]] = r]
            /\ rec' = [rec EXCEPT ![h] = r]
            /\ Goto(h, "register")
            /\ opened' = opened \ {r} /\ mixed' = mixed \ {r}
            /\ cut' = cut \ {r} /\ late' = late \ {r}
            /\ UNCHANGED ses
    /\ UNCHANGED <<pending, video, remote, taken, todo, tableVars, bridgeVars, stopVars>>

\* The recordings of the device that run, or are stopped and still to be pulled.
InPlay == {screen[e] : e \in Sessions} \cup {taken[h] : h \in Handlers}

\* On the device the child opens the path, and what was there is gone.
Open(e) ==
    /\ screen[e] # NoRecording /\ screen[e] \notin opened
    /\ opened' = opened \cup {screen[e]}
    /\ remote' = screen[e]
    /\ LET others == InPlay \ {screen[e], NoRecording} IN
       mixed' = mixed \cup others \cup (IF others = {} THEN {} ELSE {screen[e]})
    /\ UNCHANGED <<pending, screen, video, tableVars, bridgeVars, handlerVars, stopVars, cut,
                   late>>

\* Mutant: a session that points to a recording goes on pointing to it.
Register_KeepsPointer(h) ==
    /\ at[h] = "register"
    /\ recordingID' = [recordingID EXCEPT ![ses[h]] = IF @ = NoRecording THEN rec[h] ELSE @]
    /\ recordings' = recordings \cup {rec[h]}
    /\ owner' = [owner EXCEPT ![rec[h]] = ses[h]]
    /\ late' = IF ses[h] \in sessions /\ stopping = "no" THEN late ELSE late \cup {rec[h]}
    /\ Done(h)
    /\ UNCHANGED <<pending, taken, todo, screenVars, bridgeVars, stopVars, cut>>

\* The recording goes into the table, and the session points to it.
Register(h) ==
    /\ at[h] = "register"
    /\ recordingID' = [recordingID EXCEPT ![ses[h]] = rec[h]]
    /\ recordings' = recordings \cup {rec[h]}
    /\ owner' = [owner EXCEPT ![rec[h]] = ses[h]]
    /\ cut' = cut \cup ({recordingID[ses[h]]} \cap recordings)
    /\ late' = IF ses[h] \in sessions /\ stopping = "no" THEN late ELSE late \cup {rec[h]}
    /\ Done(h)
    /\ UNCHANGED <<pending, taken, todo, screenVars, bridgeVars, stopVars>>

(***************************************************************************)
(* POST /sessions/{id}/recording/stop.                                     *)
(***************************************************************************)
\* getSession.
StopRecording(h, e) ==
    /\ Accepts(h) /\ e \in sessions
    /\ ses' = [ses EXCEPT ![h] = e]
    /\ Goto(h, "find")
    /\ UNCHANGED <<pending, rec, taken, todo, tableVars, screenVars, bridgeVars, stopVars, cut,
                   late>>

\* entry.recordingID, outside the lock, and getRecording; an unknown one is a 404 (a
\* torn pointer ends the request the same way).
FindRecording(h) ==
    /\ at[h] = "find"
    /\ \/ /\ recordingID[ses[h]] \in recordings
          /\ rec' = [rec EXCEPT ![h] = recordingID[ses[h]]]
          /\ Goto(h, "stop")
          /\ UNCHANGED ses
       \/ Done(h)
    /\ UNCHANGED <<pending, taken, todo, tableVars, screenVars, bridgeVars, stopVars, cut,
                   late>>

\* Mutant: the entry is deleted after the pull, not under the lock that found it.
Untrack_Late(e) == UNCHANGED screen

Untrack(e) == screen' = [screen EXCEPT ![e] = NoRecording]

\* StopScreenRecording takes out the proxy's entry, whoever started it, and kills the
\* child; with none it is done.
TakeScreen(h) ==
    /\ at[h] = "stop"
    /\ Untrack(ses[h])
    /\ taken' = [taken EXCEPT ![h] = screen[ses[h]]]
    /\ Goto(h, IF screen[ses[h]] = NoRecording THEN "stat" ELSE "pull")
    /\ UNCHANGED <<pending, video, deviceVars, ses, rec, todo, tableVars, bridgeVars, stopVars,
                   cut, late>>

\* Mutant: the video is pulled to the path of the recording the request found.
Output_Found(h) == rec[h]

\* rec.outputPath is the path given at the start.
Output(h) == taken[h]

\* adb pull: on an error, as when nothing is at the path, the request ends here.
Pull(h) ==
    /\ at[h] = "pull"
    /\ \/ /\ remote # NoRecording
          /\ video' = [video EXCEPT ![Output(h)] = remote]
          /\ Goto(h, "remove")
          /\ UNCHANGED <<ses, rec>>
       \/ Done(h) /\ UNCHANGED video
    /\ taken' = [taken EXCEPT ![h] = NoRecording]
    /\ UNCHANGED <<pending, screen, deviceVars, todo, tableVars, bridgeVars, stopVars, cut,
                   late>>

\* adb shell rm -f, whose failure nobody looks at.
Remove(h) ==
    /\ at[h] = "remove"
    /\ remote' \in {remote, NoRecording}
    /\ Goto(h, "stat")
    /\ UNCHANGED <<pending, screen, video, opened, mixed, ses, rec, taken, todo, tableVars,
                   bridgeVars, stopVars, cut, late>>

\* os.Stat of the file.
Stat(h) ==
    /\ at[h] = "stat"
    /\ \/ video[rec[h]] # NoRecording /\ Goto(h, "forget") /\ UNCHANGED <<ses, rec>>
       \/ video[rec[h]] = NoRecording /\ Done(h)
    /\ UNCHANGED <<pending, taken, todo, tableVars, screenVars, bridgeVars, stopVars, cut,
                   late>>

\* The session's pointer is cleared if the session is still in the table.
ForgetRecording(h) ==
    /\ at[h] = "forget"
    /\ \/ /\ ses[h] \in sessions
          /\ ClearPointer(ses[h], rec[h])
       \/ /\ ses[h] \notin sessions
          /\ UNCHANGED <<recordingID, cut>>
    /\ Done(h)
    /\ UNCHANGED <<pending, recordings, owner, taken, todo, screenVars, bridgeVars, stopVars,
                   late>>

(***************************************************************************)
(* DELETE /recordings/{id}.                                                *)
(***************************************************************************)
DeleteRecording(h, r) ==
    /\ Accepts(h) /\ r \in recordings
    /\ Cleanup(r)
    /\ UNCHANGED <<pending, owner, screen, deviceVars, bridgeVars, handlerVars, stopVars, cut,
                   late>>

(***************************************************************************)
(* Stop, on the way out of the process.                                    *)
(***************************************************************************)
StopBegin ==
    /\ stopping = "no" /\ stopping' = "closing"
    /\ toClose' = sessions /\ toRemove' = recordings
    /\ UNCHANGED <<pending, tableVars, screenVars, bridgeVars, handlerVars, cut, late>>

StopClose(e) ==
    /\ e \in toClose
    /\ bridge' = [bridge EXCEPT ![e] = "closed"]
    /\ toClose' = toClose \ {e}
    /\ UNCHANGED <<pending, sessions, watcher, tableVars, screenVars, handlerVars, stopping,
                   toRemove, cut, late>>

StopRemove(r) ==
    /\ toClose = {} /\ r \in toRemove
    /\ video' = [video EXCEPT ![r] = NoRecording] /\ toRemove' = toRemove \ {r}
    /\ UNCHANGED <<pending, screen, deviceVars, tableVars, bridgeVars, handlerVars, stopping,
                   toClose, cut, late>>

\* Shutdown closes the listener first.
StopShut ==
    /\ stopping = "closing" /\ toClose = {} /\ toRemove = {} /\ stopping' = "shut"
    /\ UNCHANGED <<pending, tableVars, screenVars, bridgeVars, handlerVars, toClose, toRemove,
                   cut, late>>

\* A session's proxy gives up and closes Done.
Lose(e) ==
    /\ bridge[e] = "up"
    /\ bridge' = [bridge EXCEPT ![e] = "lost"]
    /\ UNCHANGED <<pending, sessions, watcher, tableVars, screenVars, handlerVars, stopVars,
                   cut,
                   late>>

Finished ==
    /\ stopping = "shut" /\ \A h \in Handlers : at[h] = "idle"
    /\ UNCHANGED vars

AttachStep(h) == Start(h) \/ Insert(h) \/ Release(h)
ReleaseStep(h) == CloseSession(h) \/ ListRecordings(h) \/ CleanOne(h)
StartStep(h) == Pointed(h) \/ Lookup(h) \/ ClearStale(h) \/ Screenrecord(h) \/ Register(h)
StopStep(h) == \/ FindRecording(h) \/ TakeScreen(h) \/ Pull(h) \/ Remove(h) \/ Stat(h)
               \/ ForgetRecording(h)
HandlerStep(h) == AttachStep(h) \/ ReleaseStep(h) \/ StartStep(h) \/ StopStep(h)

Request(h) ==
    \/ Reserve(h)
    \/ \E e \in Sessions : Pop(h, e) \/ StartRecording(h, e) \/ StopRecording(h, e)
    \/ \E r \in Recordings : DeleteRecording(h, r)

Next ==
    \/ \E h \in Handlers : Request(h) \/ HandlerStep(h)
    \/ \E e \in Sessions : Watch(e) \/ Lose(e) \/ StopClose(e) \/ Open(e)
    \/ \E r \in Recordings : StopRemove(r)
    \/ StopBegin \/ StopShut \/ Finished

Spec == Init /\ [][Next]_vars

\* A handler's calls return, and the watchers are scheduled.
Fairness == /\ \A h \in Handlers : WF_vars(HandlerStep(h))
            /\ \A e \in Sessions : WF_vars(Watch(e))

FairSpec == Spec /\ Fairness

-----------------------------------------------------------------------------
TypeOK ==
    /\ sessions \in SUBSET Sessions /\ pending \in Nat
    /\ recordings \in SUBSET Recordings
    /\ owner \in [Recordings -> Sessions \cup {NoSession}]
    /\ recordingID \in [Sessions -> Recordings \cup {NoRecording}]
    /\ bridge \in [Sessions -> {"none", "up", "lost", "closed", "failed"}]
    /\ watcher \in SUBSET Sessions
    /\ screen \in [Sessions -> Recordings \cup {NoRecording}]
    /\ remote \in Recordings \cup {NoRecording} /\ opened \in SUBSET Recordings
    /\ video \in [Recordings -> Recordings \cup {NoRecording}]
    /\ at \in [Handlers -> HandlerAt]
    /\ ses \in [Handlers -> Sessions \cup {NoSession}]
    /\ rec \in [Handlers -> Recordings \cup {NoRecording}]
    /\ taken \in [Handlers -> Recordings \cup {NoRecording}]
    /\ todo \in [Handlers -> SUBSET Recordings]
    /\ stopping \in {"no", "closing", "shut"}
    /\ toClose \in SUBSET Sessions /\ toRemove \in SUBSET Recordings
    /\ mixed \in SUBSET Recordings /\ cut \in SUBSET Recordings
    /\ late \in SUBSET (Sessions \cup Recordings)

\* s.pending counts exactly the attaches in flight: no slot is lost on an error
\* path or given back twice (handleSessions' defer).
SlotsExact == pending = Cardinality({h \in Handlers : at[h] \in AttachAt})

\* The attaches that hold a place under the limit until their session is in the table.
Entering == {h \in Handlers : at[h] \in {"attaching", "inserting"}}

\* The table never holds more than the limit, whatever attaches race: those that
\* have not reached it yet are counted before they start.
WithinLimit ==
    MaxSessions > 0 => Cardinality(sessions) + Cardinality(Entering) <= MaxSessions

\* The sessions that a request has popped and not closed yet, and those that are up.
Leaving == {e \in Sessions : \E h \in Handlers : at[h] = "closing" /\ ses[h] = e}
Up == {e \in Sessions : bridge[e] = "up"}

\* The requests, the watchers and Stop keep what SessionPool promises of the sessions.
Pool == INSTANCE SessionPool WITH
    Limit <- MaxSessions, slots <- Cardinality(Entering),
    table <- sessions, leaving <- Leaving, up <- Up

ImplementsPool == Pool!Spec

\* One request closes a session: two DELETEs of one id cannot both have taken it.
OneCloser ==
    \A h, i \in Handlers :
        at[h] \in ReleaseAt /\ at[i] \in ReleaseAt /\ ses[h] = ses[i] => h = i

\* A session of the table points to no recording or to one of its own that is
\* still known (cleanupRecording clears what it deletes).
PointerValid ==
    \A e \in sessions : recordingID[e] = NoRecording
        \/ (recordingID[e] \in recordings /\ owner[recordingID[e]] = e)

\* A screenrecord is stopped and pulled by one handler, and is no longer tracked
\* while it is (StopScreenRecording's delete under screenRecordMu).
OneTaker ==
    \A h \in Handlers : taken[h] # NoRecording =>
        /\ \A i \in Handlers : taken[i] = taken[h] => i = h
        /\ \A e \in Sessions : screen[e] # taken[h]

\* What a request takes out of a table it alone has, until it is done with it.
TakenOnce == OneCloser /\ OneTaker

\* The file served for a recording holds its own video, though all share one path of
\* the device, but for one that was stopped before its child opened the path or
\* during which another one opened it (StartScreenRecording, StopScreenRecording).
OwnVideo ==
    \A r \in recordings :
        r \in opened \ mixed => video[r] \in {NoRecording, r}

\* The screenrecord that runs for a session can be stopped: the session points to it,
\* unless it was deleted while it ran, or a request about another recording took the
\* pointer from it (entry.recordingID, written without a look at its value).
Stoppable ==
    \A e \in sessions : LET r == screen[e] IN
        \/ r = NoRecording \/ recordingID[e] = r
        \/ r \notin recordings      \* still to be registered, or deleted
        \/ r \in cut

\* A session's pointer can be relied on, though no lock is held from its reading to what
\* is done about it (entry.recordingID).
PointerExact == PointerValid /\ Stoppable

\* DELETE of a session takes its recordings along, and Stop closes every session: what
\* is left is lost, or failed to close, or came too late to be seen.
Released(e) == e \notin sessions /\ bridge[e] = "closed" /\ stopping = "no"
Emptied ==
    /\ \A r \in recordings : Released(owner[r]) =>
          \/ r \in late
          \/ \E h \in Handlers : /\ ses[h] = owner[r]
                                 /\ at[h] = "listing" \/ (at[h] = "cleaning" /\ r \in todo[h])
    /\ stopping = "shut" => \A e \in Sessions : bridge[e] = "up" =>
          e \in late \/ \E h \in Handlers : ses[h] = e /\ at[h] \in {"inserting", "closing"}

\* A worker has room again and again, unless sessions that are up fill the limit: the
\* watcher takes the entry of a lost one out, and the slot of an attach is released, in
\* whichever order (watchSession, releaseAttachSlot).
RoomReturns ==
    []<>(HasRoom \/ Cardinality(sessions \cap Up) >= MaxSessions)
=============================================================================
