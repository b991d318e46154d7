---------------------------- MODULE WorkerProofs ----------------------------
(***************************************************************************)
(* Proofs about WorkerControl, for any sets of handlers, sessions and      *)
(* recordings and any limit.  The inductive invariant adds to the checked  *)
(* ones how fresh an id is while a handler brings it in, and where a       *)
(* session and a video are between two sections of a handler.              *)
(***************************************************************************)
EXTENDS WorkerControl, FiniteSetTheorems, TLAPS

\* What a handler has in hand where the code uses it.
InHand ==
    /\ \A h \in Handlers :
          at[h] \in {"inserting"} \cup ReleaseAt \cup StartAt \cup StopAt => ses[h] \in Sessions
    /\ \A h \in Handlers :
          at[h] \in {"register"} \cup (StopAt \ {"find"}) => rec[h] \in Recordings

\* A session that is attached but not in the table yet is its handler's alone.
FreshSession ==
    \A h \in Handlers : at[h] = "inserting" =>
        /\ ses[h] \notin sessions
        /\ screen[ses[h]] = NoRecording
        /\ stopping = "no" => bridge[ses[h]] \in {"up", "lost"}
        /\ \A i \in Handlers : i # h => ses[i] # ses[h]

\* A recording that is started but not in the table yet is its handler's alone.
FreshRecording ==
    \A h \in Handlers : at[h] = "register" =>
        /\ rec[h] \notin recordings
        /\ \A i \in Handlers : i # h => rec[i] # rec[h]
        /\ \A e \in Sessions : screen[e] = rec[h] => e = ses[h]

\* Whoever releases a session has taken it out of the table.
Popped == \A h \in Handlers : at[h] \in ReleaseAt => ses[h] \notin sessions

\* A screenrecord runs for one session.
OneScreen ==
    \A e, f \in Sessions : screen[e] = screen[f] /\ screen[e] # NoRecording => e = f

\* Once a stop has taken the screenrecord out, what runs is another recording.
Past ==
    \A h \in Handlers : at[h] \in StopAt \ {"find", "stop"} => screen[ses[h]] # rec[h]

\* A recording in the table has a session, which may be gone.
Owned == \A r \in recordings : owner[r] \in Sessions

\* A session is closed out of the table, until Stop closes those in it.
ClosedGone ==
    \A e \in sessions : stopping = "no" => bridge[e] \notin {"closed", "failed"}

\* A session that is up is in the table, or in Stop's snapshot, or late, or some
\* handler's.
Kept ==
    \A e \in Sessions : bridge[e] = "up" =>
        \/ \E h \in Handlers : ses[h] = e /\ at[h] \in {"inserting", "closing"}
        \/ IF stopping = "no" THEN e \in sessions ELSE e \in toClose \cup late

Collected ==
    \A r \in recordings : Released(owner[r]) =>
        \/ r \in late
        \/ \E h \in Handlers : /\ ses[h] = owner[r]
                               /\ at[h] = "listing" \/ (at[h] = "cleaning" /\ r \in todo[h])

\* Only while Stop closes sessions it has some to close.
Closing == stopping # "closing" => toClose = {}

\* A recording in play has no video on the host, and one that the device holds for it
\* or nothing, unless another opened the path.
Unpulled == \A r \in InPlay \ {NoRecording} : video[r] = NoRecording
AtPath == \A r \in InPlay \ {NoRecording} : r \in opened \ mixed => remote \in {r, NoRecording}
Videos == \A r \in Recordings : r \in opened \ mixed => video[r] \in {NoRecording, r}

Slots == SlotsExact /\ WithinLimit
Tables == InHand /\ FreshSession /\ FreshRecording /\ Popped /\ OneCloser
Screens == OneScreen /\ OneTaker /\ Past
Pointers == PointerValid /\ Stoppable
Leftovers == Owned /\ ClosedGone /\ Kept /\ Collected /\ Closing
Path == Unpulled /\ AtPath /\ Videos

IInv == TypeOK /\ Slots /\ Tables /\ Screens /\ Pointers /\ Leftovers /\ Path

-----------------------------------------------------------------------------
\* The types are kept; a session or recording that is stored is in hand.
LEMMA TypesKept == IInv /\ Next => TypeOK'
    <1> USE NoneAssumption, IdsAssumption DEF IInv, Goto, Done, tableVars, deviceVars,
        screenVars, bridgeVars, handlerVars, stopVars, TypeOK, HandlerAt, AttachAt, ReleaseAt,
        StartAt, StopAt
    <1> SUFFICES ASSUME IInv, Next PROVE TypeOK'
        OBVIOUS
    <1>1. ASSUME NEW h \in Handlers, Reserve(h) \/ AttachStep(h) PROVE TypeOK'
        <2>1. CASE Reserve(h)
            BY <2>1 DEF Reserve, Accepts
        <2>2. CASE Start(h)
            BY <2>2 DEF Start, FreeSession
        <2>3. CASE Insert(h)
            BY <2>3 DEF Insert, Tables, InHand
        <2>4. CASE Release(h)
            BY <2>4 DEF Release
        <2> QED BY <1>1, <2>1, <2>2, <2>3, <2>4 DEF AttachStep
    <1>2. ASSUME NEW h \in Handlers, NEW e \in Sessions,
                 Pop(h, e) \/ StartRecording(h, e) \/ StopRecording(h, e)
          PROVE  TypeOK'
        <2>1. CASE Pop(h, e)
            BY <2>1 DEF Pop, Take, Accepts
        <2>2. CASE StartRecording(h, e)
            BY <2>2 DEF StartRecording, Accepts
        <2>3. CASE StopRecording(h, e)
            BY <2>3 DEF StopRecording, Accepts
        <2> QED BY <1>2, <2>1, <2>2, <2>3
    <1>3. ASSUME NEW h \in Handlers, ReleaseStep(h) PROVE TypeOK'
        <2>1. CASE CloseSession(h)
            BY <2>1 DEF CloseSession
        <2>2. CASE ListRecordings(h)
            BY <2>2 DEF ListRecordings, Own
        <2>3. CASE CleanOne(h)
            BY <2>3 DEF CleanOne, Cleanup
        <2> QED BY <1>3, <2>1, <2>2, <2>3 DEF ReleaseStep
    <1>4. ASSUME NEW h \in Handlers, StartStep(h) PROVE TypeOK'
        <2>1. CASE Pointed(h)
            BY <2>1 DEF Pointed
        <2>2. CASE Lookup(h)
            BY <2>2 DEF Lookup
        <2>3. CASE ClearStale(h)
            BY <2>3 DEF ClearStale, ClearPointer
        <2>4. CASE Screenrecord(h)
            BY <2>4 DEF Screenrecord, FreeRecording
        <2>5. CASE Register(h)
            BY <2>5 DEF Register, Tables, InHand
        <2> QED BY <1>4, <2>1, <2>2, <2>3, <2>4, <2>5 DEF StartStep
    <1>5. ASSUME NEW h \in Handlers, StopStep(h) PROVE TypeOK'
        <2>1. CASE FindRecording(h)
            BY <2>1 DEF FindRecording
        <2>2. CASE TakeScreen(h)
            BY <2>2 DEF TakeScreen, Untrack, Tables, InHand
        <2>3. CASE Pull(h)
            BY <2>3 DEF Pull, Output
        <2>4. CASE Remove(h)
            BY <2>4 DEF Remove
        <2>5. CASE Stat(h)
            BY <2>5 DEF Stat
        <2>6. CASE ForgetRecording(h)
            BY <2>6 DEF ForgetRecording, ClearPointer
        <2> QED BY <1>5, <2>1, <2>2, <2>3, <2>4, <2>5, <2>6 DEF StopStep
    <1>6. ASSUME NEW h \in Handlers, NEW r \in Recordings, DeleteRecording(h, r) PROVE TypeOK'
        BY <1>6 DEF DeleteRecording, Cleanup, Accepts
    <1>7. ASSUME NEW e \in Sessions, Watch(e) \/ Lose(e) \/ StopClose(e) \/ Open(e)
          PROVE  TypeOK'
        <2>1. CASE Watch(e)
            BY <2>1 DEF Watch, Forget
        <2>2. CASE Lose(e)
            BY <2>2 DEF Lose
        <2>3. CASE StopClose(e)
            BY <2>3 DEF StopClose
        <2>4. CASE Open(e)
            BY <2>4 DEF Open, InPlay
        <2> QED BY <1>7, <2>1, <2>2, <2>3, <2>4
    <1>8. ASSUME NEW r \in Recordings, StopRemove(r) PROVE TypeOK'
        BY <1>8 DEF StopRemove
    <1>9. ASSUME StopBegin \/ StopShut PROVE TypeOK'
        <2>1. CASE StopBegin
            BY <2>1 DEF StopBegin
        <2>2. CASE StopShut
            BY <2>2 DEF StopShut
        <2> QED BY <1>9, <2>1, <2>2
    <1>10. CASE Finished
        BY <1>10 DEF Finished, vars
    <1> QED BY <1>1, <1>2, <1>3, <1>4, <1>5, <1>6, <1>7, <1>8, <1>9, <1>10
            DEF Next, Request, HandlerStep

\* The tables: what is brought in is fresh, what is released was taken out.
LEMMA TablesKept == IInv /\ Next => Tables'
    <1> USE NoneAssumption, IdsAssumption DEF IInv, Goto, Done, tableVars, deviceVars,
        screenVars, bridgeVars, handlerVars, stopVars, Tables, InHand, FreshSession,
        FreshRecording, Popped, OneCloser, AttachAt, ReleaseAt, StartAt, StopAt, TypeOK
    <1> SUFFICES ASSUME IInv, Next PROVE Tables'
        OBVIOUS
    <1>1. ASSUME NEW h \in Handlers, Reserve(h) \/ AttachStep(h) PROVE Tables'
        <2>1. CASE Reserve(h)
            BY <2>1 DEF Reserve, Accepts
        <2>2. CASE Start(h)
            BY <2>2 DEF Start, FreeSession
        <2>3. CASE Insert(h)
            BY <2>3 DEF Insert
        <2>4. CASE Release(h)
            BY <2>4 DEF Release
        <2> QED BY <1>1, <2>1, <2>2, <2>3, <2>4 DEF AttachStep
    <1>2. ASSUME NEW h \in Handlers, NEW e \in Sessions,
                 Pop(h, e) \/ StartRecording(h, e) \/ StopRecording(h, e)
          PROVE  Tables'
        <2>1. CASE Pop(h, e)
            BY <2>1 DEF Pop, Take, Accepts
        <2>2. CASE StartRecording(h, e)
            BY <2>2 DEF StartRecording, Accepts
        <2>3. CASE StopRecording(h, e)
            BY <2>3 DEF StopRecording, Accepts
        <2> QED BY <1>2, <2>1, <2>2, <2>3
    <1>3. ASSUME NEW h \in Handlers, ReleaseStep(h) PROVE Tables'
        <2>1. CASE CloseSession(h)
            BY <2>1 DEF CloseSession
        <2>2. CASE ListRecordings(h)
            BY <2>2 DEF ListRecordings, Own
        <2>3. CASE CleanOne(h)
            BY <2>3 DEF CleanOne, Cleanup
        <2> QED BY <1>3, <2>1, <2>2, <2>3 DEF ReleaseStep
    <1>4. ASSUME NEW h \in Handlers, StartStep(h) PROVE Tables'
        <2>1. CASE Pointed(h)
            BY <2>1 DEF Pointed
        <2>2. CASE Lookup(h)
            <3>1. InHand'
                BY <2>2 DEF Lookup
            <3>2. FreshSession'
                BY <2>2 DEF Lookup
            <3>3. FreshRecording'
                BY <2>2 DEF Lookup
            <3>4. Popped'
                BY <2>2 DEF Lookup
            <3>5. OneCloser'
                BY <2>2 DEF Lookup
            <3> QED BY <3>1, <3>2, <3>3, <3>4, <3>5
        <2>3. CASE ClearStale(h)
            BY <2>3 DEF ClearStale, ClearPointer
        <2>4. CASE Screenrecord(h)
            <3>1. InHand'
                BY <2>4 DEF Screenrecord, FreeRecording
            <3>2. FreshSession'
                BY <2>4 DEF Screenrecord
            <3>3. FreshRecording'
                BY <2>4 DEF Screenrecord, FreeRecording
            <3>4. Popped'
                BY <2>4 DEF Screenrecord
            <3>5. OneCloser'
                BY <2>4 DEF Screenrecord
            <3> QED BY <3>1, <3>2, <3>3, <3>4, <3>5
        <2>5. CASE Register(h)
            BY <2>5 DEF Register
        <2> QED BY <1>4, <2>1, <2>2, <2>3, <2>4, <2>5 DEF StartStep
    <1>5. ASSUME NEW h \in Handlers, StopStep(h) PROVE Tables'
        <2>1. CASE FindRecording(h)
            BY <2>1 DEF FindRecording
        <2>2. CASE TakeScreen(h)
            BY <2>2 DEF TakeScreen, Untrack
        <2>3. CASE Pull(h)
            <3>1. InHand'
                BY <2>3 DEF Pull, Output
            <3>2. FreshSession'
                BY <2>3 DEF Pull, Output
            <3>3. FreshRecording'
                BY <2>3 DEF Pull, Output
            <3>4. Popped'
                BY <2>3 DEF Pull, Output
            <3>5. OneCloser'
                BY <2>3 DEF Pull, Output
            <3> QED BY <3>1, <3>2, <3>3, <3>4, <3>5
        <2>4. CASE Remove(h)
            BY <2>4 DEF Remove
        <2>5. CASE Stat(h)
            BY <2>5 DEF Stat
        <2>6. CASE ForgetRecording(h)
            BY <2>6 DEF ForgetRecording, ClearPointer
        <2> QED BY <1>5, <2>1, <2>2, <2>3, <2>4, <2>5, <2>6 DEF StopStep
    <1>6. ASSUME NEW h \in Handlers, NEW r \in Recordings, DeleteRecording(h, r) PROVE Tables'
        BY <1>6 DEF DeleteRecording, Cleanup, Accepts
    <1>7. ASSUME NEW e \in Sessions, Watch(e) \/ Lose(e) \/ StopClose(e) \/ Open(e)
          PROVE  Tables'
        <2>1. CASE Watch(e)
            BY <2>1 DEF Watch, Forget
        <2>2. CASE Lose(e)
            BY <2>2 DEF Lose
        <2>3. CASE StopClose(e)
            BY <2>3 DEF StopClose, Leftovers, Closing
        <2>4. CASE Open(e)
            BY <2>4 DEF Open, InPlay
        <2> QED BY <1>7, <2>1, <2>2, <2>3, <2>4
    <1>8. ASSUME NEW r \in Recordings, StopRemove(r) PROVE Tables'
        BY <1>8 DEF StopRemove
    <1>9. ASSUME StopBegin \/ StopShut PROVE Tables'
        <2>1. CASE StopBegin
            BY <2>1 DEF StopBegin
        <2>2. CASE StopShut
            BY <2>2 DEF StopShut
        <2> QED BY <1>9, <2>1, <2>2
    <1>10. CASE Finished
        BY <1>10 DEF Finished, vars
    <1> QED BY <1>1, <1>2, <1>3, <1>4, <1>5, <1>6, <1>7, <1>8, <1>9, <1>10
            DEF Next, Request, HandlerStep

\* The screenrecords: one for a session, taken out by one stop.
LEMMA ScreensKept == IInv /\ Next => Screens'
    <1> USE NoneAssumption, IdsAssumption DEF IInv, Goto, Done, tableVars, deviceVars,
        screenVars, bridgeVars, handlerVars, stopVars, Screens, OneScreen, OneTaker, Past,
        StopAt, TypeOK
    <1> SUFFICES ASSUME IInv, Next PROVE Screens'
        OBVIOUS
    <1>1. ASSUME NEW h \in Handlers, Reserve(h) \/ AttachStep(h) PROVE Screens'
        <2>1. CASE Reserve(h)
            BY <2>1 DEF Reserve, Accepts
        <2>2. CASE Start(h)
            BY <2>2 DEF Start, FreeSession
        <2>3. CASE Insert(h)
            BY <2>3 DEF Insert
        <2>4. CASE Release(h)
            BY <2>4 DEF Release
        <2> QED BY <1>1, <2>1, <2>2, <2>3, <2>4 DEF AttachStep
    <1>2. ASSUME NEW h \in Handlers, NEW e \in Sessions,
                 Pop(h, e) \/ StartRecording(h, e) \/ StopRecording(h, e)
          PROVE  Screens'
        <2>1. CASE Pop(h, e)
            BY <2>1 DEF Pop, Take, Accepts
        <2>2. CASE StartRecording(h, e)
            BY <2>2 DEF StartRecording, Accepts
        <2>3. CASE StopRecording(h, e)
            BY <2>3 DEF StopRecording, Accepts
        <2> QED BY <1>2, <2>1, <2>2, <2>3
    <1>3. ASSUME NEW h \in Handlers, ReleaseStep(h) PROVE Screens'
        <2>1. CASE CloseSession(h)
            BY <2>1 DEF CloseSession
        <2>2. CASE ListRecordings(h)
            BY <2>2 DEF ListRecordings, Own
        <2>3. CASE CleanOne(h)
            BY <2>3 DEF CleanOne, Cleanup
        <2> QED BY <1>3, <2>1, <2>2, <2>3 DEF ReleaseStep
    <1>4. ASSUME NEW h \in Handlers, StartStep(h) PROVE Screens'
        <2>1. CASE Pointed(h)
            BY <2>1 DEF Pointed
        <2>2. CASE Lookup(h)
            BY <2>2 DEF Lookup
        <2>3. CASE ClearStale(h)
            BY <2>3 DEF ClearStale, ClearPointer
        <2>4. CASE Screenrecord(h)
            BY <2>4 DEF Screenrecord, FreeRecording, Tables, InHand, StartAt, ReleaseAt
        <2>5. CASE Register(h)
            BY <2>5 DEF Register
        <2> QED BY <1>4, <2>1, <2>2, <2>3, <2>4, <2>5 DEF StartStep
    <1>5. ASSUME NEW h \in Handlers, StopStep(h) PROVE Screens'
        <2>1. CASE FindRecording(h)
            BY <2>1 DEF FindRecording
        <2>2. CASE TakeScreen(h)
            BY <2>2 DEF TakeScreen, Untrack, Tables, InHand, StopAt, StartAt, ReleaseAt
        <2>3. CASE Pull(h)
            BY <2>3 DEF Pull, Output
        <2>4. CASE Remove(h)
            BY <2>4 DEF Remove
        <2>5. CASE Stat(h)
            BY <2>5 DEF Stat
        <2>6. CASE ForgetRecording(h)
            BY <2>6 DEF ForgetRecording, ClearPointer
        <2> QED BY <1>5, <2>1, <2>2, <2>3, <2>4, <2>5, <2>6 DEF StopStep
    <1>6. ASSUME NEW h \in Handlers, NEW r \in Recordings, DeleteRecording(h, r) PROVE Screens'
        BY <1>6 DEF DeleteRecording, Cleanup, Accepts
    <1>7. ASSUME NEW e \in Sessions, Watch(e) \/ Lose(e) \/ StopClose(e) \/ Open(e)
          PROVE  Screens'
        <2>1. CASE Watch(e)
            BY <2>1 DEF Watch, Forget
        <2>2. CASE Lose(e)
            BY <2>2 DEF Lose
        <2>3. CASE StopClose(e)
            BY <2>3 DEF StopClose
        <2>4. CASE Open(e)
            BY <2>4 DEF Open, InPlay
        <2> QED BY <1>7, <2>1, <2>2, <2>3, <2>4
    <1>8. ASSUME NEW r \in Recordings, StopRemove(r) PROVE Screens'
        BY <1>8 DEF StopRemove
    <1>9. ASSUME StopBegin \/ StopShut PROVE Screens'
        <2>1. CASE StopBegin
            BY <2>1 DEF StopBegin
        <2>2. CASE StopShut
            BY <2>2 DEF StopShut
        <2> QED BY <1>9, <2>1, <2>2
    <1>10. CASE Finished
        BY <1>10 DEF Finished, vars
    <1> QED BY <1>1, <1>2, <1>3, <1>4, <1>5, <1>6, <1>7, <1>8, <1>9, <1>10
            DEF Next, Request, HandlerStep

\* The pointers of the sessions.
LEMMA PointersKept == IInv /\ Next => Pointers'
    <1> USE NoneAssumption, IdsAssumption DEF IInv, Goto, Done, tableVars, deviceVars,
        screenVars, bridgeVars, handlerVars, stopVars, Pointers, PointerValid, Stoppable,
        TypeOK
    <1> SUFFICES ASSUME IInv, Next PROVE Pointers'
        OBVIOUS
    <1>1. ASSUME NEW h \in Handlers, Reserve(h) \/ AttachStep(h) PROVE Pointers'
        <2>1. CASE Reserve(h)
            BY <2>1 DEF Reserve, Accepts
        <2>2. CASE Start(h)
            BY <2>2 DEF Start, FreeSession
        <2>3. CASE Insert(h)
            BY <2>3 DEF Insert, Tables, InHand, FreshSession, StartAt, StopAt, ReleaseAt
        <2>4. CASE Release(h)
            BY <2>4 DEF Release
        <2> QED BY <1>1, <2>1, <2>2, <2>3, <2>4 DEF AttachStep
    <1>2. ASSUME NEW h \in Handlers, NEW e \in Sessions,
                 Pop(h, e) \/ StartRecording(h, e) \/ StopRecording(h, e)
          PROVE  Pointers'
        <2>1. CASE Pop(h, e)
            BY <2>1 DEF Pop, Take, Accepts
        <2>2. CASE StartRecording(h, e)
            BY <2>2 DEF StartRecording, Accepts
        <2>3. CASE StopRecording(h, e)
            BY <2>3 DEF StopRecording, Accepts
        <2> QED BY <1>2, <2>1, <2>2, <2>3
    <1>3. ASSUME NEW h \in Handlers, ReleaseStep(h) PROVE Pointers'
        <2>1. CASE CloseSession(h)
            BY <2>1 DEF CloseSession
        <2>2. CASE ListRecordings(h)
            BY <2>2 DEF ListRecordings, Own
        <2>3. CASE CleanOne(h)
            BY <2>3 DEF CleanOne, Cleanup
        <2> QED BY <1>3, <2>1, <2>2, <2>3 DEF ReleaseStep
    <1>4. ASSUME NEW h \in Handlers, StartStep(h) PROVE Pointers'
        <2>1. CASE Pointed(h)
            BY <2>1 DEF Pointed
        <2>2. CASE Lookup(h)
            BY <2>2 DEF Lookup
        <2>3. CASE ClearStale(h)
            BY <2>3 DEF ClearStale, ClearPointer
        <2>4. CASE Screenrecord(h)
            BY <2>4 DEF Screenrecord, FreeRecording
        <2>5. CASE Register(h)
            BY <2>5 DEF Register, Tables, InHand, FreshRecording, StartAt, StopAt, ReleaseAt
        <2> QED BY <1>4, <2>1, <2>2, <2>3, <2>4, <2>5 DEF StartStep
    <1>5. ASSUME NEW h \in Handlers, StopStep(h) PROVE Pointers'
        <2>1. CASE FindRecording(h)
            BY <2>1 DEF FindRecording
        <2>2. CASE TakeScreen(h)
            BY <2>2 DEF TakeScreen, Untrack
        <2>3. CASE Pull(h)
            BY <2>3 DEF Pull, Output
        <2>4. CASE Remove(h)
            BY <2>4 DEF Remove
        <2>5. CASE Stat(h)
            BY <2>5 DEF Stat
        <2>6. CASE ForgetRecording(h)
            BY <2>6 DEF ForgetRecording, ClearPointer, Screens, Past, Tables, InHand, StopAt,
                StartAt, ReleaseAt
        <2> QED BY <1>5, <2>1, <2>2, <2>3, <2>4, <2>5, <2>6 DEF StopStep
    <1>6. ASSUME NEW h \in Handlers, NEW r \in Recordings, DeleteRecording(h, r)
          PROVE  Pointers'
        BY <1>6 DEF DeleteRecording, Cleanup, Accepts
    <1>7. ASSUME NEW e \in Sessions, Watch(e) \/ Lose(e) \/ StopClose(e) \/ Open(e)
          PROVE  Pointers'
        <2>1. CASE Watch(e)
            BY <2>1 DEF Watch, Forget
        <2>2. CASE Lose(e)
            BY <2>2 DEF Lose
        <2>3. CASE StopClose(e)
            BY <2>3 DEF StopClose
        <2>4. CASE Open(e)
            BY <2>4 DEF Open, InPlay
        <2> QED BY <1>7, <2>1, <2>2, <2>3, <2>4
    <1>8. ASSUME NEW r \in Recordings, StopRemove(r) PROVE Pointers'
        BY <1>8 DEF StopRemove
    <1>9. ASSUME StopBegin \/ StopShut PROVE Pointers'
        <2>1. CASE StopBegin
            BY <2>1 DEF StopBegin
        <2>2. CASE StopShut
            BY <2>2 DEF StopShut
        <2> QED BY <1>9, <2>1, <2>2
    <1>10. CASE Finished
        BY <1>10 DEF Finished, vars
    <1> QED BY <1>1, <1>2, <1>3, <1>4, <1>5, <1>6, <1>7, <1>8, <1>9, <1>10
            DEF Next, Request, HandlerStep

\* What a release and Stop leave behind.
LEMMA LeftoversKept == IInv /\ Next => Leftovers'
    <1> USE NoneAssumption, IdsAssumption DEF IInv, Goto, Done, tableVars, deviceVars,
        screenVars, bridgeVars, handlerVars, stopVars, Leftovers, Owned, ClosedGone, Kept,
        Collected, Released, Closing, TypeOK
    <1> SUFFICES ASSUME IInv, Next PROVE Leftovers'
        OBVIOUS
    <1>1. ASSUME NEW h \in Handlers, Reserve(h) \/ AttachStep(h) PROVE Leftovers'
        <2>1. CASE Reserve(h)
            BY <2>1 DEF Reserve, Accepts
        <2>2. CASE Start(h)
            BY <2>2 DEF Start, FreeSession
        <2>3. CASE Insert(h)
            BY <2>3 DEF Insert, Tables, InHand, FreshSession, StartAt, StopAt, ReleaseAt
        <2>4. CASE Release(h)
            BY <2>4 DEF Release
        <2> QED BY <1>1, <2>1, <2>2, <2>3, <2>4 DEF AttachStep
    <1>2. ASSUME NEW h \in Handlers, NEW e \in Sessions,
                 Pop(h, e) \/ StartRecording(h, e) \/ StopRecording(h, e)
          PROVE  Leftovers'
        <2>1. CASE Pop(h, e)
            BY <2>1 DEF Pop, Take, Accepts
        <2>2. CASE StartRecording(h, e)
            BY <2>2 DEF StartRecording, Accepts
        <2>3. CASE StopRecording(h, e)
            BY <2>3 DEF StopRecording, Accepts
        <2> QED BY <1>2, <2>1, <2>2, <2>3
    <1>3. ASSUME NEW h \in Handlers, ReleaseStep(h) PROVE Leftovers'
        <2>1. CASE CloseSession(h)
            BY <2>1 DEF CloseSession, Tables, InHand, Popped, OneCloser, StartAt, StopAt,
                ReleaseAt
        <2>2. CASE ListRecordings(h)
            BY <2>2 DEF ListRecordings, Own
        <2>3. CASE CleanOne(h)
            BY <2>3 DEF CleanOne, Cleanup
        <2> QED BY <1>3, <2>1, <2>2, <2>3 DEF ReleaseStep
    <1>4. ASSUME NEW h \in Handlers, StartStep(h) PROVE Leftovers'
        <2>1. CASE Pointed(h)
            BY <2>1 DEF Pointed
        <2>2. CASE Lookup(h)
            BY <2>2 DEF Lookup
        <2>3. CASE ClearStale(h)
            BY <2>3 DEF ClearStale, ClearPointer
        <2>4. CASE Screenrecord(h)
            BY <2>4 DEF Screenrecord, FreeRecording
        <2>5. CASE Register(h)
            BY <2>5 DEF Register, Tables, InHand, FreshRecording, StartAt, StopAt, ReleaseAt
        <2> QED BY <1>4, <2>1, <2>2, <2>3, <2>4, <2>5 DEF StartStep
    <1>5. ASSUME NEW h \in Handlers, StopStep(h) PROVE Leftovers'
        <2>1. CASE FindRecording(h)
            BY <2>1 DEF FindRecording
        <2>2. CASE TakeScreen(h)
            BY <2>2 DEF TakeScreen, Untrack
        <2>3. CASE Pull(h)
            BY <2>3 DEF Pull, Output
        <2>4. CASE Remove(h)
            BY <2>4 DEF Remove
        <2>5. CASE Stat(h)
            BY <2>5 DEF Stat
        <2>6. CASE ForgetRecording(h)
            BY <2>6 DEF ForgetRecording, ClearPointer
        <2> QED BY <1>5, <2>1, <2>2, <2>3, <2>4, <2>5, <2>6 DEF StopStep
    <1>6. ASSUME NEW h \in Handlers, NEW r \in Recordings, DeleteRecording(h, r)
          PROVE  Leftovers'
        BY <1>6 DEF DeleteRecording, Cleanup, Accepts
    <1>7. ASSUME NEW e \in Sessions, Watch(e) \/ Lose(e) \/ StopClose(e) \/ Open(e)
          PROVE  Leftovers'
        <2>1. CASE Watch(e)
            BY <2>1 DEF Watch, Forget
        <2>2. CASE Lose(e)
            BY <2>2 DEF Lose
        <2>3. CASE StopClose(e)
            BY <2>3 DEF StopClose
        <2>4. CASE Open(e)
            BY <2>4 DEF Open, InPlay
        <2> QED BY <1>7, <2>1, <2>2, <2>3, <2>4
    <1>8. ASSUME NEW r \in Recordings, StopRemove(r) PROVE Leftovers'
        BY <1>8 DEF StopRemove
    <1>9. ASSUME StopBegin \/ StopShut PROVE Leftovers'
        <2>1. CASE StopBegin
            BY <2>1 DEF StopBegin
        <2>2. CASE StopShut
            BY <2>2 DEF StopShut
        <2> QED BY <1>9, <2>1, <2>2
    <1>10. CASE Finished
        BY <1>10 DEF Finished, vars
    <1> QED BY <1>1, <1>2, <1>3, <1>4, <1>5, <1>6, <1>7, <1>8, <1>9, <1>10
            DEF Next, Request, HandlerStep

\* The path of the device and the files on the host.
LEMMA PathKept == IInv /\ Next => Path'
    <1> USE NoneAssumption, IdsAssumption DEF IInv, Goto, Done, tableVars, deviceVars,
        screenVars, bridgeVars, handlerVars, stopVars, Path, Unpulled, AtPath, Videos, InPlay,
        TypeOK
    <1> SUFFICES ASSUME IInv, Next PROVE Path'
        OBVIOUS
    <1>1. ASSUME NEW h \in Handlers, Reserve(h) \/ AttachStep(h) PROVE Path'
        <2>1. CASE Reserve(h)
            BY <2>1 DEF Reserve, Accepts
        <2>2. CASE Start(h)
            BY <2>2 DEF Start, FreeSession
        <2>3. CASE Insert(h)
            BY <2>3 DEF Insert
        <2>4. CASE Release(h)
            BY <2>4 DEF Release
        <2> QED BY <1>1, <2>1, <2>2, <2>3, <2>4 DEF AttachStep
    <1>2. ASSUME NEW h \in Handlers, NEW e \in Sessions,
                 Pop(h, e) \/ StartRecording(h, e) \/ StopRecording(h, e)
          PROVE  Path'
        <2>1. CASE Pop(h, e)
            BY <2>1 DEF Pop, Take, Accepts
        <2>2. CASE StartRecording(h, e)
            BY <2>2 DEF StartRecording, Accepts
        <2>3. CASE StopRecording(h, e)
            BY <2>3 DEF StopRecording, Accepts
        <2> QED BY <1>2, <2>1, <2>2, <2>3
    <1>3. ASSUME NEW h \in Handlers, ReleaseStep(h) PROVE Path'
        <2>1. CASE CloseSession(h)
            BY <2>1 DEF CloseSession
        <2>2. CASE ListRecordings(h)
            BY <2>2 DEF ListRecordings, Own
        <2>3. CASE CleanOne(h)
            BY <2>3 DEF CleanOne, Cleanup
        <2> QED BY <1>3, <2>1, <2>2, <2>3 DEF ReleaseStep
    <1>4. ASSUME NEW h \in Handlers, StartStep(h) PROVE Path'
        <2>1. CASE Pointed(h)
            BY <2>1 DEF Pointed
        <2>2. CASE Lookup(h)
            BY <2>2 DEF Lookup
        <2>3. CASE ClearStale(h)
            BY <2>3 DEF ClearStale, ClearPointer
        <2>4. CASE Screenrecord(h)
            BY <2>4 DEF Screenrecord, FreeRecording
        <2>5. CASE Register(h)
            BY <2>5 DEF Register
        <2> QED BY <1>4, <2>1, <2>2, <2>3, <2>4, <2>5 DEF StartStep
    <1>5. ASSUME NEW h \in Handlers, StopStep(h) PROVE Path'
        <2>1. CASE FindRecording(h)
            BY <2>1 DEF FindRecording
        <2>2. CASE TakeScreen(h)
            BY <2>2 DEF TakeScreen, Untrack, Tables, InHand, StartAt, StopAt, ReleaseAt
        <2>3. CASE Pull(h)
            BY <2>3 DEF Pull, Output, Screens, OneTaker
        <2>4. CASE Remove(h)
            BY <2>4 DEF Remove
        <2>5. CASE Stat(h)
            BY <2>5 DEF Stat
        <2>6. CASE ForgetRecording(h)
            BY <2>6 DEF ForgetRecording, ClearPointer
        <2> QED BY <1>5, <2>1, <2>2, <2>3, <2>4, <2>5, <2>6 DEF StopStep
    <1>6. ASSUME NEW h \in Handlers, NEW r \in Recordings, DeleteRecording(h, r) PROVE Path'
        BY <1>6 DEF DeleteRecording, Cleanup, Accepts
    <1>7. ASSUME NEW e \in Sessions, Watch(e) \/ Lose(e) \/ StopClose(e) \/ Open(e) PROVE Path'
        <2>1. CASE Watch(e)
            BY <2>1 DEF Watch, Forget
        <2>2. CASE Lose(e)
            BY <2>2 DEF Lose
        <2>3. CASE StopClose(e)
            BY <2>3 DEF StopClose
        <2>4. CASE Open(e)
            BY <2>4 DEF Open, InPlay
        <2> QED BY <1>7, <2>1, <2>2, <2>3, <2>4
    <1>8. ASSUME NEW r \in Recordings, StopRemove(r) PROVE Path'
        BY <1>8 DEF StopRemove
    <1>9. ASSUME StopBegin \/ StopShut PROVE Path'
        <2>1. CASE StopBegin
            BY <2>1 DEF StopBegin
        <2>2. CASE StopShut
            BY <2>2 DEF StopShut
        <2> QED BY <1>9, <2>1, <2>2
    <1>10. CASE Finished
        BY <1>10 DEF Finished, vars
    <1> QED BY <1>1, <1>2, <1>3, <1>4, <1>5, <1>6, <1>7, <1>8, <1>9, <1>10
            DEF Next, Request, HandlerStep

\* The attaches in flight.
Attaching == {h \in Handlers : at[h] \in AttachAt}

\* Their numbers are finite.
LEMMA Finite ==
    ASSUME TypeOK
    PROVE  /\ IsFiniteSet(Attaching) /\ IsFiniteSet(Entering) /\ IsFiniteSet(sessions)
           /\ Cardinality(Attaching) \in Nat /\ Cardinality(Entering) \in Nat
           /\ Cardinality(sessions) \in Nat
           /\ Cardinality(Entering) <= Cardinality(Attaching)
    <1>1. Attaching \in SUBSET Handlers /\ Entering \in SUBSET Attaching
        BY DEF Attaching, Entering, AttachAt
    <1>2. IsFiniteSet(Attaching)
        BY <1>1, HandlersAssumption, FS_Subset
    <1>3. IsFiniteSet(Entering) /\ Cardinality(Entering) <= Cardinality(Attaching)
        BY <1>1, <1>2, FS_Subset
    <1>4. IsFiniteSet(sessions)
        BY HandlersAssumption, FS_Subset DEF TypeOK
    <1> QED BY <1>2, <1>3, <1>4, FS_CardinalityType

\* A step that starts no attach, ends none and adds no session keeps the slots.
LEMMA SlotsFrame ==
    ASSUME TypeOK, Slots, pending' = pending, sessions' \in SUBSET sessions,
           \A h \in Handlers : /\ at'[h] \in AttachAt <=> at[h] \in AttachAt
                               /\ at'[h] \in {"attaching", "inserting"}
                                    <=> at[h] \in {"attaching", "inserting"}
    PROVE  Slots'
    <1>1. Attaching' = Attaching /\ Entering' = Entering
        BY DEF Attaching, Entering
    <1>2. /\ Cardinality(sessions') <= Cardinality(sessions)
          /\ Cardinality(sessions') \in Nat
        BY Finite, FS_Subset, FS_CardinalityType
    <1>3. SlotsExact'
        BY <1>1 DEF Slots, SlotsExact, Attaching
    <1>4. WithinLimit'
        <2>1. MaxSessions > 0 =>
                  Cardinality(sessions') + Cardinality(Entering') <= MaxSessions
            BY <1>1, <1>2, Finite, LimitAssumption DEF Slots, WithinLimit, Entering
        <2> QED BY <2>1 DEF WithinLimit, Entering
    <1> QED BY <1>3, <1>4 DEF Slots

\* The slots: an attach that ends in the table trades its slot for an entry, and every
\* attach gives back one slot.
LEMMA SlotsKept == IInv /\ Next => Slots'
    <1> USE NoneAssumption, LimitAssumption DEF IInv, Goto, Done, tableVars, deviceVars,
        screenVars, bridgeVars, handlerVars, stopVars
    <1> SUFFICES ASSUME IInv, Next PROVE Slots'
        OBVIOUS
    <1>a. /\ at \in [Handlers -> HandlerAt] /\ pending \in Nat
          /\ pending = Cardinality(Attaching)
          /\ MaxSessions > 0 => Cardinality(sessions) + Cardinality(Entering) <= MaxSessions
        BY DEF TypeOK, Slots, SlotsExact, WithinLimit, Attaching, Entering
    <1>b. ASSUME pending' = Cardinality(Attaching'),
                 MaxSessions > 0 =>
                     Cardinality(sessions') + Cardinality(Entering') <= MaxSessions
          PROVE  Slots'
        BY <1>b DEF Slots, SlotsExact, WithinLimit, Attaching, Entering
    <1>1. ASSUME NEW h \in Handlers, Reserve(h) \/ AttachStep(h) PROVE Slots'
        <2>1. CASE Reserve(h)
            <3>1. /\ Attaching' = Attaching \cup {h} /\ h \notin Attaching
                  /\ Entering' = Entering \cup {h} /\ h \notin Entering
                BY <2>1, <1>a DEF Reserve, Accepts, Attaching, Entering, AttachAt
            <3>2. /\ Cardinality(Attaching') = Cardinality(Attaching) + 1
                  /\ Cardinality(Entering') = Cardinality(Entering) + 1
                BY <3>1, Finite, FS_AddElement
            <3>3. MaxSessions > 0 =>
                      Cardinality(sessions) + Cardinality(Attaching) < MaxSessions
                BY <2>1, <1>a DEF Reserve, HasRoom
            <3> QED BY <3>2, <3>3, <1>a, <1>b, <2>1, Finite DEF Reserve
        <2>2. CASE Start(h)
            <3>1. CASE at'[h] = "inserting"
                BY <3>1, <2>2, <1>a, SlotsFrame DEF Start, AttachAt
            <3>2. CASE at'[h] = "releasing"
                <4>1. /\ Attaching' = Attaching
                      /\ Entering' = Entering \ {h} /\ h \in Entering
                    BY <3>2, <2>2, <1>a DEF Start, Attaching, Entering, AttachAt
                <4>2. Cardinality(Entering') = Cardinality(Entering) - 1
                    BY <4>1, Finite, FS_RemoveElement
                <4> QED BY <4>1, <4>2, <1>a, <1>b, <2>2, Finite DEF Start
            <3> QED BY <2>2, <3>1, <3>2, <1>a DEF Start
        <2>3. CASE Insert(h)
            <3>1. /\ Attaching' = Attaching
                  /\ Entering' = Entering \ {h} /\ h \in Entering
                BY <2>3, <1>a DEF Insert, Attaching, Entering, AttachAt
            <3>2. /\ Cardinality(Entering') = Cardinality(Entering) - 1
                  /\ sessions' = sessions \cup {ses[h]}
                BY <2>3, <3>1, Finite, FS_RemoveElement DEF Insert
            <3>3. /\ Cardinality(sessions') <= Cardinality(sessions) + 1
                  /\ Cardinality(sessions') \in Nat
                <4>1. /\ IsFiniteSet(sessions \cup {ses[h]})
                      /\ Cardinality(sessions \cup {ses[h]}) =
                           IF ses[h] \in sessions THEN Cardinality(sessions)
                           ELSE Cardinality(sessions) + 1
                    BY Finite, FS_AddElement
                <4> QED BY <3>2, <4>1, Finite
            <3> QED BY <3>1, <3>2, <3>3, <1>a, <1>b, <2>3, Finite DEF Insert
        <2>4. CASE Release(h)
            <3>1. /\ Attaching' = Attaching \ {h} /\ h \in Attaching
                  /\ Entering' = Entering
                BY <2>4, <1>a DEF Release, Attaching, Entering, AttachAt
            <3>2. Cardinality(Attaching') = Cardinality(Attaching) - 1
                BY <3>1, Finite, FS_RemoveElement
            <3>3. Cardinality(Attaching) > 0
                BY <3>1, Finite, FS_EmptySet
            <3> QED BY <3>1, <3>2, <3>3, <1>a, <1>b, <2>4, Finite DEF Release
        <2> QED BY <1>1, <2>1, <2>2, <2>3, <2>4 DEF AttachStep
    <1>2. ASSUME NEW h \in Handlers, NEW e \in Sessions,
                 Pop(h, e) \/ StartRecording(h, e) \/ StopRecording(h, e)
          PROVE  Slots'
        <2>1. CASE Pop(h, e)
            BY <2>1, <1>a, SlotsFrame DEF AttachAt, Pop, Take, Accepts
        <2>2. CASE StartRecording(h, e)
            BY <2>2, <1>a, SlotsFrame DEF AttachAt, StartRecording, Accepts
        <2>3. CASE StopRecording(h, e)
            BY <2>3, <1>a, SlotsFrame DEF AttachAt, StopRecording, Accepts
        <2> QED BY <1>2, <2>1, <2>2, <2>3
    <1>3. ASSUME NEW h \in Handlers, ReleaseStep(h) PROVE Slots'
        <2>1. CASE CloseSession(h)
            BY <2>1, <1>a, SlotsFrame DEF AttachAt, CloseSession
        <2>2. CASE ListRecordings(h)
            BY <2>2, <1>a, SlotsFrame DEF AttachAt, ListRecordings, Own
        <2>3. CASE CleanOne(h)
            BY <2>3, <1>a, SlotsFrame DEF AttachAt, CleanOne, Cleanup
        <2> QED BY <1>3, <2>1, <2>2, <2>3 DEF ReleaseStep
    <1>4. ASSUME NEW h \in Handlers, StartStep(h) PROVE Slots'
        <2>1. CASE Pointed(h)
            BY <2>1, <1>a, SlotsFrame DEF AttachAt, Pointed
        <2>2. CASE Lookup(h)
            BY <2>2, <1>a, SlotsFrame DEF AttachAt, Lookup
        <2>3. CASE ClearStale(h)
            BY <2>3, <1>a, SlotsFrame DEF AttachAt, ClearStale, ClearPointer
        <2>4. CASE Screenrecord(h)
            BY <2>4, <1>a, SlotsFrame DEF AttachAt, Screenrecord, FreeRecording
        <2>5. CASE Register(h)
            BY <2>5, <1>a, SlotsFrame DEF AttachAt, Register
        <2> QED BY <1>4, <2>1, <2>2, <2>3, <2>4, <2>5 DEF StartStep
    <1>5. ASSUME NEW h \in Handlers, StopStep(h) PROVE Slots'
        <2>1. CASE FindRecording(h)
            BY <2>1, <1>a, SlotsFrame DEF AttachAt, FindRecording
        <2>2. CASE TakeScreen(h)
            BY <2>2, <1>a, SlotsFrame DEF AttachAt, TakeScreen, Untrack
        <2>3. CASE Pull(h)
            BY <2>3, <1>a, SlotsFrame DEF AttachAt, Pull, Output
        <2>4. CASE Remove(h)
            BY <2>4, <1>a, SlotsFrame DEF AttachAt, Remove
        <2>5. CASE Stat(h)
            BY <2>5, <1>a, SlotsFrame DEF AttachAt, Stat
        <2>6. CASE ForgetRecording(h)
            BY <2>6, <1>a, SlotsFrame DEF AttachAt, ForgetRecording, ClearPointer
        <2> QED BY <1>5, <2>1, <2>2, <2>3, <2>4, <2>5, <2>6 DEF StopStep
    <1>6. ASSUME NEW h \in Handlers, NEW r \in Recordings, DeleteRecording(h, r) PROVE Slots'
        BY <1>6, <1>a, SlotsFrame DEF AttachAt, DeleteRecording, Cleanup, Accepts
    <1>7. ASSUME NEW e \in Sessions, Watch(e) \/ Lose(e) \/ StopClose(e) \/ Open(e)
          PROVE  Slots'
        <2>1. CASE Watch(e)
            BY <2>1, <1>a, SlotsFrame DEF AttachAt, Watch, Forget
        <2>2. CASE Lose(e)
            BY <2>2, <1>a, SlotsFrame DEF AttachAt, Lose
        <2>3. CASE StopClose(e)
            BY <2>3, <1>a, SlotsFrame DEF AttachAt, StopClose
        <2>4. CASE Open(e)
            BY <2>4, <1>a, SlotsFrame DEF AttachAt, Open, InPlay
        <2> QED BY <1>7, <2>1, <2>2, <2>3, <2>4
    <1>8. ASSUME NEW r \in Recordings, StopRemove(r) PROVE Slots'
        BY <1>8, <1>a, SlotsFrame DEF AttachAt, StopRemove
    <1>9. ASSUME StopBegin \/ StopShut PROVE Slots'
        <2>1. CASE StopBegin
            BY <2>1, <1>a, SlotsFrame DEF AttachAt, StopBegin
        <2>2. CASE StopShut
            BY <2>2, <1>a, SlotsFrame DEF AttachAt, StopShut
        <2> QED BY <1>9, <2>1, <2>2
    <1>10. CASE Finished
        BY <1>10, <1>a, SlotsFrame DEF Finished, vars
    <1> QED BY <1>1, <1>2, <1>3, <1>4, <1>5, <1>6, <1>7, <1>8, <1>9, <1>10
            DEF Next, Request, HandlerStep

-----------------------------------------------------------------------------
\* The pool counts its table as the server does.
LEMMA PoolCount == ASSUME NEW S PROVE Pool!Cardinality(S) = Cardinality(S)
    BY Zenon DEF Pool!Cardinality, Cardinality

\* A step that leaves the table, the attaches, the popped sessions and the bridges as
\* they are means nothing to the pool.
LEMMA PoolFrame ==
    ASSUME sessions' = sessions,
           \A h \in Handlers : /\ at'[h] \in {"attaching", "inserting"}
                                    <=> at[h] \in {"attaching", "inserting"}
                               /\ at'[h] = "closing" <=> at[h] = "closing"
                               /\ at[h] = "closing" => ses'[h] = ses[h],
           \A e \in Sessions : bridge'[e] = "up" <=> bridge[e] = "up"
    PROVE  UNCHANGED Pool!poolVars
    <1>1. Entering' = Entering /\ Leaving' = Leaving /\ Up' = Up
        BY DEF Entering, Leaving, Up
    <1> QED BY <1>1 DEF Pool!poolVars

\* Every step of the server is one of the pool, or means nothing to it.
LEMMA PoolSteps == IInv /\ Next => [Pool!Next]_Pool!poolVars
    <1> USE NoneAssumption, IdsAssumption DEF Goto, Done, tableVars, deviceVars, screenVars,
        bridgeVars, handlerVars, stopVars
    <1> SUFFICES ASSUME IInv, Next PROVE [Pool!Next]_Pool!poolVars
        OBVIOUS
    <1>a. /\ TypeOK
          /\ at \in [Handlers -> HandlerAt] /\ ses \in [Handlers -> Sessions \cup {NoSession}]
          /\ bridge \in [Sessions -> {"none", "up", "lost", "closed", "failed"}]
          /\ sessions \in SUBSET Sessions
          /\ pending = Cardinality(Attaching)
        BY DEF IInv, TypeOK, Slots, SlotsExact, Attaching
    <1>b. /\ \A h \in Handlers : at[h] \in {"inserting", "closing"} => ses[h] \in Sessions
          /\ \A h \in Handlers : at[h] = "closing" => ses[h] \notin sessions
          /\ \A h, i \in Handlers : at[h] = "closing" /\ at[i] = "closing" /\ ses[h] = ses[i]
                 => h = i
          /\ \A h \in Handlers : at[h] = "inserting" =>
                 ses[h] \notin sessions /\ \A i \in Handlers : i # h => ses[i] # ses[h]
        BY DEF IInv, Tables, InHand, FreshSession, Popped, OneCloser, ReleaseAt
    <1>1. ASSUME NEW h \in Handlers, Reserve(h) PROVE Pool!Hold
        <2>1. /\ Entering' = Entering \cup {h} /\ h \notin Entering
              /\ Leaving' = Leaving /\ Up' = Up /\ sessions' = sessions
            BY <1>1, <1>a DEF Reserve, Accepts, Entering, Leaving, Up
        <2>2. Cardinality(Entering') = Cardinality(Entering) + 1
            BY <1>a, <2>1, Finite, FS_AddElement
        <2>3. MaxSessions = 0 \/ Cardinality(sessions) + Cardinality(Entering) < MaxSessions
            <3>1. \/ MaxSessions = 0
                  \/ Cardinality(sessions) + Cardinality(Attaching) < MaxSessions
                BY <1>1, <1>a DEF Reserve, HasRoom
            <3>2. /\ Cardinality(sessions) \in Nat /\ Cardinality(Entering) \in Nat
                  /\ Cardinality(Attaching) \in Nat
                  /\ Cardinality(Entering) <= Cardinality(Attaching)
                BY <1>a, Finite
            <3> QED BY <3>1, <3>2, LimitAssumption
        <2> QED BY <2>1, <2>2, <2>3, PoolCount DEF Pool!Hold, Pool!Room
    <1>2. ASSUME NEW h \in Handlers, Start(h)
          PROVE  Pool!GiveUp \/ \E e \in Sessions : Pool!Attach(e)
        <2>1. h \in Entering /\ sessions' = sessions
            BY <1>2 DEF Start, Entering
        <2>2. Cardinality(Entering) > 0
            BY <1>a, <2>1, Finite, FS_EmptySet
        <2>3. CASE bridge' = bridge /\ at' = [at EXCEPT ![h] = "releasing"] /\ ses' = ses
            <3>1. Entering' = Entering \ {h} /\ Leaving' = Leaving /\ Up' = Up
                BY <1>2, <1>a, <2>3 DEF Start, Entering, Leaving, Up
            <3>2. Cardinality(Entering') = Cardinality(Entering) - 1
                BY <1>a, <2>1, <3>1, Finite, FS_RemoveElement
            <3> QED BY <2>1, <2>2, <3>1, <3>2 DEF Pool!GiveUp
        <2>4. ASSUME NEW e \in Sessions, FreeSession(e),
                     bridge' = [bridge EXCEPT ![e] = "up"], ses' = [ses EXCEPT ![h] = e],
                     at' = [at EXCEPT ![h] = "inserting"]
              PROVE  Pool!Attach(e)
            <3>1. Entering' = Entering /\ Leaving' = Leaving
                BY <1>2, <1>a, <2>4 DEF Start, Entering, Leaving
            <3>2. Up' = Up \cup {e}
                BY <1>a, <2>4 DEF Up
            <3>3. e \notin sessions \cup Leaving \cup Up
                BY <2>4 DEF FreeSession, Leaving, Up
            <3> QED BY <2>1, <2>2, <3>1, <3>2, <3>3 DEF Pool!Attach
        <2> QED BY <1>2, <2>3, <2>4 DEF Start
    <1>3. ASSUME NEW h \in Handlers, Insert(h) PROVE Pool!Enter(ses[h])
        <2>1. h \in Entering /\ Entering' = Entering \ {h} /\ Leaving' = Leaving /\ Up' = Up
            BY <1>3, <1>a DEF Insert, Entering, Leaving, Up
        <2>2. Cardinality(Entering) > 0 /\ Cardinality(Entering') = Cardinality(Entering) - 1
            BY <1>a, <2>1, Finite, FS_EmptySet, FS_RemoveElement
        <2>3. ses[h] \notin sessions \cup Leaving /\ sessions' = sessions \cup {ses[h]}
            BY <1>3, <1>b DEF Insert, Leaving
        <2> QED BY <2>1, <2>2, <2>3 DEF Pool!Enter
    <1>4. ASSUME NEW h \in Handlers, NEW e \in Sessions, Pop(h, e) PROVE Pool!Take(e)
        <2>1. Entering' = Entering /\ Up' = Up
            BY <1>4, <1>a DEF Pop, Accepts, Entering, Up
        <2>2. Leaving' = Leaving \cup {e}
            BY <1>4, <1>a DEF Pop, Accepts, Leaving
        <2> QED BY <1>4, <2>1, <2>2 DEF Pop, Take, Pool!Take
    <1>5. ASSUME NEW h \in Handlers, CloseSession(h) PROVE Pool!Close(ses[h])
        <2>1. Entering' = Entering /\ sessions' = sessions
            BY <1>5, <1>a DEF CloseSession, Entering
        <2>2. ses[h] \in Leaving /\ Leaving' = Leaving \ {ses[h]}
            BY <1>5, <1>a, <1>b DEF CloseSession, Leaving
        <2>3. Up' = Up \ {ses[h]}
            BY <1>5, <1>a, <1>b DEF CloseSession, Up
        <2> QED BY <2>1, <2>2, <2>3 DEF Pool!Close
    <1>6. ASSUME NEW e \in Sessions, Watch(e)
          PROVE  Pool!Drop(e) \/ UNCHANGED Pool!poolVars
        <2>1. /\ Entering' = Entering /\ Leaving' = Leaving /\ Up' = Up
              /\ sessions' = sessions \ {e}
            BY <1>6 DEF Watch, Forget, Entering, Leaving, Up
        <2>2. e \notin Up
            BY <1>6 DEF Watch, Up
        <2>3. CASE e \in sessions
            BY <2>1, <2>2, <2>3 DEF Pool!Drop
        <2>4. CASE e \notin sessions
            <3>1. sessions' = sessions
                BY <2>1, <2>4
            <3> QED BY <2>1, <3>1 DEF Pool!poolVars
        <2> QED BY <2>3, <2>4
    <1>7. ASSUME NEW e \in Sessions, Lose(e) \/ StopClose(e)
          PROVE  Pool!Fall(e) \/ UNCHANGED Pool!poolVars
        <2>1. /\ Entering' = Entering /\ Leaving' = Leaving /\ sessions' = sessions
              /\ Up' = Up \ {e}
            BY <1>7, <1>a DEF Lose, StopClose, Entering, Leaving, Up
        <2>2. CASE e \in Up
            BY <2>1, <2>2 DEF Pool!Fall
        <2>3. CASE e \notin Up
            <3>1. Up' = Up
                BY <2>1, <2>3
            <3> QED BY <2>1, <3>1 DEF Pool!poolVars
        <2> QED BY <2>2, <2>3
    <1>8. ASSUME NEW h \in Handlers,
                 Release(h) \/ ListRecordings(h) \/ CleanOne(h) \/ StartStep(h) \/ StopStep(h)
          PROVE  UNCHANGED Pool!poolVars
        <2>1. CASE Release(h)
            BY <2>1, <1>a, PoolFrame DEF Release
        <2>2. CASE ListRecordings(h)
            BY <2>2, <1>a, PoolFrame DEF ListRecordings
        <2>3. CASE CleanOne(h)
            BY <2>3, <1>a, PoolFrame DEF CleanOne
        <2>4. CASE StartStep(h)
            <3>1. CASE Pointed(h)
                BY <3>1, <1>a, PoolFrame DEF Pointed
            <3>2. CASE Lookup(h)
                BY <3>2, <1>a, PoolFrame DEF Lookup
            <3>3. CASE ClearStale(h)
                BY <3>3, <1>a, PoolFrame DEF ClearStale
            <3>4. CASE Screenrecord(h)
                BY <3>4, <1>a, PoolFrame DEF Screenrecord
            <3>5. CASE Register(h)
                BY <3>5, <1>a, PoolFrame DEF Register
            <3> QED BY <2>4, <3>1, <3>2, <3>3, <3>4, <3>5 DEF StartStep
        <2>5. CASE StopStep(h)
            <3>1. CASE FindRecording(h)
                BY <3>1, <1>a, PoolFrame DEF FindRecording
            <3>2. CASE TakeScreen(h)
                BY <3>2, <1>a, PoolFrame DEF TakeScreen
            <3>3. CASE Pull(h)
                BY <3>3, <1>a, PoolFrame DEF Pull
            <3>4. CASE Remove(h)
                BY <3>4, <1>a, PoolFrame DEF Remove
            <3>5. CASE Stat(h)
                BY <3>5, <1>a, PoolFrame DEF Stat
            <3>6. CASE ForgetRecording(h)
                BY <3>6, <1>a, PoolFrame DEF ForgetRecording
            <3> QED BY <2>5, <3>1, <3>2, <3>3, <3>4, <3>5, <3>6 DEF StopStep
        <2> QED BY <1>8, <2>1, <2>2, <2>3, <2>4, <2>5
    <1>9. ASSUME NEW h \in Handlers, NEW e \in Sessions,
                 StartRecording(h, e) \/ StopRecording(h, e)
          PROVE  UNCHANGED Pool!poolVars
        BY <1>9, <1>a, PoolFrame DEF StartRecording, StopRecording, Accepts
    <1>10. ASSUME NEW r \in Recordings,
                  (\E h \in Handlers : DeleteRecording(h, r)) \/ StopRemove(r)
           PROVE  UNCHANGED Pool!poolVars
        BY <1>10, PoolFrame DEF DeleteRecording, StopRemove
    <1>11. CASE StopBegin \/ StopShut \/ Finished \/ \E e \in Sessions : Open(e)
        <2>1. UNCHANGED Pool!poolVars
            BY <1>11, PoolFrame DEF StopBegin, StopShut, Finished, vars, Open
        <2> QED BY <2>1
    <1>12. ASSUME NEW h \in Handlers, Insert(h) \/ CloseSession(h) PROVE ses[h] \in Sessions
        BY <1>12, <1>b DEF Insert, CloseSession
    <1> QED BY <1>1, <1>2, <1>3, <1>4, <1>5, <1>6, <1>7, <1>8, <1>9, <1>10, <1>11, <1>12
            DEF Next, Request, HandlerStep, AttachStep, ReleaseStep, Pool!Next

-----------------------------------------------------------------------------
\* A server that was just started has every invariant.
LEMMA InitInv == Init => IInv
    <1> USE NoneAssumption, IdsAssumption DEF Init
    <1>1. Init => TypeOK
        BY DEF TypeOK, HandlerAt
    <1>2. Init => Slots
        <2>1. Init => Attaching = {} /\ Entering = {} /\ sessions = {}
            BY DEF Attaching, Entering, AttachAt
        <2>2. Cardinality({}) = 0
            BY FS_EmptySet
        <2>3. Init => SlotsExact
            BY <2>1, <2>2 DEF SlotsExact, Attaching
        <2>4. Init => WithinLimit
            <3>1. Init => WithinLimit <=> (MaxSessions > 0 => 0 + 0 <= MaxSessions)
                BY <2>1, <2>2 DEF WithinLimit, Entering
            <3> QED BY <3>1, LimitAssumption
        <2> QED BY <2>3, <2>4 DEF Slots
    <1>3. Init => Tables
        BY DEF Tables, InHand, FreshSession, FreshRecording, Popped, OneCloser, ReleaseAt,
               StartAt, StopAt
    <1>4. Init => Screens /\ Pointers
        BY DEF Screens, OneScreen, OneTaker, Past, StopAt, Pointers, PointerValid, Stoppable
    <1>5. Init => Leftovers /\ Path
        BY DEF Leftovers, Owned, ClosedGone, Kept, Collected, Closing, Path, Unpulled, AtPath,
               Videos, InPlay
    <1> QED BY <1>1, <1>2, <1>3, <1>4, <1>5 DEF IInv

\* The inductive invariant holds of every behaviour.
THEOREM InvariantHolds == Spec => []IInv
    <1>1. IInv /\ Next => IInv'
        BY TypesKept, SlotsKept, TablesKept, ScreensKept, PointersKept, LeftoversKept, PathKept
        DEF IInv
    <1>2. IInv /\ UNCHANGED vars => IInv'
        <2> USE DEF vars, tableVars, deviceVars, screenVars, bridgeVars, handlerVars, stopVars
        <2> SUFFICES ASSUME IInv, UNCHANGED vars PROVE IInv'
            OBVIOUS
        <2>1. TypeOK' /\ Slots'
            BY DEF IInv, TypeOK, Slots, SlotsExact, WithinLimit, Entering
        <2>2. Tables' /\ Screens' /\ Pointers'
            BY DEF IInv, Tables, InHand, FreshSession, FreshRecording, Popped, OneCloser,
                   Screens, OneScreen, OneTaker, Past, Pointers, PointerValid, Stoppable
        <2>3. Leftovers' /\ Path'
            BY DEF IInv, Leftovers, Owned, ClosedGone, Kept, Collected, Released, Closing, Path,
                   Unpulled, AtPath, Videos, InPlay
        <2> QED BY <2>1, <2>2, <2>3 DEF IInv
    <1> QED BY InitInv, <1>1, <1>2, PTL DEF Spec

\* Type correctness of the server's tables and of every handler.
THEOREM TypesHold == Spec => []TypeOK
    BY InvariantHolds, PTL DEF IInv

\* The table never holds more sessions than the limit, whatever attaches race
\* (reserveAttachSlot counts those in flight under the same lock).
THEOREM WithinLimitHolds == Spec => []WithinLimit
    BY InvariantHolds, PTL DEF IInv, Slots

\* The server implements SessionPool: a session has its place before it starts, leaves
\* the table once, and comes back to nobody while a request closes it (handleSessions,
\* popSession, watchSession).
THEOREM Refinement == Spec => ImplementsPool
    <1>1. Init => Pool!Init
        <2>1. Init => /\ Entering = {} /\ Leaving = {} /\ Up = {} /\ sessions = {}
            BY DEF Init, Entering, Leaving, Up
        <2>2. Cardinality({}) = 0
            BY FS_EmptySet
        <2> QED BY <2>1, <2>2 DEF Pool!Init
    <1>2. IInv /\ UNCHANGED vars => UNCHANGED Pool!poolVars
        BY DEF vars, bridgeVars, handlerVars, Pool!poolVars, Entering, Leaving, Up
    <1> QED BY InvariantHolds, PoolSteps, <1>1, <1>2, PTL
            DEF Spec, ImplementsPool, Pool!Spec

\* The sessions and the places held for more never pass the limit, and no session is both
\* in the table and on its way out (reserveAttachSlot, popSession).
THEOREM BoundedHolds == Spec => []Pool!Bounded
    <1>1. IInv => Pool!Bounded
        <2> SUFFICES ASSUME IInv PROVE Pool!Bounded
            OBVIOUS
        <2>1. MaxSessions > 0 =>
                  Pool!Cardinality(sessions) + Cardinality(Entering) <= MaxSessions
            BY PoolCount DEF IInv, Slots, WithinLimit
        <2>2. sessions \cap Leaving = {}
            BY DEF IInv, Tables, Popped, Leaving, ReleaseAt
        <2> QED BY <2>1, <2>2 DEF Pool!Bounded
    <1> QED BY InvariantHolds, <1>1, PTL

\* One request releases a session, and one stop pulls a video (popSession,
\* StopScreenRecording's delete under screenRecordMu).
THEOREM TakenOnceHolds == Spec => []TakenOnce
    <1>1. IInv => TakenOnce
        BY DEF IInv, Tables, Screens, TakenOnce
    <1> QED BY InvariantHolds, <1>1, PTL

\* A session's pointer is to a recording of its own that is known, and to the one that
\* runs unless that was deleted or another request took the pointer (entry.recordingID).
THEOREM PointerExactHolds == Spec => []PointerExact
    <1>1. IInv => PointerExact
        BY DEF IInv, Pointers, PointerExact
    <1> QED BY InvariantHolds, <1>1, PTL

\* The file of a recording holds its own video, unless another screenrecord opened the
\* path of the device meanwhile (remoteScreenRecordPath).
THEOREM OwnVideoHolds == Spec => []OwnVideo
    <1>1. IInv => OwnVideo
        BY DEF IInv, TypeOK, Path, Videos, OwnVideo
    <1> QED BY InvariantHolds, <1>1, PTL

\* A DELETE takes the recordings of its session along and Stop closes every session, but
\* for those that entered their table too late (cleanupSessionRecordings, Stop).
THEOREM EmptiedHolds == Spec => []Emptied
    <1>1. IInv => Emptied
        BY DEF IInv, TypeOK, Leftovers, Kept, Collected, Closing, Emptied
    <1> QED BY InvariantHolds, <1>1, PTL

-----------------------------------------------------------------------------
\* What a DELETE of a session has still to clean up is that session's, also while other
\* requests register recordings.
OwnTodo ==
    \A h \in Handlers :
        /\ at[h] = "cleaning" => \A r \in todo[h] \cap recordings : owner[r] = ses[h]
        /\ \A i \in Handlers : at[i] = "register" => rec[i] \notin todo[h]

\* A step that lists nothing and registers nothing leaves that as it is.
LEMMA TodoFrame ==
    ASSUME OwnTodo, UNCHANGED <<owner, ses, rec, at, todo>>, recordings' \in SUBSET recordings
    PROVE  OwnTodo'
    BY DEF OwnTodo

LEMMA TodoKept == IInv /\ OwnTodo /\ Next => OwnTodo'
    <1> USE NoneAssumption DEF Goto, Done, tableVars, deviceVars, screenVars, bridgeVars,
        handlerVars, stopVars, OwnTodo
    <1> SUFFICES ASSUME IInv, OwnTodo, Next PROVE OwnTodo'
        OBVIOUS
    <1>a. /\ at \in [Handlers -> HandlerAt] /\ ses \in [Handlers -> Sessions \cup {NoSession}]
          /\ rec \in [Handlers -> Recordings \cup {NoRecording}]
          /\ todo \in [Handlers -> SUBSET Recordings]
          /\ owner \in [Recordings -> Sessions \cup {NoSession}]
          /\ recordings \in SUBSET Recordings
          /\ \A h \in Handlers : at[h] = "register" =>
                /\ rec[h] \in Recordings \ recordings
                /\ \A i \in Handlers : i # h => rec[i] # rec[h]
        BY DEF IInv, TypeOK, Tables, InHand, FreshRecording
    <1>1. ASSUME NEW h \in Handlers, Reserve(h) \/ AttachStep(h) PROVE OwnTodo'
        BY <1>1, <1>a DEF AttachStep, Reserve, Accepts, Start, Insert, Release
    <1>2. ASSUME NEW h \in Handlers, NEW e \in Sessions,
                 Pop(h, e) \/ StartRecording(h, e) \/ StopRecording(h, e)
          PROVE  OwnTodo'
        BY <1>2, <1>a DEF Pop, StartRecording, StopRecording, Accepts
    <1>3. ASSUME NEW h \in Handlers, ReleaseStep(h) PROVE OwnTodo'
        <2>1. CASE CloseSession(h)
            BY <2>1, <1>a DEF CloseSession
        <2>2. CASE ListRecordings(h)
            BY <2>2, <1>a DEF ListRecordings, Own
        <2>3. CASE CleanOne(h)
            BY <2>3, <1>a DEF CleanOne, Cleanup
        <2> QED BY <1>3, <2>1, <2>2, <2>3 DEF ReleaseStep
    <1>4. ASSUME NEW h \in Handlers, StartStep(h) PROVE OwnTodo'
        <2>1. CASE Pointed(h) \/ Lookup(h) \/ ClearStale(h)
            BY <2>1, <1>a DEF Pointed, Lookup, ClearStale
        <2>2. CASE Screenrecord(h)
            BY <2>2, <1>a DEF Screenrecord, FreeRecording
        <2>3. CASE Register(h)
            BY <2>3, <1>a DEF Register
        <2> QED BY <1>4, <2>1, <2>2, <2>3 DEF StartStep
    <1>5. ASSUME NEW h \in Handlers, StopStep(h) PROVE OwnTodo'
        BY <1>5, <1>a DEF StopStep, FindRecording, TakeScreen, Pull, Remove, Stat,
               ForgetRecording
    <1>6. ASSUME NEW h \in Handlers, NEW r \in Recordings, DeleteRecording(h, r) PROVE OwnTodo'
        BY <1>6, TodoFrame DEF DeleteRecording, Cleanup
    <1>7. ASSUME NEW e \in Sessions, Watch(e) \/ Lose(e) \/ StopClose(e) \/ Open(e)
          PROVE  OwnTodo'
        BY <1>7, TodoFrame DEF Watch, Lose, StopClose, Open
    <1>8. ASSUME NEW r \in Recordings, StopRemove(r) PROVE OwnTodo'
        BY <1>8, TodoFrame DEF StopRemove
    <1>9. CASE StopBegin \/ StopShut \/ Finished
        BY <1>9, TodoFrame DEF StopBegin, StopShut, Finished, vars
    <1> QED BY <1>1, <1>2, <1>3, <1>4, <1>5, <1>6, <1>7, <1>8, <1>9
            DEF Next, Request, HandlerStep

\* A recording leaves the table only by a DELETE of its own or of its session, and never
\* passes to another session (cleanupRecording, cleanupSessionRecordings).
LeavesRightly(r) ==
    \/ r \in recordings' /\ owner'[r] = owner[r]
    \/ \E h \in Handlers : \/ DeleteRecording(h, r)
                           \/ CleanOne(h) /\ ses[h] = owner[r]

THEOREM RecordingsLeaveRightly == Spec => [][\A r \in recordings : LeavesRightly(r)]_vars
    <1>1. IInv /\ OwnTodo /\ Next => \A r \in recordings : LeavesRightly(r)
        <2> USE DEF LeavesRightly, tableVars, handlerVars
        <2> SUFFICES ASSUME IInv, OwnTodo, Next, NEW r \in recordings PROVE LeavesRightly(r)
            OBVIOUS
        <2>1. CASE UNCHANGED <<recordings, owner>>
            BY <2>1
        <2>2. ASSUME NEW h \in Handlers, CleanOne(h) PROVE LeavesRightly(r)
            BY <2>2 DEF CleanOne, Cleanup, OwnTodo
        <2>3. ASSUME NEW h \in Handlers, Register(h) PROVE LeavesRightly(r)
            BY <2>3 DEF Register, IInv, TypeOK, Tables, FreshRecording
        <2>4. ASSUME NEW h \in Handlers, NEW q \in Recordings, DeleteRecording(h, q)
              PROVE  LeavesRightly(r)
            BY <2>4 DEF DeleteRecording, Cleanup
        <2>5. ASSUME NEW h \in Handlers,
                     \/ Reserve(h) \/ AttachStep(h) \/ CloseSession(h) \/ ListRecordings(h)
                     \/ Pointed(h) \/ Lookup(h) \/ ClearStale(h) \/ Screenrecord(h)
                     \/ StopStep(h)
                     \/ \E e \in Sessions :
                            Pop(h, e) \/ StartRecording(h, e) \/ StopRecording(h, e)
              PROVE  UNCHANGED <<recordings, owner>>
            BY <2>5 DEF Reserve, AttachStep, Start, Insert, Release, CloseSession,
                   ListRecordings, Pointed, Lookup, ClearStale, Screenrecord, StopStep,
                   FindRecording, TakeScreen, Pull, Remove, Stat, ForgetRecording, Pop,
                   StartRecording, StopRecording
        <2>6. CASE \/ \E e \in Sessions : Watch(e) \/ Lose(e) \/ StopClose(e) \/ Open(e)
                   \/ \E q \in Recordings : StopRemove(q)
                   \/ StopBegin \/ StopShut \/ Finished
            BY <2>6 DEF Watch, Lose, StopClose, Open, StopRemove, StopBegin, StopShut,
                   Finished, vars
        <2> QED BY <2>1, <2>2, <2>3, <2>4, <2>5, <2>6
                DEF Next, Request, HandlerStep, ReleaseStep, StartStep
    <1>2. Init => OwnTodo
        BY DEF Init, OwnTodo
    <1>3. IInv /\ OwnTodo /\ [Next]_vars => OwnTodo'
        <2>1. OwnTodo /\ UNCHANGED vars => OwnTodo'
            BY DEF OwnTodo, vars, tableVars, handlerVars
        <2> QED BY TodoKept, <2>1
    <1> QED BY InvariantHolds, <1>1, <1>2, <1>3, PTL DEF Spec
=============================================================================
