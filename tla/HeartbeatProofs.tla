-------------------------- MODULE HeartbeatProofs --------------------------
(***************************************************************************)
(* Proofs about Heartbeat, for any number of devices, of Enrich's reads and*)
(* of requests.                                                            *)
(***************************************************************************)
EXTENDS Heartbeat, FiniteSetTheorems, TLAPS

\* The reads of Enrich that have not come to the end of record.
On == {f \in Fields : reader[f] # "off"}

\* What Enrich has folded so far: each read that is over left its field or its error, and
\* none that is not over has left either, but for a field stored before its record; okAny
\* says that a field was recorded, and the error kept is one of those recorded.
Folded ==
    /\ at # "enrich" => On = {}
    /\ at \in {"enrich", "socket"} => \A f \in Fields :
         /\ reader[f] = "off" => (f \in got <=> f \notin errors)
         /\ reader[f] = "ok" => f \in got /\ f \notin errors
         /\ reader[f] \in {"call", "store", "fail"} => f \notin got \cup errors
    /\ okAny <=> \E f \in got : reader[f] = "off"
    /\ IF errors = {} THEN firstErr = NoError ELSE firstErr \in errors
    /\ at = "socket" => result = Outcome

\* The devices of b are those of D, each once.
OnceEach(b, D) ==
    /\ \A d \in Devices : d \in D <=> \E e \in b : e.device = d
    /\ \A e1, e2 \in b : e1.device = e2.device => e1 = e2

\* What is in the heartbeat, and what is still to come, is the list.
Visited ==
    /\ left \subseteq listed
    /\ at \in {"enrich", "socket"} => cur \in listed \ left
    /\ at \notin {"next", "enrich", "socket"} => left = {}
    /\ at \in {"next", "enrich", "socket", "count"} =>
          OnceEach(report, listed \ (left \cup {cur}))
    /\ at = "post" => OnceEach(beat.devices, listed)

\* The counters, and the copy of them that is posted.
Totals ==
    /\ lastError = RequestError <=> failures > 0
    /\ at = "post" =>
         /\ ~beat.healthy => beat.devices = {} /\ beat.lastError # NoError
         /\ beat.lastError = RequestError <=> beat.failures > 0
         /\ beat.failures <= beat.requests

\* The heartbeat has ended for a reason.
Ending == at = "ended" => cancelled \/ refused

IInv == TypeOK /\ Folded /\ Visited /\ Totals /\ Ending

-----------------------------------------------------------------------------
\* Every step keeps what Enrich has folded.
LEMMA FoldedKept == IInv /\ Next => Folded'
    <1> USE FieldsAssumption, NoneAssumption, ErrorsAssumption, BoundAssumption
        DEF IInv, enrichVars, buildVars, serverVars, TypeOK, Folded, On, Outcome
    <1> SUFFICES ASSUME IInv, Next PROVE Folded'
        OBVIOUS
    <1>1. CASE List
        BY <1>1 DEF List, ListFailed
    <1>2. ASSUME NEW d \in Devices, Visit(d) PROVE Folded'
        BY <1>2 DEF Visit
    <1>3. CASE Collected
        BY <1>3 DEF Collected
    <1>4. ASSUME NEW f \in Fields, ReadReturns(f) PROVE Folded'
        BY <1>4 DEF ReadReturns, TimesOut
    <1>5. ASSUME NEW f \in Fields, StoreField(f) PROVE Folded'
        BY <1>5 DEF StoreField
    <1>6. ASSUME NEW f \in Fields, Record(f) PROVE Folded'
        BY <1>6 DEF Record, Fold
    <1>7. CASE EnrichReturns
        BY <1>7 DEF EnrichReturns
    <1>8. CASE SocketInfo
        BY <1>8 DEF SocketInfo, Entry
    <1>9. CASE Count
        BY <1>9 DEF Count
    <1>10. CASE Post
        BY <1>10 DEF Post, NoBeat
    <1>11. CASE Tick
        BY <1>11 DEF Tick
    <1>12. CASE Return
        BY <1>12 DEF Return
    <1>13. ASSUME NEW ok \in BOOLEAN, RecordRequest(ok) PROVE Folded'
        BY <1>13 DEF RecordRequest, LastError
    <1>14. ASSUME NEW d \in Devices, Hotplug(d) PROVE Folded'
        BY <1>14 DEF Hotplug
    <1>15. CASE Wedge
        BY <1>15 DEF Wedge
    <1>16. CASE Cancel
        BY <1>16 DEF Cancel
    <1> QED
        BY <1>1, <1>2, <1>3, <1>4, <1>5, <1>6, <1>7, <1>8, <1>9,
           <1>10, <1>11, <1>12, <1>13, <1>14, <1>15, <1>16
        DEF Next, Publisher, Snapshot, Enrich, Read

\* What is posted has the type of a heartbeat.
Beats == [healthy : BOOLEAN, devices : SUBSET Entries, requests : 0..MaxRequests,
          failures : 0..MaxRequests, lastError : {NoError, AdbError, RequestError}]
LEMMA BeatTypes ==
    /\ NoBeat \in Beats
    /\ TypeOK => \A ok \in BOOLEAN, D \in SUBSET Entries : Beat(ok, D) \in Beats
    BY BoundAssumption DEF NoBeat, Beats, TypeOK, Beat

\* Every step keeps the types.
LEMMA TypesKept == IInv /\ Next => TypeOK'
    <1> USE NoneAssumption, ErrorsAssumption, BoundAssumption, BeatTypes
        DEF IInv, enrichVars, buildVars, serverVars, TypeOK, At, Beats
    <1> SUFFICES ASSUME IInv, Next PROVE TypeOK'
        OBVIOUS
    <1>1. CASE List
        <2>1. Beat(FALSE, {}) \in Beats
            OBVIOUS
        <2>2. beat' \in Beats
            BY <1>1, <2>1 DEF List, ListFailed
        <2>3. /\ left' \in SUBSET Devices /\ listed' \in SUBSET Devices
              /\ report' \in SUBSET Entries
            BY <1>1 DEF List
        <2>4. at' \in At /\ at = "list" /\ at' \in {"next", "post"}
            BY <1>1 DEF List, ListFailed
        <2> QED
            BY <1>1, <2>2, <2>3, <2>4 DEF List
    <1>2. ASSUME NEW d \in Devices, Visit(d) PROVE TypeOK'
        <2>1. okAny' \in BOOLEAN
            BY <1>2 DEF Visit
        <2> QED
            BY <1>2, <2>1 DEF Visit
    <1>3. CASE Collected
        BY <1>3 DEF Collected
    <1>4. ASSUME NEW f \in Fields, ReadReturns(f) PROVE TypeOK'
        BY <1>4 DEF ReadReturns, TimesOut
    <1>5. ASSUME NEW f \in Fields, StoreField(f) PROVE TypeOK'
        BY <1>5 DEF StoreField
    <1>6. ASSUME NEW f \in Fields, Record(f) PROVE TypeOK'
        <2>1. okAny' \in BOOLEAN /\ errors' \in SUBSET Fields
            BY <1>6 DEF Record
        <2>2. firstErr' \in Fields \cup {NoError}
            BY <1>6 DEF Record, Fold
        <2> QED
            BY <1>6, <2>1, <2>2 DEF Record
    <1>7. CASE EnrichReturns
        BY <1>7 DEF EnrichReturns, Outcome
    <1>8. CASE SocketInfo
        <2>1. report' \in SUBSET Entries
            <3>1. \A ok \in BOOLEAN : [device |-> cur, inspectable |-> ok] \in Entries
                BY <1>8 DEF SocketInfo, Entries
            <3>2. \A ok \in BOOLEAN : Entry(ok) \subseteq Entries
                BY <3>1 DEF Entry
            <3>3. PICK ok \in BOOLEAN : report' = report \cup Entry(ok)
                BY <1>8 DEF SocketInfo
            <3> QED
                BY <3>2, <3>3
        <2>2. okAny' \in BOOLEAN
            BY <1>8 DEF SocketInfo
        <2> QED
            BY <1>8, <2>1, <2>2 DEF SocketInfo
    <1>9. CASE Count
        BY <1>9 DEF Count
    <1>10. CASE Post
        BY <1>10 DEF Post
    <1>11. CASE Tick
        BY <1>11 DEF Tick
    <1>12. CASE Return
        BY <1>12 DEF Return
    <1>13. ASSUME NEW ok \in BOOLEAN, RecordRequest(ok) PROVE TypeOK'
        BY <1>13 DEF RecordRequest, LastError
    <1>14. ASSUME NEW d \in Devices, Hotplug(d) PROVE TypeOK'
        BY <1>14 DEF Hotplug
    <1>15. CASE Wedge
        BY <1>15 DEF Wedge
    <1>16. CASE Cancel
        BY <1>16 DEF Cancel
    <1> QED
        BY <1>1, <1>2, <1>3, <1>4, <1>5, <1>6, <1>7, <1>8, <1>9,
           <1>10, <1>11, <1>12, <1>13, <1>14, <1>15, <1>16
        DEF Next, Publisher, Snapshot, Enrich, Read

\* Every step keeps the devices together.
LEMMA VisitedKept == IInv /\ Next => Visited'
    <1> USE FieldsAssumption, NoneAssumption, ErrorsAssumption, BoundAssumption
        DEF IInv, enrichVars, buildVars, serverVars, TypeOK, At, Visited, OnceEach, Entries,
            Beat
    <1> SUFFICES ASSUME IInv, Next PROVE Visited'
        OBVIOUS
    <1>1. CASE List
        BY <1>1 DEF List, ListFailed
    <1>2. ASSUME NEW d \in Devices, Visit(d) PROVE Visited'
        BY <1>2 DEF Visit
    <1>3. CASE Collected
        BY <1>3 DEF Collected
    <1>4. ASSUME NEW f \in Fields, ReadReturns(f) PROVE Visited'
        BY <1>4 DEF ReadReturns, TimesOut
    <1>5. ASSUME NEW f \in Fields, StoreField(f) PROVE Visited'
        BY <1>5 DEF StoreField
    <1>6. ASSUME NEW f \in Fields, Record(f) PROVE Visited'
        BY <1>6 DEF Record, Fold
    <1>7. CASE EnrichReturns
        BY <1>7 DEF EnrichReturns
    <1>8. CASE SocketInfo
        <2>1. PICK ok \in BOOLEAN : report' = report \cup Entry(ok)
            BY <1>8 DEF SocketInfo
        <2>2. PICK x : report' = report \cup {x} /\ x.device = cur
            <3>1. Entry(ok) = {[device |-> cur, inspectable |-> ok]}
                BY DEF Entry
            <3> WITNESS [device |-> cur, inspectable |-> ok]
            <3> QED BY <2>1, <3>1
        <2>3. at = "socket" /\ cur \in listed \ left
            BY <1>8 DEF SocketInfo
        <2>4. \A d \in Devices : d \in listed \ left <=> \E e \in report' : e.device = d
            <3>1. \A d \in Devices : d \in listed \ left <=>
                     d = cur \/ d \in listed \ (left \cup {cur})
                BY <2>3
            <3> QED
                BY <2>2, <2>3, <3>1
        <2>5. \A e1, e2 \in report' : e1.device = e2.device => e1 = e2
            <3>1. \A e \in report : e.device \in Devices /\ e.device # cur
                BY <2>3
            <3> QED
                BY <2>2, <2>3, <3>1
        <2>6. OnceEach(report', listed \ left)
            BY <2>4, <2>5
        <2> QED
            BY <1>8, <2>6 DEF SocketInfo
    <1>9. CASE Count
        BY <1>9 DEF Count
    <1>10. CASE Post
        BY <1>10 DEF Post, NoBeat
    <1>11. CASE Tick
        BY <1>11 DEF Tick
    <1>12. CASE Return
        BY <1>12 DEF Return
    <1>13. ASSUME NEW ok \in BOOLEAN, RecordRequest(ok) PROVE Visited'
        BY <1>13 DEF RecordRequest, LastError
    <1>14. ASSUME NEW d \in Devices, Hotplug(d) PROVE Visited'
        BY <1>14 DEF Hotplug
    <1>15. CASE Wedge
        BY <1>15 DEF Wedge
    <1>16. CASE Cancel
        BY <1>16 DEF Cancel
    <1> QED
        BY <1>1, <1>2, <1>3, <1>4, <1>5, <1>6, <1>7, <1>8, <1>9,
           <1>10, <1>11, <1>12, <1>13, <1>14, <1>15, <1>16
        DEF Next, Publisher, Snapshot, Enrich, Read

\* Every step keeps the counters together.
LEMMA TotalsKept == IInv /\ Next => Totals'
    <1> USE FieldsAssumption, NoneAssumption, ErrorsAssumption, BoundAssumption
        DEF IInv, enrichVars, buildVars, serverVars, TypeOK, Totals, Ending, Beat
    <1> SUFFICES ASSUME IInv, Next PROVE Totals'
        OBVIOUS
    <1>1. CASE List
        BY <1>1 DEF List, ListFailed
    <1>2. ASSUME NEW d \in Devices, Visit(d) PROVE Totals'
        BY <1>2 DEF Visit
    <1>3. CASE Collected
        BY <1>3 DEF Collected
    <1>4. ASSUME NEW f \in Fields, ReadReturns(f) PROVE Totals'
        BY <1>4 DEF ReadReturns, TimesOut
    <1>5. ASSUME NEW f \in Fields, StoreField(f) PROVE Totals'
        BY <1>5 DEF StoreField
    <1>6. ASSUME NEW f \in Fields, Record(f) PROVE Totals'
        BY <1>6 DEF Record, Fold
    <1>7. CASE EnrichReturns
        BY <1>7 DEF EnrichReturns
    <1>8. CASE SocketInfo
        BY <1>8 DEF SocketInfo, Entry
    <1>9. CASE Count
        BY <1>9 DEF Count
    <1>10. CASE Post
        BY <1>10 DEF Post, NoBeat
    <1>11. CASE Tick
        BY <1>11 DEF Tick
    <1>12. CASE Return
        BY <1>12 DEF Return
    <1>13. ASSUME NEW ok \in BOOLEAN, RecordRequest(ok) PROVE Totals'
        BY <1>13 DEF RecordRequest, LastError
    <1>14. ASSUME NEW d \in Devices, Hotplug(d) PROVE Totals'
        BY <1>14 DEF Hotplug
    <1>15. CASE Wedge
        BY <1>15 DEF Wedge
    <1>16. CASE Cancel
        BY <1>16 DEF Cancel
    <1> QED
        BY <1>1, <1>2, <1>3, <1>4, <1>5, <1>6, <1>7, <1>8, <1>9,
           <1>10, <1>11, <1>12, <1>13, <1>14, <1>15, <1>16
        DEF Next, Publisher, Snapshot, Enrich, Read

\* Every step keeps the reason.
LEMMA EndingKept == IInv /\ Next => Ending'
    <1> USE FieldsAssumption, NoneAssumption, ErrorsAssumption, BoundAssumption
        DEF IInv, enrichVars, buildVars, serverVars, TypeOK, Ending
    <1> SUFFICES ASSUME IInv, Next PROVE Ending'
        OBVIOUS
    <1>1. CASE List
        BY <1>1 DEF List, ListFailed
    <1>2. ASSUME NEW d \in Devices, Visit(d) PROVE Ending'
        BY <1>2 DEF Visit
    <1>3. CASE Collected
        BY <1>3 DEF Collected
    <1>4. ASSUME NEW f \in Fields, ReadReturns(f) PROVE Ending'
        BY <1>4 DEF ReadReturns, TimesOut
    <1>5. ASSUME NEW f \in Fields, StoreField(f) PROVE Ending'
        BY <1>5 DEF StoreField
    <1>6. ASSUME NEW f \in Fields, Record(f) PROVE Ending'
        BY <1>6 DEF Record, Fold
    <1>7. CASE EnrichReturns
        BY <1>7 DEF EnrichReturns
    <1>8. CASE SocketInfo
        BY <1>8 DEF SocketInfo, Entry
    <1>9. CASE Count
        BY <1>9 DEF Count
    <1>10. CASE Post
        BY <1>10 DEF Post, NoBeat
    <1>11. CASE Tick
        BY <1>11 DEF Tick
    <1>12. CASE Return
        BY <1>12 DEF Return
    <1>13. ASSUME NEW ok \in BOOLEAN, RecordRequest(ok) PROVE Ending'
        BY <1>13 DEF RecordRequest, LastError
    <1>14. ASSUME NEW d \in Devices, Hotplug(d) PROVE Ending'
        BY <1>14 DEF Hotplug
    <1>15. CASE Wedge
        BY <1>15 DEF Wedge
    <1>16. CASE Cancel
        BY <1>16 DEF Cancel
    <1> QED
        BY <1>1, <1>2, <1>3, <1>4, <1>5, <1>6, <1>7, <1>8, <1>9,
           <1>10, <1>11, <1>12, <1>13, <1>14, <1>15, <1>16
        DEF Next, Publisher, Snapshot, Enrich, Read

\* The publisher starts with nothing read.
LEMMA InitInv == Init => IInv
    <1> USE FieldsAssumption, NoneAssumption, ErrorsAssumption, BoundAssumption DEF Init
    <1> SUFFICES ASSUME Init PROVE IInv
        OBVIOUS
    <1>1. TypeOK
        <2>1. wedged \in BOOLEAN /\ cancelled \in BOOLEAN
              /\ okAny \in BOOLEAN /\ refused \in BOOLEAN
            OBVIOUS
        <2> QED
            BY <2>1, BeatTypes DEF TypeOK, Beats, At
    <1>2. Folded
        BY DEF Folded, On
    <1>3. Visited /\ Totals /\ Ending
        BY DEF Visited, Totals, Ending
    <1> QED BY <1>1, <1>2, <1>3 DEF IInv

\* The inductive invariant holds of every behaviour.
THEOREM InvariantHolds == Spec => []IInv
    <1>1. IInv /\ Next => IInv'
        BY TypesKept, FoldedKept, VisitedKept, TotalsKept, EndingKept DEF IInv
    <1>2. IInv /\ UNCHANGED vars => IInv'
        BY DEF IInv, TypeOK, Folded, Visited, Totals, Ending, On, OnceEach, Outcome,
               vars, enrichVars, buildVars, serverVars
    <1> QED BY InitInv, <1>1, <1>2, PTL DEF Spec

\* Type correctness of the publisher, of Enrich and of the counters.
THEOREM TypesHold == Spec => []TypeOK
    BY InvariantHolds, PTL DEF IInv

\* A heartbeat names each device of its list once, and has an error when it must
\* (Snapshot, collectHeartbeatDevices, recordRequest).
THEOREM BeatExplainedHolds == Spec => []BeatExplained
    <1>1. IInv => BeatExplained
        <2> SUFFICES ASSUME IInv, at = "post" PROVE BeatExplained
            BY DEF BeatExplained
        <2> DEFINE Told(d) == {e \in beat.devices : e.device = d}
        <2>1. ASSUME NEW d \in Devices
              PROVE  Cardinality(Told(d)) = IF d \in listed THEN 1 ELSE 0
            <3>1. CASE d \in listed
                <4>1. PICK e \in beat.devices : e.device = d
                    BY <3>1 DEF IInv, Visited, OnceEach
                <4>2. Told(d) = {e}
                    BY <4>1 DEF IInv, Visited, OnceEach
                <4> QED
                    BY <3>1, <4>2, FS_Singleton
            <3>2. CASE d \notin listed
                <4>1. Told(d) = {}
                    BY <3>2 DEF IInv, Visited, OnceEach
                <4> QED
                    BY <3>2, <4>1, FS_EmptySet
            <3> QED BY <3>1, <3>2
        <2> QED
            BY <2>1 DEF IInv, Totals, BeatExplained
    <1> QED BY InvariantHolds, <1>1, PTL

\* Each read of Enrich is accounted for, and an error is returned if and only if every read
\* failed (record).
THEOREM EnrichResultHolds == Spec => [](at = "socket" => EnrichResult)
    <1>1. IInv => (at = "socket" => EnrichResult)
        <2> SUFFICES ASSUME IInv, at = "socket" PROVE EnrichResult
            OBVIOUS
        <2>1. \A f \in Fields : reader[f] = "off" /\ (f \in got <=> f \notin errors)
            BY DEF IInv, Folded, On
        <2>2. got \cup errors = Fields /\ got \cap errors = {}
            BY <2>1 DEF IInv, TypeOK
        <2>3. IF got = {} THEN result \in errors ELSE result = NoError
            BY <2>1, <2>2, FieldsAssumption DEF IInv, Folded, TypeOK, Outcome
        <2> QED
            BY <2>1, <2>2, <2>3 DEF EnrichResult
    <1> QED BY InvariantHolds, <1>1, PTL

\* The heartbeat ends for no other reason than its context or a POST that failed (Run).
THEOREM EndingHolds == Spec => []Ending
    BY InvariantHolds, PTL DEF IInv
=============================================================================
