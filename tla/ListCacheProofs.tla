-------------------------- MODULE ListCacheProofs --------------------------
(***************************************************************************)
(* Proofs about ListCache, for any number of pollers, proxies and changes, *)
(* and any TTL.                                                            *)
(***************************************************************************)
EXTENDS ListCache, TLAPS

\* A poll under way has its proxy, and before it stores, a response of that proxy; there
\* are none before requests are routed to a proxy.
InHand ==
    /\ \A c \in Pollers :
        /\ at[c] # "idle" => via[c] \in Proxies /\ handler \in Proxies
        /\ at[c] = "store" => rec[c] \in Bodies /\ rec[c].from = via[c]
    /\ buf # NoBody => handler \in Proxies

\* The history means what it says: a change that is not over, or that polls still overlap,
\* was not quiet, and no tick has counted since.
Overlaps ==
    /\ overlap \subseteq UnderWay
    /\ swap # NoProxy => overlap = UnderWay
    /\ quiet => overlap = {}
    /\ lull # 0 => Settled

\* A poll that does not overlap the last change has seen it.
Current ==
    \A c \in UnderWay \ overlap :
        /\ via[c] = handler
        /\ at[c] = "store" => rec[c].seen >= handled

\* A list from before the last change, or from while RunWithProxy is under way.
Old == buf # NoBody /\ (swap # NoProxy \/ buf.from # handler \/ buf.seen < handled)

\* Such a list was stored by a poll that overlaps the change, and has aged since.
OldByOverlap == Old => ~quiet /\ age >= lull

IInv == TypeOK /\ InHand /\ Overlaps /\ Current /\ OldByOverlap

-----------------------------------------------------------------------------
\* A tick ages what has not reached its bound.
LEMMA OlderGrows ==
    ASSUME NEW n \in 0..TTL, NEW m \in 0..TTL, n <= m
    PROVE  /\ Older(n) \in 0..TTL /\ Older(m) \in 0..TTL
           /\ Older(n) <= Older(m)
    BY TTLAssumption DEF Older

LEMMA InitInv == Init => IInv
    <1> SUFFICES ASSUME Init PROVE IInv
        OBVIOUS
    <1>1. UnderWay = {}
        BY DEF Init, UnderWay
    <1>2. TypeOK
        BY NoneAssumption, TTLAssumption, ChangesAssumption DEF Init, TypeOK
    <1> QED
        BY <1>1, <1>2 DEF Init, IInv, InHand, Overlaps, Current, Old, OldByOverlap

\* The end of a poll takes it out of the polls under way, and out of the overlap.
LEMMA Replied ==
    ASSUME TypeOK, Overlaps, NEW c \in Pollers, Reply(c)
    PROVE  /\ at' \in [Pollers -> {"idle", "lookup", "fetch", "store"}]
           /\ via' \in [Pollers -> Proxies \cup {NoProxy}]
           /\ rec' \in [Pollers -> Bodies \cup {NoBody}]
           /\ at'[c] = "idle"
           /\ \A d \in Pollers \ {c} :
                at'[d] = at[d] /\ via'[d] = via[d] /\ rec'[d] = rec[d]
           /\ UnderWay' = UnderWay \ {c} /\ overlap' = overlap \ {c}
           /\ quiet' = quiet /\ lull' = lull
    BY DEF TypeOK, Reply, UnderWay

\* A change starts the history anew, with the cache empty.
LEMMA ChangeKept ==
    ASSUME IInv, Changed, Invalidate, UNCHANGED <<handler, pollVars>>,
           swap' \in Proxies \cup {NoProxy},
           changes' = changes, handled' \in 0..changes
    PROVE  IInv'
    <1> USE DEF IInv, pollVars
    <1>1. UnderWay' = UnderWay
        BY DEF UnderWay
    <1>2. TypeOK'
        BY TTLAssumption DEF TypeOK, Changed, Invalidate, UnderWay
    <1>3. Overlaps' /\ Current'
        BY <1>1 DEF Overlaps, Current, Changed
    <1>4. InHand' /\ OldByOverlap'
        BY DEF InHand, Old, OldByOverlap, Invalidate
    <1> QED BY <1>2, <1>3, <1>4

\* Every step of the cache, of the server, of the devices and of a poll keeps the invariant.
LEMMA InvKept == IInv /\ [Next]_vars => IInv'
    <1> SUFFICES ASSUME IInv, [Next]_vars PROVE IInv'
        OBVIOUS
    <1> USE DEF IInv
    <1>t. TypeOK /\ InHand /\ Overlaps /\ Current /\ OldByOverlap
        OBVIOUS
    <1>1. CASE Start
        <2>1. UnderWay = {} /\ UnderWay' = {} /\ buf = NoBody
            BY <1>1, NoneAssumption DEF Start, UnderWay, InHand, pollVars
        <2> QED
            BY <1>1, <2>1 DEF Start, TypeOK, InHand, Overlaps, Current, Old, OldByOverlap,
                Settled, UnderWay, pollVars, cacheVars, deviceVars, history
    <1>2. CASE Route
        <2>1. UnderWay' = UnderWay
            BY <1>2 DEF Route, UnderWay, pollVars
        <2>2. TypeOK' /\ InHand' /\ Overlaps'
            BY <1>2, <2>1 DEF Route, TypeOK, InHand, Overlaps, Settled, pollVars,
                cacheVars, deviceVars, history
        <2>3. Current' /\ OldByOverlap'
            BY <1>2, <2>1 DEF Route, Overlaps, Current, Old, OldByOverlap, pollVars,
                cacheVars, deviceVars, history
        <2> QED BY <2>2, <2>3
    <1>3. CASE DeviceChanges
        <2>1. UnderWay' = UnderWay
            BY <1>3 DEF DeviceChanges, UnderWay, pollVars
        <2> QED
            BY <1>3, <2>1, ChangesAssumption DEF DeviceChanges, TypeOK, InHand, Overlaps,
                Current, Old, OldByOverlap, Settled, pollVars, cacheVars, history
    <1>4. CASE EventTaken
        <2>1. handled' \in 0..changes
            BY <1>4, ChangesAssumption DEF EventTaken, TypeOK
        <2> QED BY <1>4, <2>1, ChangeKept DEF EventTaken, TypeOK
    <1>5. CASE Tick
        <2>1. /\ age' = Older(age) /\ lull' \in {0, Older(lull)}
              /\ (lull' # 0 => Settled)
              /\ UNCHANGED <<handler, swap, pollVars, buf, deviceVars, overlap, quiet>>
            BY <1>5 DEF Tick
        <2>2. UnderWay' = UnderWay /\ Settled' = Settled /\ Old' = Old
            BY <2>1 DEF UnderWay, Settled, Old, pollVars, deviceVars
        <2>3. TypeOK'
            BY <2>1, OlderGrows, TTLAssumption DEF TypeOK, pollVars, deviceVars
        <2>4. InHand' /\ Overlaps' /\ Current'
            BY <2>1, <2>2 DEF InHand, Overlaps, Current, pollVars, deviceVars
        <2>5. OldByOverlap'
            <3> SUFFICES ASSUME Old PROVE ~quiet /\ age' >= lull'
                BY <2>1, <2>2 DEF OldByOverlap
            <3>1. ~quiet /\ lull <= age /\ age \in 0..TTL /\ lull \in 0..TTL
                BY DEF OldByOverlap, TypeOK
            <3>2. Older(lull) <= Older(age) /\ Older(age) \in 0..TTL /\ Older(lull) \in 0..TTL
                BY <3>1, OlderGrows
            <3> QED BY <2>1, <3>1, <3>2, TTLAssumption
        <2> QED BY <2>3, <2>4, <2>5
    <1>6. ASSUME NEW p \in Proxies, Attach(p) PROVE IInv'
        <2>1. swap' \in Proxies \cup {NoProxy}
            BY <1>6 DEF Attach, Attaching
        <2> QED BY <1>6, <2>1, ChangeKept DEF Attach, Attaching, TypeOK, deviceVars
    <1>7. ASSUME NEW c \in Pollers, Poll(c) PROVE IInv'
        <2>1. UnderWay' = UnderWay \cup {c} /\ c \notin UnderWay
            BY <1>7 DEF Poll, UnderWay, TypeOK
        <2>2. TypeOK'
            BY <1>7 DEF Poll, TypeOK, cacheVars, deviceVars
        <2>3. InHand'
            BY <1>7 DEF Poll, InHand, TypeOK, cacheVars
        <2>4. Overlaps'
            BY <1>7, <2>1 DEF Poll, Overlaps, Settled
        <2>5. Current'
            BY <1>7, <2>1 DEF Poll, Current, Overlaps, TypeOK, deviceVars
        <2>6. OldByOverlap'
            BY <1>7 DEF Poll, Old, OldByOverlap, cacheVars, deviceVars
        <2> QED BY <2>2, <2>3, <2>4, <2>5, <2>6
    <1>8. ASSUME NEW c \in Pollers, Lookup(c), Usable PROVE IInv'
        <2>1. Reply(c) /\ UNCHANGED <<handler, swap, deviceVars, cacheVars>>
            BY <1>8 DEF Lookup, Hit
        <2> USE Replied, <2>1 DEF cacheVars, deviceVars
        <2>2. TypeOK'
            BY DEF TypeOK
        <2>3. InHand'
            BY DEF InHand
        <2>4. Overlaps'
            BY DEF Overlaps, Settled
        <2>5. Current'
            BY DEF Current, UnderWay
        <2>6. OldByOverlap'
            BY DEF Old, OldByOverlap
        <2> QED BY <2>2, <2>3, <2>4, <2>5, <2>6
    <1>9. ASSUME NEW c \in Pollers, Lookup(c), ~Usable PROVE IInv'
        <2>1. /\ at[c] = "lookup" /\ at' = [at EXCEPT ![c] = "fetch"]
              /\ UNCHANGED <<handler, swap, deviceVars, via, rec, cacheVars, history>>
            BY <1>9 DEF Lookup
        <2>2. UnderWay' = UnderWay
            BY <2>1 DEF UnderWay, TypeOK
        <2> QED
            BY <2>1, <2>2 DEF TypeOK, InHand, Overlaps, Current, Old, OldByOverlap,
                Settled, UnderWay, cacheVars, deviceVars, history
    <1>10. ASSUME NEW c \in Pollers, Fetch(c) PROVE IInv'
        <2>1. PICK s \in {"ok", "error"} :
                rec' = [rec EXCEPT ![c] = [from |-> via[c], seen |-> changes, status |-> s]]
            BY <1>10 DEF Fetch
        <2>2. UnderWay' = UnderWay
            BY <1>10 DEF Fetch, UnderWay, TypeOK
        <2>3. [from |-> via[c], seen |-> changes, status |-> s] \in Bodies
            BY <1>10, ChangesAssumption DEF Fetch, InHand, TypeOK, Bodies
        <2>4. TypeOK' /\ InHand'
            BY <1>10, <2>1, <2>3 DEF Fetch, TypeOK, InHand, cacheVars, deviceVars, history
        <2>5. Overlaps' /\ OldByOverlap'
            BY <1>10, <2>2 DEF Fetch, Overlaps, Settled, Old, OldByOverlap, cacheVars,
                deviceVars, history
        <2>6. Current'
            BY <1>10, <2>1, <2>2, ChangesAssumption DEF Fetch, Current, UnderWay, TypeOK,
                deviceVars, history
        <2> QED BY <2>4, <2>5, <2>6
    <1>11. ASSUME NEW c \in Pollers, Store(c) PROVE IInv'
        <2>1. /\ at[c] = "store" /\ c \in UnderWay /\ rec[c] \in Bodies
              /\ Reply(c) /\ UNCHANGED <<handler, swap, deviceVars>>
              /\ \/ rec[c].status = "ok" /\ buf' = rec[c] /\ age' = 0
                 \/ UNCHANGED cacheVars
            BY <1>11 DEF Store, Cacheable, InHand, UnderWay
        <2> USE Replied, <2>1 DEF cacheVars, deviceVars
        <2>2. TypeOK'
            BY TTLAssumption DEF TypeOK
        <2>3. InHand'
            BY DEF InHand
        <2>4. Overlaps'
            BY DEF Overlaps, Settled
        <2>5. Current'
            BY DEF Current, UnderWay
        <2>6. OldByOverlap'
            <3>1. CASE UNCHANGED cacheVars
                BY <3>1 DEF Old, OldByOverlap
            <3>2. CASE buf' = rec[c] /\ age' = 0 /\ c \in overlap
                BY <3>2 DEF OldByOverlap, Overlaps, Settled
            <3>3. CASE buf' = rec[c] /\ age' = 0 /\ c \notin overlap
                <4>1. swap = NoProxy /\ rec[c].from = handler /\ rec[c].seen >= handled
                    BY <3>3 DEF Overlaps, Current, InHand
                <4>2. rec[c].seen \in Nat /\ handled \in Nat
                    BY ChangesAssumption DEF Bodies, TypeOK
                <4> QED BY <3>3, <4>1, <4>2 DEF Old, OldByOverlap
            <3> QED BY <3>1, <3>2, <3>3
        <2> QED BY <2>2, <2>3, <2>4, <2>5, <2>6
    <1>12. CASE UNCHANGED vars
        BY <1>12 DEF vars, TypeOK, InHand, Overlaps, Current, Old, OldByOverlap, Settled,
            UnderWay, pollVars, cacheVars, deviceVars, history
    <1> QED
        BY <1>1, <1>2, <1>3, <1>4, <1>5, <1>6, <1>7, <1>8, <1>9, <1>10, <1>11, <1>12
        DEF Next

\* The inductive invariant holds of every behaviour.
THEOREM InvariantHolds == Spec => []IInv
    BY InitInv, InvKept, PTL DEF Spec

\* Only lists that Chrome answered with 200 are ever cached (cachedList).
THEOREM TypesHold == Spec => []TypeOK
    BY InvariantHolds, PTL DEF IInv

\* A new proxy or a device event that meets no poll leaves no list of the time before it
\* to be served (invalidateListCache, by RunWithProxy and by WatchDeviceChanges).
THEOREM SweptOutHolds == Spec => []SweptOut
    <1>1. IInv => SweptOut
        BY DEF IInv, OldByOverlap, Old, SweptOut, Stale, Usable
    <1> QED BY InvariantHolds, <1>1, PTL

\* An old list that a poll in flight stored is served for no longer than jsonListCacheTTL
\* after the polls that met the change are over, however often it is asked for (cachedList).
THEOREM StaleSoonGoneHolds == Spec => []StaleSoonGone
    <1>1. IInv => StaleSoonGone
        BY TTLAssumption DEF IInv, TypeOK, OldByOverlap, Old, StaleSoonGone, Stale, Usable
    <1> QED BY InvariantHolds, <1>1, PTL
=============================================================================
