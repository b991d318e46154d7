----------------------------- MODULE ListCache -----------------------------
(***************************************************************************)
(* The /json/list side of pkg/mobilebridge/server.go: the cache that spares*)
(* Chrome the polls of its clients, RunWithProxy, which empties it and     *)
(* then routes the requests to another proxy, and WatchDeviceChanges, which*)
(* empties it when a device comes or goes.                                 *)
(*                                                                         *)
(* A poll looks the cache up under listCacheMu, fetches with no lock held, *)
(* and stores under the lock again.  A body is told apart by its status,   *)
(* the proxy it came from and how many changes of devices it has seen; the *)
(* routes that are not cached change nothing.  Time passes in ticks.       *)
(***************************************************************************)
EXTENDS Naturals, FiniteSets

CONSTANTS
    Pollers,        \* goroutines serving GET /json/list or /json
    Proxies,
    NoServer,       \* httpSrv is nil: Start has not run
    Unattached,     \* Start's own routes, which answer 503 and cache nothing
    NoProxy, NoBody,
    TTL,            \* jsonListCacheTTL, in ticks
    MaxChanges      \* bound: devices that come or go

Bodies == [from : Proxies, seen : Nat, status : {"ok", "error"}]

ASSUME NoneAssumption ==
    /\ NoProxy \notin Proxies /\ NoServer \notin Proxies /\ Unattached \notin Proxies
    /\ NoServer # Unattached
    /\ NoBody \notin Bodies
ASSUME TTLAssumption == TTL \in Nat \ {0}
ASSUME ChangesAssumption == MaxChanges \in Nat

VARIABLES
    handler,        \* srv.Handler: the proxy its routes lead to
    swap,           \* RunWithProxy under way: its proxy
    buf,            \* listCacheBuf
    age,            \* ticks since listCacheAt, up to TTL
    at, via, rec,   \* per poller: where it is, the proxy of its route, its response
    changes,        \* devices that came or went so far
    handled,        \* of these, the ones whose event WatchDeviceChanges has taken
    \* History.  A new proxy or an event taken is a change; a poll overlaps it when it is
    \* under way at it, or begins before RunWithProxy has routed the requests.
    overlap,        \* polls still under way that overlap the last change
    quiet,          \* no poll overlapped the last change
    lull            \* ticks since it is over, and the polls that overlap it, up to TTL

pollVars == <<at, via, rec>>
cacheVars == <<buf, age>>
deviceVars == <<changes, handled>>
history == <<overlap, quiet, lull>>
vars == <<handler, swap, pollVars, cacheVars, deviceVars, history>>

UnderWay == {c \in Pollers : at[c] # "idle"}

Init ==
    /\ handler = NoServer /\ swap = NoProxy
    /\ buf = NoBody /\ age = TTL
    /\ at = [c \in Pollers |-> "idle"]
    /\ via = [c \in Pollers |-> NoProxy]
    /\ rec = [c \in Pollers |-> NoBody]
    /\ changes = 0 /\ handled = 0
    /\ overlap = {} /\ quiet = TRUE /\ lull = 0

\* invalidateListCache.
Invalidate == buf' = NoBody /\ age' = TTL

Changed ==
    /\ overlap' = UnderWay
    /\ quiet' = (UnderWay = {})
    /\ lull' = 0

Start ==
    /\ handler = NoServer /\ handler' = Unattached
    /\ UNCHANGED <<swap, pollVars, cacheVars, deviceVars, history>>

Attaching(p) ==
    /\ swap = NoProxy
    /\ swap' = IF handler = NoServer THEN NoProxy ELSE p
    /\ Changed
    /\ UNCHANGED <<handler, pollVars, deviceVars>>

\* Mutant: the cache is left to the watcher of devices.
Attach_KeepsList(p) == Attaching(p) /\ UNCHANGED cacheVars

\* RunWithProxy invalidates first, also when it then finds the server not started ...
Attach(p) == Attaching(p) /\ Invalidate

\* ... and routes the requests to the proxy last.
Route ==
    /\ swap # NoProxy
    /\ handler' = swap /\ swap' = NoProxy
    /\ UNCHANGED <<pollVars, cacheVars, deviceVars, history>>

\* A device comes or goes: what Chrome lists from now on is another list, and its event is
\* on its way to the watcher.
DeviceChanges ==
    /\ changes < MaxChanges /\ changes' = changes + 1
    /\ UNCHANGED <<handler, swap, pollVars, cacheVars, handled, history>>

\* Mutant: the event is taken and nothing is done about it.
EventTaken_Ignored ==
    /\ handled < changes /\ handled' = handled + 1
    /\ Changed
    /\ UNCHANGED <<handler, swap, pollVars, cacheVars, changes>>

\* WatchDeviceChanges takes an event from its channel.
EventTaken ==
    /\ handled < changes /\ handled' = handled + 1
    /\ Invalidate /\ Changed
    /\ UNCHANGED <<handler, swap, pollVars, changes>>

Usable == age < TTL /\ buf # NoBody

Poll(c) ==
    /\ at[c] = "idle" /\ handler \in Proxies
    /\ at' = [at EXCEPT ![c] = "lookup"]
    /\ via' = [via EXCEPT ![c] = handler]
    /\ overlap' = IF swap = NoProxy THEN overlap ELSE overlap \cup {c}
    /\ quiet' = (quiet /\ swap = NoProxy)
    /\ UNCHANGED <<handler, swap, rec, cacheVars, deviceVars, lull>>

Reply(c) ==
    /\ at' = [at EXCEPT ![c] = "idle"]
    /\ via' = [via EXCEPT ![c] = NoProxy]
    /\ rec' = [rec EXCEPT ![c] = NoBody]
    /\ overlap' = overlap \ {c}
    /\ UNCHANGED <<quiet, lull>>

\* Mutant: a list that is asked for is kept.
Hit_Refreshes == age' = 0 /\ UNCHANGED buf

Hit == UNCHANGED cacheVars

\* cachedList's first section.
Lookup(c) ==
    /\ at[c] = "lookup"
    /\ \/ Usable /\ Hit /\ Reply(c)
       \/ /\ ~Usable
          /\ at' = [at EXCEPT ![c] = "fetch"]
          /\ UNCHANGED <<via, rec, cacheVars, history>>
    /\ UNCHANGED <<handler, swap, deviceVars>>

\* forwardJSON gets the list and writes it to the client, who may be slow to take it; on a
\* failure it answers 502, so that rec has a status either way.
Fetch(c) ==
    /\ at[c] = "fetch"
    /\ \E s \in {"ok", "error"} :
         rec' = [rec EXCEPT ![c] = [from |-> via[c], seen |-> changes, status |-> s]]
    /\ at' = [at EXCEPT ![c] = "store"]
    /\ UNCHANGED <<handler, swap, via, cacheVars, deviceVars, history>>

\* Mutant: whatever was answered is cached.
Cacheable_Any(b) == TRUE

\* "Only cache a verified 200."
Cacheable(b) == b.status = "ok"

\* cachedList's second section.
Store(c) ==
    /\ at[c] = "store"
    /\ IF Cacheable(rec[c])
         THEN buf' = rec[c] /\ age' = 0
         ELSE UNCHANGED cacheVars
    /\ Reply(c)
    /\ UNCHANGED <<handler, swap, deviceVars>>

Older(n) == IF n < TTL THEN n + 1 ELSE n

Settled == swap = NoProxy /\ overlap = {}

Tick ==
    /\ age < TTL \/ (Settled /\ lull < TTL)
    /\ age' = Older(age)
    /\ lull' = IF Settled THEN Older(lull) ELSE 0
    /\ UNCHANGED <<handler, swap, pollVars, buf, deviceVars, overlap, quiet>>

Next ==
    \/ Start \/ Route \/ DeviceChanges \/ EventTaken \/ Tick
    \/ \E p \in Proxies : Attach(p)
    \/ \E c \in Pollers : Poll(c) \/ Lookup(c) \/ Fetch(c) \/ Store(c)

Spec == Init /\ [][Next]_vars

-----------------------------------------------------------------------------
\* What is in the cache was a 200, whatever Chrome answered in between.
TypeOK ==
    /\ handler \in Proxies \cup {NoServer, Unattached}
    /\ swap \in Proxies \cup {NoProxy}
    /\ buf \in {b \in Bodies : b.status = "ok"} \cup {NoBody} /\ age \in 0..TTL
    /\ at \in [Pollers -> {"idle", "lookup", "fetch", "store"}]
    /\ via \in [Pollers -> Proxies \cup {NoProxy}]
    /\ rec \in [Pollers -> Bodies \cup {NoBody}]
    /\ changes \in 0..MaxChanges /\ handled \in 0..changes
    /\ overlap \in SUBSET Pollers /\ quiet \in BOOLEAN /\ lull \in 0..TTL

\* The next poll is given a list of another proxy than the one requests are routed to, or
\* one fetched before a device came or went whose event is handled.
Stale == Usable /\ (buf.from # handler \/ buf.seen < handled)

\* A change that met no poll leaves nothing of the time before it to be served, whether
\* RunWithProxy or WatchDeviceChanges made it: a poll that comes later fetches a fresh
\* list, and what it stores is one.
SweptOut == swap = NoProxy /\ quiet => ~Stale

\* Whatever polls met the last change, an old list they store is served for no longer than
\* jsonListCacheTTL after they are over, however often it is asked for.
StaleSoonGone == swap = NoProxy /\ lull = TTL => ~Stale

\* What RunWithProxy says of its invalidation, and the code does not keep: "any cached
\* /json/list body belongs to the previous session and must not leak across the swap"
\* (server.go:184).  A poll in flight stores its list after the cache was emptied.
NoLeak == swap = NoProxy /\ Usable => buf.from = handler
=============================================================================
