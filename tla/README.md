# A verification project for mobilebridge

TLA+ models of mobilebridge (`pkg/mobilebridge` and the bridge loop of
`cmd/mobilebridge`), TLC configurations that check them on small instances, and
TLAPS proofs that take the safety of each model to every instance. Paths below
are relative to `pkg/mobilebridge/`, line numbers are of the source beside this
directory.

## The system

| Component | State | Operations | Talks to |
|---|---|---|---|
| CDP proxy (`proxy.go`) | `upstream`, `reconnectGate`, `reconnectErr`, `busy`, `closed`, `done`; three locks | `NewProxy`, `Serve` (two pump goroutines), `ensureReconnect`, `reconnect`, `Close`, `Done`, `Busy` | Chrome over an adb forward, one client |
| Local HTTP server (`server.go`) | the routes, the `/json/list` cache | `Start`, `RunWithProxy`, `WatchDeviceChanges`, `Stop`, the handlers | the proxy, Chrome, polling clients |
| Attached session (`session.go`) | a server and a proxy | start and its unwinding, `Close`, `Done` | both |
| Worker control (`worker_control.go`) | tables of sessions and recordings, attaches in flight, a limit, request counters | HTTP handlers, one watcher goroutine per session, `Stop`, `Snapshot` | sessions, recordings |
| Screen recording (`recording.go`) | the child per proxy, one path on the device | start, stop and pull | adb |
| Device watcher (`devices.go`) | the devices it knows, a channel of 16 | poll, compare, send | adb, one reader |
| Heartbeat (`worker_heartbeat.go`) | none | POST a snapshot every interval | worker control |
| Gestures, network (`gestures.go`, `network.go`) | a counter of ids | sequences of `sendUpstream` | the proxy |
| Enrichment (`enrich.go`) | one result under a lock | four parallel reads | adb |
| ADB wrapper (`adb.go`) | none; the adb server keeps the forwards | run adb, parse its output | - |
| Command line (`cmd/mobilebridge`) | signals, the session of this attempt | bridge with auto-restart, worker, watch | all |

What is hard, by component, and what makes it correct:

- **Proxy.** Two pumps, a second client, `Close` and the loss of the link all
  meet at `p.upstream`. Correct means: a connection is not closed under a write;
  one reconnect cycle at a time; whoever waits for a cycle is woken and learns its
  result; no connection is leaked or used after it is closed; a give-up is
  reported on `Done`; `Serve` admits one client and returns.
- **Gestures and frames.** A gesture takes the lock once per frame, so others come
  between, and any frame may fail; a client's frame may be replayed. Correct
  means: no finger is left down in silence, and every frame has one fate.
- **Worker control and recordings.** Every handler is a goroutine that drops the
  lock for its slow calls, races the watchers, and may fail half way. Correct means:
  the limit holds and slots come back; one request releases what it takes; a
  session's pointer to its recording can be relied on; a file holds its own video;
  a DELETE and `Stop` leave nothing behind.
- **Server.** The cache is looked up, fetched and stored in three steps, and
  emptied at any point between. Correct means: an old list is not served after a
  swap or a device event, or not for long.
- **Sessions and the bridge loop.** A port is free when it is looked for and
  somebody else's when it is used; every step of a start can fail; devices go away.
  Correct means: nothing of a session outlives it, a session talks to its own
  device, a signal always ends the process.
- **Device watcher.** The sends block in the middle of a comparison. Correct
  means: the events are an exact account, a reader catches up, cancelling ends it.
- **Heartbeat and enrichment.** A heartbeat is read in pieces from an adb that may
  hang. Correct means: its parts agree, a hung adb does not stop `Enrich`, and only
  a cancelled context or a failed POST ends the publisher.

`PROJECT.json` lists the places in the code where these bite, and the properties
for each.

## The modules

| Module | Models | Proofs |
|---|---|---|
| `Proxy` | `proxy.go` and the WebSocket handler of `server.go` around `Serve` | `ProxyProofs` |
| `UpstreamLink` | what a proxy promises of its upstream; `Proxy` implements it | |
| `Gestures` | `gestures.go`, `network.go`, and the pump of `Serve` that carries the client's frames | `GesturesProofs` |
| `FrameDelivery` | what a client is promised for the frames it sends; `Gestures` implements it | |
| `WorkerControl` | `worker_control.go` with the recordings it makes (`recording.go`) | `WorkerProofs` |
| `SessionPool` | what the worker promises of its sessions and its limit; `WorkerControl` implements it | |
| `Bridge` | `runBridge` in several processes, `session.go`, `NewProxy`, `Server.Start` and `Stop`, what adb keeps | `BridgeProofs` |
| `ListCache` | the cache of `/json/list`, `RunWithProxy`, `WatchDeviceChanges` | `ListCacheProofs` |
| `DeviceWatch` | `WatchDevices` and its reader | `DeviceWatchProofs` |
| `DeviceView` | what the reader of `WatchDevices` is promised; `DeviceWatch` implements it | |
| `Heartbeat` | `worker_heartbeat.go`, `Snapshot` and the counters, `enrich.go` | `HeartbeatProofs` |
| `MC...` | instances for TLC | |

`UpstreamLink` is what the models share. `Proxy` implements it; `Gestures` and
`Bridge` take their upstream to be such a link, with what each adds of its own (the
socket under it, the port it leads through), and `WorkerControl` keeps only whether
it was lost.

A definition whose name is `<definition>_<change>`, with a comment that begins
"Mutant", is a plausible mistake in the code it stands beside. It is no part of
the specification; with it in place of the definition a property is violated.

### Proxy

A goroutine is a program counter, and one action is one lock section, one blocking
call, or one step on a channel. `pc` says where each client's reader and writer
are: in their own loop (`top`, `reading`; `recv`, `send`, `writing`, ...), or in
`ensureReconnect` and `reconnect`, which either may run (`ensure`, `reconnect`,
`closeold`, `forward`, `dial`, `install` or `giveup`, `release` or `releasefail`,
`signaldone`). `main` is the handler with `Serve` in it, `closer` is `Close`.
`writeMu` and the read lock a write holds are one variable, `writing`; short
critical sections are atomic, and `CanLock` keeps the write side of `upstreamMu`
waiting for a write in flight. A gate channel is named by the goroutine that made
it. Connections are objects with a fate: open, past the read deadline that
`Serve`'s teardown sets (and nobody resets), lost, or closed by the program.

Frames have no content. What matters of a frame is whether its write fails, and
what the failed write was for: a first try (then reconnect), the replay (then
`Serve` ends) or a synthetic method (then its error reply).

### Gestures

Here frames do have an identity, and the locking is left to `Proxy`: a send is one
action, since it holds `writeMu` and the read lock throughout. `Script` is the
sequence of frames, waits and context checks of each helper; `left[a]` is what
goroutine `a` has still to do. A send arrives, fails, which ends the helper (and
sends no touchEnd), or is taken by a kernel that has not yet noticed the loss. The
`writer` is the pump of `Serve`: it forwards a plain frame, goes to
`ensureReconnect` when the write fails, and replays it once (`write`, `ensure`,
`await`, `retry`); for a synthetic method it runs the helper with a background
context and replies. `reader` is the other pump, of which it matters only whether it
still runs: `Serve` returns when both have ended (`proxy.go:475`). `late` says that the
connection is newer than the teardown under way, which has set no deadline on it.
`Callers` are goroutines of the embedding program; their
contexts may be cancelled. `finger` is what the page sees. When a connection
breaks Chrome may lift it or not; the code cannot know, so both happen. `alone`
and `excuse` are history. `FrameDelivery` is the client's view of the pump: the frame
in hand, those taken, and what became of each. `Hand` reads the first off the state of
`writer`; the replay, the wait for a cycle and the gesture in between are steps that mean
nothing to it.

### WorkerControl

One action per section under `s.mu` or `screenRecordMu`, and one per slow call in
between: attach (`Reserve`, `Start`, `Insert`, `Release`), release (`Pop`,
`CloseSession`, `ListRecordings`, `CleanOne`), start of a recording (`Pointed`,
`Lookup`, `ClearStale`, `Screenrecord`, `Register`), its stop (`FindRecording`,
`TakeScreen`, `Pull`, `Remove`, `Stat`, `ForgetRecording`), `DeleteRecording`, the
watcher, and `Stop` with its snapshots. `entry.recordingID` is read outside the lock:
the reads are steps of their own, and a torn string, which Go permits and net/http
recovers from, ends the request. Ids that nothing refers to may come back, which
stands for fresh ones. The proxy in a session is one variable, `bridge`, whose `Lose`
is the give-up of module `Proxy`. Sessions of a worker may be of one device, and all
recordings of a device share one path there: `remote` is whose video that path holds,
`Open` is the child opening it, and `video` is whose video a pulled file holds.
`mixed`, `cut` and `late` are history: recordings during which another opened the
path, recordings whose pointer another request took, and entries that came after
the release that would have taken them.

`SessionPool` forgets the handlers: it has the places held by attaches, the table, the
sessions a request has taken to close them, and the bridges that are up. `Entering`,
`Leaving` and `Up` read these off the handlers and bridges. A place held is not
`s.pending`, which stays up until the deferred release, after the session is in the
table: with that the sum could pass the limit for a moment.

### Bridge

`pc` walks one process through `runBridge`: resolve the device, probe for a free
port, ask for the DevTools socket, forward, connect, listen, record, wait for a
signal or the loss of the session, then stop the recording (after a signal only),
shut the server down, close the proxy, remove the forward, and pause for the next
attempt or end. Each start step has its failure with the unwinding the code does:
`Undo` is `NewProxy`'s, `Listen` that fails closes the proxy again. Processes share
`forwards`, the adb server's table, which replaces a mapping without complaint and
drops those of a device that is unplugged. A session's reconnect cycle
(`CycleForward`, `CycleDial`, `CycleGiveUp`) is a goroutine of its own that
`Proxy.Close` does not stop: those still in flight when their session is closed go on
as `orphans` of the process, any number of them, and forward again or end while later
sessions start, lose their own link and run cycles of their own. `by` remembers who
made a mapping, until adb refuses to remove it or an orphan makes it again; `shared`
which sessions had a port that another one had too.

### ListCache and DeviceWatch

`ListCache` tells a body apart by its status, the proxy it came from and how many
changes of the devices it has seen. A device that comes or goes changes what Chrome
lists at once (`DeviceChanges`), and empties the cache when `WatchDeviceChanges` takes
its event (`EventTaken`); `RunWithProxy` is two steps, the cache first and the routes
last. Time passes in ticks, and the list in the cache has an age of up to the TTL. A
list is stale by what it is (of another proxy, or fetched before a device event that
was handled), not by when the cache was emptied. `overlap`, `quiet` and `lull` are
history: the polls that overlap the last change, whether there was none, and how long
ago they were over.
In `DeviceWatch` a tick copies the list, visits the listed devices, then those
missing from it; the events of one device wait in `outbox` until the channel has
room, and the context may be cancelled at each send.

### Heartbeat

The publisher lists the devices, visits each (`Enrich`, then the DevTools socket),
reads the counters under the lock, and posts. `Enrich` is one goroutine per field:
its call returns or times out, a parsed value is stored under `mu`, and `record`
takes `mu` again. Meanwhile devices come and go, adb hangs and recovers (`Wedge`),
requests are counted, and the context may be cancelled; only `Enrich` bounds its
calls, so a hung adb holds up the list and the socket query until the context ends.

## The runs

| Run | Instance | Shows |
|---|---|---|
| `proxy` | 2 clients, 2 connections, 2 attempts; 1.9 million states | the proxy's safety invariants, and `ImplementsLink` |
| `proxy_live` | 1 client, 1 connection, 1 attempt | `CloseReturns`, `ServeReturnsOrStranded` |
| `proxy_close_releases`, `proxy_done_lost` | 1 client, 2 connections, 2 attempts | violated: see Findings |
| `worker` | 3 handlers, 2 sessions, limit 1, no recordings; 624 thousand states | `ImplementsPool`, `RoomReturns` |
| `recording` | 2 handlers, 1 session, 2 recordings; 2.1 million states | `TakenOnce`, `PointerExact`, `OwnVideo`, `Emptied` |
| `list_cache` | 2 pollers, 2 proxies, 2 changes of devices, a TTL of 2 ticks; 88 thousand states | `SweptOut`, `StaleSoonGone`, only 200s cached |
| `list_leak` | the same | violated: see Findings |
| `device_watch` | 2 devices, 2 states, 3 changes, a channel of 1 | `Accounted`, `ImplementsView`, `Settles`, `Ends` |
| `gestures` | 1 caller, the writer and the reader, all helpers but `flick`, 1 move, 2 frames, 2 breaks; 1.1 million states | `HeldWhileAlone`, `LiftedOrExcused`, `ImplementsDelivery`, `TeardownEnds` |
| `bridge` | 2 processes, 1 port, 2 devices; one named, one restarting, one recording, one device that is unplugged; 374 thousand states | `ReleasedAtRest`, `OwnDevice`, `MappingKept`, `SignalEnds`, `LossRestarts` |
| `heartbeat` | 2 devices, 3 reads in `Enrich`, 2 requests; 194 thousand states | `BeatExplained`, `Enriched`, `EndsWhenTold` |

`TypeOK` is checked once per module. `proxy` and `recording` use symmetry, which is
sound there: their model values appear in no definition but as elements of the sets
permuted, and no property of theirs is a liveness property. `recording` also has a
`VIEW`, `Live` in `MCWorkerControl`: states that differ only in what nothing reads any
more before it is written again (the owner of a deleted recording, the history of one
that has left) count as one. Each step, and each invariant of the run, depends on the
state through the view alone, so nothing is missed; without it the run has 9.2 million
states and holds as well.

Why the bounds are enough.

- *Proxy.* Two clients give the race for `busy` and a client that finds the link its
  predecessor left; each has two pumps, so up to two goroutines are in the reconnect
  code, all there can be in the program. Two connections let a pump hold the old one
  while a cycle installs the next. A third would add a second old one still held; the
  proofs cover it. Two attempts give one that fails and is retried, and a give-up.
  `proxy_live` leaves out synthetic methods and the loss of the forward to keep the
  graph small; a dial may fail without it. The forward and methods are in `proxy`.
- *WorkerControl.* A limit of one is reached with a single session, and with two a
  lost one and its successor are both there; three handlers are an attach that holds
  the slot, one that is refused, and a DELETE. Two handlers and two recordings give
  every pair of requests about one session, with the second recording the one that
  takes the pointer, the path or the child of the first. Between them the two
  instances fire every action.
- *Gestures.* One caller besides the writer gives every overlap of two gestures, two
  frames a frame and its successor, two breaks a replay that fails as well; a script
  with one move has a middle. A flick is a swipe with no pauses. The proofs cover it
  and the longer ones.
- *Bridge.* With one port the two processes are made to meet on it; with two the
  invariants and `MappingKept` were checked as well (5.7 million states) and hold. One
  process has `--device` and one resolves it, so both ways a lost device ends an attempt
  occur; with the named process restarting instead, everything holds as well.
- *ListCache, DeviceWatch, Heartbeat.* Two pollers give one in flight while another is
  served; two changes one that is handled while the next is not; two ticks a list that
  has aged and is asked for again, so that a hit that renewed it would show. A channel
  of one is full after a single event, and a change of state sends two. Three of
  `Enrich`'s four reads give two errors and a read that worked; the fourth adds another
  of these, and the proof covers it.

`CHECK_DEADLOCK FALSE` is set in one run, where the system may stop: `DeviceWatch`
ends with its watcher.

### Fairness

- `Proxy`: a goroutine that can go on does. Strong fairness is used where a lock has
  to be taken (`sync.Mutex` and `RWMutex` do not starve a waiter), weak fairness
  elsewhere. Reads of a socket, new frames, new requests, `Close`, a cancelled context
  and losses are never obliged to happen. A write, and `adb forward`, are taken to
  return; the code sets no deadline on either, and a socket that neither drains nor
  fails would hold `Close` up.
- `WorkerControl`: handlers go on (their calls return) and watchers are scheduled.
  Nothing obliges requests, losses or `Stop`.
- `Gestures`: sends return, timers fire, a cycle ends one way or the other (its
  attempts are bounded), `Serve` goes on to its teardown when a pump has ended, a read
  past the deadline the teardown set fails, and `Serve` returns when both pumps have
  ended. Breaks, frames, gestures and `Close` are not obliged to happen.
- `Bridge`: the loop of a process goes on: `adb forward`, the HTTP query and
  `Shutdown` return. Cycles are not obliged to end; no property needs it.
- `DeviceWatch`: the goroutine goes on and adb answers now and then; the reader goes
  on until it stops for good.
- `Heartbeat`: the publisher goes on where it can: `Enrich`'s timers fire, the POST
  has its timeout. Nothing makes adb stop hanging, and nothing obliges the ticker.

## What is proved

Each proof module has the same shape: an inductive invariant `IInv`, a lemma
per conjunct with one step per action (in `ProxyProofs`, per kind of step),
`InvariantHolds == Spec => []IInv`, and from it a theorem per property. All hold
for any sets and bounds that satisfy the named assumptions of the module, which TLC
evaluates in the runs; the assumptions only say that "none" values are none, that
bounds are numbers and that options are options of processes there are, but where
noted.

- **`ProxyProofs`** (`ConnsAssumption`, `AttemptsAssumption`): `TypeOK`, `OneServe`,
  `SingleFlight`, `NoLostWakeup`, `NoCloseDuringWrite`, `NoneLeaked` and `NilExplained`.
  `IInv` adds to these what they need of each other. `WritingHeld` ties the lock of a
  write to its pump, so that `CanLock` really excludes it. `CycleHolds` says that
  the upstream is out while a gate is up and that a cycle about to install has a
  connection. `OneOwner` says that `p.upstream`, the cycle and `Close` never have
  the same connection, without which closing one could hurt another. `CloserOrder`
  dates `closed` and `done`. `Refinement` is `Spec => ImplementsLink`, each step of
  the proxy mapped to one of `UpstreamLink` or a stutter. `LossAlwaysTold` proves the
  abstract invariant that the link is down only if it is over or owed, which
  `Proxy` inherits by the same steps.
- **`WorkerProofs`** (`HandlersAssumption`: finitely many requests and sessions;
  `IdsAssumption`: session ids and recording ids differ, which their prefixes
  ensure): `TypeOK`, `WithinLimit`, `TakenOnce`, `PointerExact`, `OwnVideo` and `Emptied`.
  `Slots` counts table and attaches together; `Tables` says an id is its handler's
  alone until it is in the table; `Screens` and `Pointers` say where a child and a
  session's pointer may be between two sections of a handler; `Leftovers` and `Path`
  do so for what a release has still to do and for the device's path. `Refinement` is
  `Spec => ImplementsPool`: `Tables` gives that a session which enters the table is
  nobody else's, and that the one who closes it closes it alone. `BoundedHolds` is what
  that pool promises of its numbers. `RecordingsLeaveRightly` is an action property: a
  recording goes by a DELETE of its own or of its session only. A DELETE lists ids
  under one lock and works them off under others; `OwnTodo` adds to `IInv` that an id on
  such a list is never one that another request is about to register.
- **`GesturesProofs`**: `TypeOK`, `HeldWhileAlone` and `LiftedOrExcused`, for gestures of
  any length, and the refinement `Spec => ImplementsDelivery`. `Gestured` says that a
  gesture lifts the finger with its last frame and only there; it is proved of the
  scripts and kept by every step of one. `Held` names the gesture that will lift a
  finger that is down; `Fated` separates the frames that have their fate from the one
  in hand, which is why a replay delivers no frame twice. `AccountedHolds` is the
  abstract promise, that nothing but the frame in hand is without a fate, carried over.
- **`BridgeProofs`**: `TypeOK`, `ReleasedAtRest` and `OwnDevice`. `Holdings` says what a
  session may hold at each place of the loop. `Exclusive` says that sessions that do not
  share have different ports, their orphans included; `Cycles` that the link is
  recovering exactly while a cycle of the session is in flight; `Mapped` that a port
  that is not shared leads to the session's device or nowhere; together they are why a
  cycle that forwards again comes back to its own device, and why `MappingKept` holds:
  who else writes the adb server's table writes it at another port.
  `AutoRestartPersists` is the safety beside `LossRestarts`: with `--auto-restart` a
  process exits on a signal alone, and is given up only where no device was named. It
  needs that the cause "signal" is never one that did not come (`Persists`).
- **`ListCacheProofs`** (`TTLAssumption`: the TTL is at least a tick): `TypeOK`,
  `SweptOut` and `StaleSoonGone`, for any number of pollers, proxies and changes and
  any TTL. `Current` says that a poll which does not overlap the last change is of the
  proxy that requests are routed to, and that what it fetched has seen every device
  event handled. `OldByOverlap` says that an old list in the cache therefore comes of a
  poll that did overlap it, and is at least as old as the last such poll is over, since
  nothing but a store makes a list young. The two properties are its two conjuncts.
- **`HeartbeatProofs`**: `TypeOK`, `BeatExplained`, `EnrichResult` (the safety half of
  `Enriched`) and `Ending` (that of `EndsWhenTold`). `Folded` says that a read that is
  over has left its field or its error and that the result collected so far agrees with
  these, so that an error is returned if and only if every read failed.
- **`DeviceWatchProofs`**: `TypeOK`, `Accounted`, and the refinement
  `Spec => ImplementsView`, for a channel of any capacity. `Told` says that the events in
  the channel and the outbox lead from the reader's view to the watcher's map through a
  sequence of views in which each event was true when its turn came. `Accounted` says
  it for one device by its last event alone (`Leaves`), which needs no induction over
  the channel: `SaysMore` and `SaysLess` are what an event sent and one received do to it.

Only model-checked: everything under fairness (`CloseReturns`,
`ServeReturnsOrStranded`, `RoomReturns`, `Settles`, `Ends`, `TeardownEnds`,
`SignalEnds`, `LossRestarts`, and the leads-to halves of `Enriched` and
`EndsWhenTold`), since TLAPS has no rules for it here; and the violated properties.

## Findings

Three properties are violated by the code, each stating what a comment or a
document says of it:

1. `Close` during a cycle leaves the connection the cycle then installs open
   (`proxy_close_releases`, `proxy.go:732`).
2. `Done` may be closed on a live proxy: the report of a give-up can come after
   the other pump's successful cycle (`proxy_done_lost`, `proxy.go:747`).
3. A list of the previous proxy is served after a swap: a poll in flight at
   `RunWithProxy` stores what it fetched after the cache was emptied (`list_leak`,
   `server.go:263`, against the comment at 184).

Other behaviour that the models show, and that their properties state as the
exception they allow:

- `Serve` may not return: its teardown sets the read deadline of the connection it
  sees (`proxy.go:466`); a cycle in flight installs another, and the reader blocks on
  it with `busy` set (`ServeReturnsOrStranded`, and `Stranded` in `TeardownEnds`).
- The deadline a teardown sets stays on a connection that outlives the client: the
  next client's first read fails and goes through a cycle.
- A list that a poll in flight stores after a swap or a device event is served until
  its TTL is over, and no longer than that after the poll is (`StaleSoonGone`).
- The worker forgets a session that is lost without closing it
  (`worker_control.go:509`; `docs/integration.md:200` asks that a session always be
  closed): its server and its forward stay as long as the process.
- A gesture that fails half way leaves the finger down (`LiftedOrExcused`), and one
  that runs beside another may find the finger lifted in between (`HeldWhileAlone`).
- All recordings of a device share one path (`recording.go:19`): one that starts while
  another runs or is pulled, from another session too, changes its video (`OwnVideo`).
- A request about one recording may clear the pointer to another, which can then not
  be stopped (`cut` in `PointerExact`).
- A recording or a session that enters its table after a DELETE or `Stop` has looked
  stays there (`late` in `Emptied`).
- While an attach is between `Insert` and `Release` it counts twice, so a worker
  with room may answer that it is full; the room comes back (`RoomReturns`).
- `--auto-restart` without `--device` exits when the cable is pulled, since resolving
  the device is fatal (`LossRestarts`, `cmd/mobilebridge/main.go:98`), and a session
  that is lost leaves its screen recording running (`ReleasedAtRest`).
- The port of a session may become another's, and a session then reaches the wrong
  device (`shared` in `OwnDevice`).
- `Enrich` keeps the first error; its comment (`enrich.go:24`) says the last. `Enriched`
  asks for one of the errors and settles neither.
- The heartbeat ends for good at the first POST that fails (`EndsWhenTold`).

## Not modelled

- The text that `parseDevices`, `parseDevtoolsSocket`, the parsers of `Enrich` and
  `rewriteFrontendURL` read and write: they are functions of one string that their
  tables of tests cover, and keep no state. Their callers see "parsed" or "failed".
- Requests that change no state of the server: GET of sessions, recordings and their
  content, `createTarget`, the token check; the listing commands and logcat.
- `screenrecord`'s limit of 180 s: the entry of its recording outlives the child
  either way.
- A `WriteMessage` that never returns. The code sets no deadline, so the models take
  it to return; where it does not, everything that needs the lock waits with it.
- Ids: collisions of gesture frames' ids with the client's, which depend on the
  client alone, and of random ids of four bytes.
- `RegisterMethod`: the table of synthetic methods is fixed, as it is once a program
  has started.
- The data race on `srv.Handler`, which `RunWithProxy` writes while requests read it:
  `ListCache` takes a request to see the old value or the new.
- TLS, logging, wording of errors.

What could still be added, in order of worth: a composition of `WorkerControl` with
several sessions of `Bridge`, so that ports and paths are shared between the
sessions of one worker as they are between processes; and more than one browser
tab, whose connections `Proxy` does not tell apart.
