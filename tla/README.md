# 2D Renderer: a TLA+ development

The repository is a browser drawing program (`renderer.js`) with a gRPC backend
(`backend/src`, C++) that stores projects, keeps sessions in Redis and lets
several browsers draw on one document by operational transform. This directory
holds TLA+ models of its core logic, the TLC configurations that check them, and
proofs for TLAPS.

Run a model with `tlc -config <run>.cfg <Module>.tla`, check a proof module with
`tlapm <Module>Proofs.tla`. `PROJECT.json` lists every run, what each definition
translates (file and lines), what is wrong with the code, and which hazards are
covered.

## 1. Inventory

| Part | Code | State | Operations | Correct when |
|---|---|---|---|---|
| Transform | `service.cpp` 22-62, 387-393; `renderer.js` 977-1000, 1072-1075 | none | `needs_ot`, `ot_transform`, `transformOp`, their loops | both sides agree; an operation is cancelled exactly when what it draws on or deletes is gone |
| Collaborate handler | `service.cpp` 320-421 | one `transformed`, the queue `pending`, `done` | read, commit, ack, broadcast, teardown | a revision means one operation for everyone; nothing is lost or doubled |
| Redis use | `redis_client.cpp` | one command connection under a mutex; one connection and thread per subscriber | `ot_commit` (Lua: LRANGE, RPUSH), PUBLISH, SUBSCRIBE, SET/GET/DEL | window and revision come from one atomic step; errors are noticed |
| Browser client | `renderer.js` 970-1123 | `ws`, `localRevision`, `pendingOps` | `connect`, `disconnect`, `send`, `onMessage`, `applyRemoteOp` | pending operations are the unacknowledged ones; revisions only advance; replicas converge |
| Rooms | `storage.cpp` 255-321 | project -> room; room -> subscribers; two kinds of mutex | `get_or_create`, `subscribe`, `unsubscribe`, `cleanup_empty` | everybody gets in and out; rooms go when they are empty, and not before |
| Project store | `storage.cpp` 104-250, `service.cpp` 138-250 | two files per project, a mutex | `save`, `load`, `list`, `count`, `remove`, `rename` | calls are atomic; the files agree; crashes leave something a save repairs |
| Sessions | `storage.cpp` 59-99, `service.cpp` 87-133, `redis_client.cpp` 66-125 | Redis keys with a time to live, the servers' clocks and connections | `create`, `validate`, `auth` | honoured until expiry and no longer, by every server; a session ends once |
| Layers and history | `renderer.js` 149-409, 553-565, 708-823 | layers with undo and redo stacks, `activeLayer`, the gesture, the text box | layer buttons, gestures, undo, redo, clear, remote operations | indices are valid; undo and redo are inverse |
| Flood fill | `renderer.js` 488-525 | `visited`, a stack | one call | fills exactly the connected region |
| Export | `service.cpp` 255-307 | none | compositing of layers | colours stay between those of the layers, coverage never shrinks, an opaque layer hides what is below |
| JoinRoom | `service.cpp` 426-462 | a queue | wait, write | observers get everything published |
| Server process | `server.cpp`, `service.cpp` 67-82 | `g_server`, the detached housekeeping thread | start, shutdown by signal | calls end, the process ends, nothing is used after it is destroyed |
| Demo client | `client.cpp` | token, project id | ten calls in a row | it ends, and leaves no project behind |
| Presentation | `renderer.js` (pan, zoom, colours, panels), `index.html`, `style.css` | view state | | |
| Build, wire types | `CMakeLists.txt`, `build.sh`, `renderer.proto` | | | |

How they interact. Each browser talks over a WebSocket to a bridge that is not in
the repository and that forwards messages to `Collaborate`. The handler's thread
reads; operations that change the document are committed by one Lua script to
the project's log, transformed against what the script returned, queued for the
sender, and published on the project's channel. Each stream's subscriber thread,
on a Redis connection of its own, queues what is published; the stream's writer
thread sends what is queued. Streams enter and leave a room, whose only use is to
own the subscribers; a detached thread sweeps rooms every ten minutes. Every call
looks its token up in Redis first, over one connection that the whole process
shares and never reopens; several processes may share one Redis. Signals run
gRPC's `Shutdown` inside the signal handler. The project store shares nothing with collaboration: saving is up to the client.

Hard behaviours: commit, acknowledgement and publication are separate steps of
concurrent handlers; three threads per stream meet on a queue with an unguarded
flag; mutexes are held over network calls; the two files of a project are written
one after the other by a process that may die; the browser's handlers throw
half-way; most error returns are ignored; clocks of several processes decide when a
session is over; a signal may interrupt the thread that its handler then waits for. `PROJECT.json` lists each hazard at its
line with the properties aimed at it.

## 2. Modules

| Module | What it is | Composes |
|---|---|---|
| `OT` | the transform, as operators | |
| `OTLaws` | its laws, over every operation and window | `Canvas` |
| `Canvas` | the part of the browser's document that collaboration touches | `OT` |
| `Collab` | browsers, handlers, log and channels | `Canvas` |
| `Sequencer` | abstract: one growing sequence per project, clients told only the truth | `OT` |
| `CollabHistory` | `Collab` with history variables; liveness; the refinement | `Collab`, `Sequencer` |
| `CollabClaims` | what comments say of the protocol | `Collab` |
| `StreamThreads` | inside one stream: reader, writer, subscriber | |
| `Rooms` | registry, rooms, sweep | |
| `Server` | the process around them: main, signals, Shutdown, housekeeping | `Rooms` |
| `Sessions` | sessions in Redis, made and checked by several processes | `SessionTable` |
| `SessionTable` | abstract: a session lives once; a check tells what was true while it was made | |
| `Export` | the compositing of layers, as operators | |
| `Client` | the demo client over all the calls, on what the stores promise | `Export` |
| `Projects` | the store's two files and its callers | `ProjectTable` |
| `ProjectTable` | abstract: a table with atomic calls | |
| `History` | layers, undo, gestures of the browser | |
| `HistoryClaims` | what the documents say of undo | `History` |
| `OTProofs` | theorems about the transform; induction and recursion over the naturals | `OTLaws` |
| `CollabProofs`, `ProjectsProofs`, `StreamProofs`, `ServerProofs`, `SessionsProofs`, `HistoryProofs`, `ClientProofs` | theorems about the module of the name (`ClientProofs`: `Export` too) | that module |
| `MCCollab`, `MCCollabHistory`, `MCStreamThreads`, `MCServer`, `MCSessions`, `MCClient`, `MCProjects`, `MCHistory` | constants and symmetries for TLC | |

### The transform: `OT`, `OTLaws`, `Canvas`

An operation is a record of the fields the protocol reads: type, layer, target
position of a move, session, base revision, revision, and `n`, the sender's count,
which no code reads and which lets properties tell operations apart. The loops are
recursive functions (not operators), so that they can be proved about. A canvas is
a function from the layers that exist to the strokes on them; a stroke stands for
its pixels. Remote LAYER_ADD and LAYER_MOVE change nothing, as in
`applyRemoteOp`, and `deleteLayer` keeps the last layer.

### The protocol: `Collab`

One action per handler: in the browser `connect`, `disconnect`, `send`,
`onMessage`; in the server, per stream, `Join` (first read, session, room,
subscription), `Reject`, `Greet`, then per message `Forward`, or `Commit`,
`CommitFails` or `ReplyLost` followed by `Ack` and `Broadcast`; `Leave`; and
`Deliver` for the subscriber thread. `inbox`, `channel` and `out` are FIFO queues:
client to handler, publisher to subscriber, and the handler's queue with writer and
wire. The commit is one action because the script is atomic in Redis and the
transform that follows touches nothing shared; acknowledgement and broadcast are
actions of their own, because others can act between them.

- The token is what a client sends as `session_id`, and what the server validates;
  the session has an id besides. `Token` and `SessionId` are therefore distinct
  values, and `Deliver` compares as the code does.
- protobuf's default 0 may or may not be written into the JSON by the bridge;
  `EmitZero` says which, and runs take both values (`TRUE` in `collab_order` and
  `collab_faults`).
- `send` applies the operation to the sender's own canvas first, as the wrapper of
  `endDraw` does; `sendLayerDelete` and `sendCanvasClear` have no caller in the
  repository and are taken to be used the same way.
- Layers have names, and in the code each browser makes up its own:
  `createLayer` takes `Date.now() + Math.random()`. So an operation from elsewhere
  names a layer that no lookup of `applyRemoteOp` finds, and strokes, deletions and
  clears of others never reach a canvas. `LayersOf` says which names each
  canvas starts with. `collab_live`, `collab_reconnect`, `CollabSees.cfg` and `CollabBase.cfg` give every
  browser a name of its own, as the code does. `collab_order` and
  `collab_faults` let browsers share one: there is no other way for `PaintedInOrder` to
  be about two browsers at all, so that it says what the protocol would do for
  browsers that agreed on names; and in `collab_faults` shared names let operations of
  different clients cancel each other, which only makes more happen (with private ones
  the instance is too large). The server never looks whose layer it is, and the theorems
  are for any `LayersOf`.
- In JSON a layer's name is a number and in protobuf a string, and an order of 0
  is a default; what the bridge, which is not in the repository, makes of either is left out.
- `connect` and the socket's `onopen` are one action. Until it opens `send` returns at
  once, so what is drawn meanwhile is like what is drawn before `connect`; a socket
  that never opens is a `connect` that did not happen, but for the project's name
  that `send` puts into messages of a socket that is still open.
- What may fail is the constant `Events`: disconnects, rejected sessions,
  subscriptions that fail or break, commands Redis refuses, a command connection
  that breaks (it is never reopened), a crash of the server. Redis itself keeps
  what it has. There is one server process.
- Session expiry is a choice at `Reject`; room entry is instantaneous (see `Rooms`).

### Threads: `StreamThreads`

A critical section of `write_mu` is one action, except that the writer's test of
its predicate and its sleep are two: neither `done` nor a notification needs the
lock, and that is where one is lost. The destructor calls `redisFree` on a context
another thread reads from. On Linux close() does not wake a thread that sleeps in recv():
it sleeps on until a message or an error wakes it. `ReadFails` is therefore a step
that may happen and need not (it has no fairness), and `Unwoken` names the state in which
the handler waits in its last join for such a thread.

`call` says whose stream it is. JoinRoom reads nothing and its handler is its own
writer, so that there the reader waits for the writer from the start; its callback
notifies after it has given up the lock (`push`, then `NotifyOne`). Its loop takes
the queue also when it is empty, and then writes nothing: `Take` starts over.

### Rooms and the process: `Rooms`, `Server`

`get_or_create` is one action (nothing can block in it); a room's mutex is taken in
`subscribe` and released in `Subscribed`, because connecting to Redis lies between;
likewise for `unsubscribe` and the join in the destructor. The sweep holds the
registry's mutex from `StartSweep` to `EndSweep`, looks at rooms one by one, and
erases after it has let go of the room's mutex.

`Server` runs them in a process. `main` goes from its configuration to its exit, in
the order in which `server.cpp` makes and destroys things. `Signal(x)` interrupts
thread `x` and runs `signal_handler` on it: swallowed before `g_server` is set,
undefined after the server has been destroyed, else a `Shutdown`, during which `x`
does nothing else. Shutdown is gRPC's, modelled from its contract: no new calls,
cancellation at the deadline, waiting for the calls that are left; it holds a mutex
that is not recursive, so a second signal waits, for ever if it is on the same
thread (`stuck`). Cancelled streams leave their loop (`End`), which `Returns` of
`StreamThreads` justifies; whether they get past the join in `Disconnect` is open there,
and here: `Hangs` says that one does not. The housekeeping thread sleeps as long as it likes
and does not know whether the service is still there; when it uses a
service that has been destroyed, `main` is `"undefined"` and nothing happens any more.

### Sessions: `Sessions`, `SessionTable`

Each process has a clock that is ahead of Redis's by a constant of its own (none is
set, and none drifts, while the behaviour lasts), and a
connection that works or does not. Any command may also get an error for an answer:
a SET that fails stores nothing and the caller is told of success, a GET that fails finds
no session, and a DEL that fails leaves the key where it is, which nobody notices. A call
stamps a session (`Stamp`) and stores it (`set`) in two steps, and checks it in up to
three (`get`, `validate`, `del`), so that keys may expire, clocks tick, connections
break and processes restart in between. `SessionTable` is what is promised of
them: a session begins, and ends, once; a check that answers "valid" began while the
session lived, one that answers "invalid" ends when it does not. The caller hears no
more than valid or not; the model tells apart why not, because only some refusals mean that
the session is over: there is none, or this check deleted it (`"invalid"`). A
check whose GET failed (`"unanswered"`), or that took the session for expired and failed
to delete it (`"expired"`), promises nothing (`Doubt`): another process, slower, may honour
the token afterwards. A token is
asked for only when the call that made it has returned. The mapping takes
a session to live from the moment its key is in Redis until the key is gone.

### Export and the client: `Export`, `Client`

A pixel is a colour and an alpha; `Composite` is the set of pixels that the layers
may leave, since float rounding is left to the compiler. What is
possible was found by running the compiled loop over all pairs of colour and alpha, with
and without fused multiply-add: alphas come out exact; a colour is its exact value
truncated, but one lower may come out when that is a whole number, and one higher when
it is within 4/100000 of the next.

`Client` is the walk of `client.cpp` through all calls, over a table of projects
whose calls are atomic (`ProjectTable`) and a session that ends once
(`SessionTable`). Other users save too, under any id: `SaveProject` asks neither whether
there is a project of that id nor whose it is, so that theirs may replace the client's, whose
calls are then denied; `lost` remembers which. The client itself names no id and gets a new one. A call is sent, admitted (`auth`), served and answered; it or its
answer may be lost at any point. In place of the demo's picture it saves any
document of `Document`, which gives `Export` its inputs.

### The store: `Projects`

A call takes the mutex and then writes file by file (`WriteBin`, `WriteMeta`), so
that crashes and failed writes fall between and into writes. A file is missing, torn (does
not parse), a message, or a message cut off where it still parses; an empty file
parses as a message of defaults. A document is reduced to owner, name and
`updated_at`. `now_ms` is the system's clock, which may be set back; that is one of
the faults. `list` answers with all of a user's projects: sorting and paging
select among them.

### The browser: `History`

Exceptions end a handler where they are thrown: `beginDrawThrows` is `beginDraw` up
to the snapshot that throws, and `clear` then does nothing. A layer's pixels are the
marks made on it since it was last wiped. An entry of a stack is a full image or a
delta, and `encodeDelta` on a full top entry throws. Enter and Escape hide the text
box with its text; the blur that may follow commits again.

## 3. Runs

Passing runs; every property has a mutant of the code in `PROJECT.json` that it
catches.

| Run | Bounds | Shows |
|---|---|---|
| `ot_laws` | 3 layers, positions 0-2, windows up to 2 | browser = server; `CancelledExactly`; pairs with an erasure commute |
| `collab_order` | 2 clients, 2 + 1 strokes, a connection each, a layer they share | `PaintedInOrder`, `NothingMissed` |
| `collab_reconnect` | 1 client, 2 operations, 2 connections, 2 projects, every fault | `LoggedOnce` |
| `collab_faults` | 2 clients, a stroke, delete or clear each, a layer they share, refused commands, broken connection, crash | `StampedFromLog`, `ImplementsSequencer` |
| `collab_live` | 2 clients, a stroke each, fairness | `EverySendIsLogged`, `EveryoneLearns` |
| `stream` | either call, 3 messages, fairness | `NothingLost`, `StackOutlivesThreads`, `Returns`, `Sent` |
| `server` | 2 streams, 2 projects, 2 signals on main, housekeeping or a stream, fairness | `NoGhosts`, `NoCallOutlivesService`, `ShutsDown`, `GetsThrough`, `RoomsAreSwept` |
| `sessions` | 2 processes, clocks 0 or 1 apart, 2 threads, a token, a TTL of 2, 6 instants, failing commands | `HonouredWhileFresh`, `RefusedWhenStale`, `ImplementsTable` |
| `client` | 2 projects, documents of 2 layers (3 colours, 4 alphas, invisible, misfit), another user who saves over any | `CleansUp`, `ExportInHull`, `ExportCovers`, `EndedIsInert` |
| `projects` | 2 threads, 2 users, 1 project, 2 names, 2 instants; crashes, failing writes, a clock set back, combined as `Combinations` says | `FilesAgree`, `ImplementsTable`, `MetaFollowsBin`, `SaveRepairs`, `OwnerBySave` |
| `history` | 3 layers, 2 marks, 5 tools, 2 points, stacks of 2 | `ActiveExists` |

One run is a violation of what the repository says of itself, quoted in
`PROJECT.json`: `history_undo` (`UndoRestores`). Section 4 lists the others.

`FilesAgree` and `ImplementsTable` are about behaviours in which neither the process
nor a write fails (`Sound`), `SaveRepairs` about those in which no write fails,
`MetaFollowsBin` about those in which moreover the clock is never set back
(`Steady`); the variable `faults`, chosen at the start, says which a behaviour is.

Why the bounds suffice. Two handlers with an operation each already interleave
commit, acknowledgement and broadcast in every way; two operations of one client
are needed for order, and for one project of one client to be switched to another.
Three queued messages let the writer have one,
the queue another, and a third arrive. Two streams let one leave a room, or lose it
to the sweep, while the other enters; two signals can hit the same thread, or two. Two processes
and two instants of validity let one find a session expired while the other holds it
for good; sessions do not touch each other, so that one token is enough. Two layers show every
step of the compositing, whose state between layers is one pixel; a document of three
adds nothing but a second step of the same kind (the theorems of `ClientProofs` are for any number). One project id is enough for the store, whose
calls touch one project each, except `list` and `count`, which only collect.

`CHECK_DEADLOCK FALSE` where a system may stop: when the bounded operations are
used up (`Collab`, `History`), the stream has returned (`StreamThreads`), the process is
over (`Server`) or the client is done (`Client`).

Fairness. Browser event loops, handler threads and subscriber threads keep running:
weak fairness of `onMessage`, `Handler` and `Deliver` per stream. Users and faults
are never forced. In `StreamThreads` threads are scheduled and the timer of
`wait_for` runs; nothing makes a read on a closed connection end. In `Server` main, the housekeeping thread and gRPC go on, a
cancelled call leaves, and connecting to Redis returns; joining a subscriber's thread
(`Disconnect`) need not; clients never leave of
themselves, and nobody sends a signal. A mutex that is free again and again is had in the end
(strong fairness): sweeps are ten minutes apart, and calls hold mutexes for a
network round trip.

Liveness of a process that may be shut down has to say what a signal in the wrong
place does. `Entangled` names it: Shutdown waiting for its own mutex, for a stream
whose thread it has interrupted, or for one that waits for a sweep it has
interrupted. `Hangs` names the other thing that may keep everything: a stream that
joins, with its room's mutex held, a subscriber that nothing wakes; a sweep that comes to this room
waits with the registry's mutex held, and then nobody gets in. `ShutsDown`, `GetsThrough` and
`RoomsAreSwept` hold unless one of the two happens; `Returns` holds but for `Unwoken`. What they show
is that nothing else goes wrong: no missed notification, no order of the mutexes, no sweep.
`Hangs` can happen in the code as it is, and `ClosingWakes` (section 4) is why.

## 4. Where code and documents disagree

Besides the violation run, TLC refutes these claims, each a definition of the
module named, on the smallest instance given. They are kept out of the runs so that
the runs stay few. The first four have a cfg of their own: `tlc -config CollabSees.cfg
MCCollab`, `CollabBase.cfg` with `MCCollab`, `StreamWakes.cfg` with `MCStreamThreads`,
`HistoryGesture.cfg` with `HistoryClaims`. Naming one of the others as an INVARIANT or PROPERTY of the
cfg given shows it.

| Claim | Instance | What happens |
|---|---|---|
| `EveryoneSees` (`CollabClaims`) | `CollabSees.cfg` | every browser makes up its layers' names (renderer.js:150), so that `applyRemoteOp` finds no layer an operation of another names (1007, 1030, 1035): what others draw is on nobody else's canvas; renderer.js:967 "Incoming remote ops are transformed against any local pending ops before being applied" |
| `BaseWithinLog` (`CollabClaims`) | `CollabBase.cfg` | `connect` keeps `localRevision` when the project changes (renderer.js:1085): an operation claims to follow a revision its project does not have; renderer.js:963 "what revision the client was at when the op was made" |
| `ClosingWakes` (`StreamThreads`) | `StreamWakes.cfg` | close() does not wake a thread that sleeps in recv() on Linux: the join after it, and the room's mutex held meanwhile, last until something else wakes it; redis_client.cpp:58 "Closing the context wakes the blocking redisGetReply" |
| `GestureLeavesStep` (`HistoryClaims`) | `HistoryGesture.cfg` | a second gesture's snapshot throws (renderer.js:238) and leaves no step to undo; renderer.js:16 "max undo steps per layer", 40, and memory_optimization.txt:61 "The stack is capped at MAX_UNDO = 40" |
| `OwnAnsweredOnce` (`CollabClaims`) | that of `collab_live` | a client gets its own operation twice: the filter compares the session's id with the token the message carries (storage.cpp:271; redis_client.h:17 "except messages whose session_id matches own_session_id") |
| `OthersCommute` (`OTLaws`) | that of `ot_laws` | two strokes on one layer are returned unchanged and leave different pictures in the two orders; service.cpp:59 calls such pairs commutative |
| `RevisionAdvances` (`CollabClaims`) | that of `collab_order` | an acknowledgement or echo that arrives after a later broadcast sets `localRevision` back (renderer.js:1068) |
| `UnreadIsPending` (`CollabClaims`) | that of `collab_order` | acknowledgement and echo of one operation each shift `pendingOps`, the second taking one the server has not read (renderer.js:1067) |
| `CancelledIsNowhere` (`CollabClaims`) | `collab_order` with clears | a cancelled stroke stays on its author's canvas: its acknowledgement is dropped unread (renderer.js:1066) |
| `SentIsCommitted` (`CollabClaims`) | `collab_live` with refused commands | a refused commit is acknowledged and broadcast with revision 0 (service.cpp:385) |
| `PaintedOnce` (`CollabClaims`) | `collab_live` with refused commands, `EmitZero = FALSE` | that acknowledgement has no revision in JSON, and its author paints the stroke again (renderer.js:1066) |
| `PaintedInOrder` (`Collab`) | `collab_order`, `MaxConn = 2` | a browser that opens a second socket to its project leaves the first one open, and paints what both bring: the strokes of others twice (renderer.js:1085) |
| `BaseIsKnown` (`CollabHistory`) | that of `collab_order` | a client's base revision covers an operation still on its way to it |
| `RedoRestores` (`HistoryClaims`) | that of `history_undo` | redo brings back the picture from before (renderer.js:300) |
| `Flushed` (`StreamThreads`) | that of `stream` | `done` ends the writer before it flushes (service.cpp:361) |
| `OneRoomPerProject` (`Rooms`) | that of `server` | a sweep between `get_or_create` and `subscribe` splits a project over two rooms (storage.cpp:316) |
| `SignalsEndIt` (`Server`) | that of `server` | a signal before `g_server` is set is swallowed (server.cpp:53), and two may entangle; performance_optimization.txt, section 12: "On SIGINT / SIGTERM the server calls" Shutdown, and "Without a deadline, a hung bidi stream would prevent the process from ever exiting" |
| `NothingFreedIsUsed` (`Server`) | that of `server` | the detached thread sweeps the rooms of a service that is gone (service.cpp:81); a signal after the server is gone uses `g_server` (server.cpp:53) |
| `TransparentVanishes` (`Export`) | as an invariant of `client` | a layer that is fully transparent may darken what is below by one (service.cpp:295) |
| `ZeroConfirms` (`Client`) | that of `client` | "Confirm deletion" (client.cpp:256) prints a total of 0 also when the call failed and the project is still there (client.cpp:123) |

## 5. Theorems

Checked by TLAPS, for any values of the constants that fit the modules'
assumptions: any sets of clients, projects, layers, threads and users, any bounds,
any faults. (`IsFiniteSet(Id)` is only there so that projects can be counted.)

- `TypesOfCollab`: `Spec => []TypeOK`. `TypeOK` is not inductive, because `Greet`
  takes the head of an inbox; `IType` adds that handlers about to greet have
  their first message, and that a canvas is a function on some set of layers.
- `RevisionsOfCollab`: `Spec => []StampedFromLog`, what `collab_faults` checks
  on a small instance. The inductive invariant `IStamped` adds that clients
  send no revision (`Unstamped`: so what is forwarded or acknowledged after an error
  carries none) and that a stream that does not exist yet has nothing on its way
  (`Fresh`: so opening it for some project cannot give old messages a new log). The
  argument: a log only grows, and the meaning of revision r depends on its first r
  entries (`StampedPersists`); what the script returns to a commit is exactly the window
  that defines the new revision (`CommitIsStamped`); everything else moves stamped messages.
- `CollabIsSequencer`: `SpecH => ImplementsSequencer`. From `IStamped` too: a step
  appends to one log (`LogGrows`), or a client takes a message whose revision means
  what `StampedFromLog` says (`MessageTeaches`), or the sequencer does nothing.
- `OperationsLoggedOnce`: `Spec => []LoggedOnce`, by `IOnce`. A client's numbers
  never repeat, over all its connections: what is in an inbox or in a log is numbered no
  higher than what its client has sent (`Signed`, `LogSigned`), so a new operation is
  in no other place (`PutKeeps`); an inbox only loses its head, or everything
  (`ShiftKeeps`); and what goes into a log leaves its inbox in the same step (`PushKeeps`).
- `StrokesKeepTheirOrder`: `Spec => []PaintedInOrder`, if every client connects once
  and its own strokes always come back with a revision (`AlwaysRevised`: the bridge
  writes zeros, or Redis refuses nothing; section 4 has what happens otherwise). It is about browsers that have layers in common, if any have. For
  each pair of a reader and an author of another client, `Ordered` is a chain: the
  author's strokes on the reader's canvas, then those in the reader's queue, in the
  channel, in the author's handler's hand, in its inbox, and what has been sent, each
  numbered below the next. Every step moves strokes one link on. A client's own
  strokes are painted when sent and never again (`AllAnswered`).
- `NothingIsMissing`: `SpecH => []NothingMissed`, if streams last (`StreamsLast`:
  sessions may be rejected and commits refused, but broken connections and crashes lose
  messages). It is about what clients are told, so that it does not matter
  whose layers are named, or what kinds of operations there are. `IDelivery` says
  where an operation is that was logged after one of the client's own: told, in its
  queue, in its channel, or in the hand of the handler that committed it and will
  publish it. The operation logged before it is what makes sure that the
  client was subscribed in time: whose operation is logged has a live stream. At rest
  only being told is left. Any number of connections, projects and clients.
- `OTProofs`: the loops over windows of any length are what unrolling them gives
  (`TransformAllUnrolls`), keep every set of operations a single transform keeps
  (`TransformAllType`), and are the same in browser and server (`TransformsAgree`,
  `PendingIsAll`). The provers cannot use the library's induction theorems, whose
  parameter is an operator; `SetInduction` and `Recursion` have them for sets and functions.
- `BrowserTransformsAlike`, `CancelledWhenErased`, `ErasingCommutes`, there too: the
  three laws that `ot_laws` checks, for any layers and positions, any operation and
  windows of any length. The second is by induction on the window; that nothing
  revives a cancelled operation is a property of each step. The third asks for
  more than two layers, as its run does: with two, `deleteLayer` keeps the last, and
  which that is depends on the order. `CollabProofs` and `ClientProofs` use lemmas
  of `OTProofs` through an INSTANCE that fixes what these lemmas do not mention.
- `ProjectsProofs`: `TypesOfProjects` (`TypeOK`, inductive as it is: who has
  something to write holds the mutex, so at most one thread does: `OneBusy`), and
  one inductive invariant for each property of the two files. `FilesAlwaysAgree`
  by `Agree`: a job writes the same to both, and only the project of a job between
  its two writes may differ. `OnlySavingChangesOwners` by `KeepsOwner`: what a
  rename or a removal is going to write names the owner already in the document.
  `ListNeverAhead` by `Ordered`: jobs write times of the past, and the document, which
  goes first, is at least as new as the old sidecar and the new, unless the clock is set
  back. `SavesRepair` by `Saving`. The last two hold across any crashes; owners across
  failed writes too.
- `StoreImplementsTable`: `Spec => ImplementsTable`. Every
  step is one call of `ProjectTable` taking effect, or none. A call that writes
  takes effect with its last write (`WriteMetaMaps`); one that reads finds the mutex
  free, so by `Agree` it does not matter which of the files it reads (`LoadMaps`).
  `Meaning` adds that what a job is about to write is a project of its user.

- `StreamProofs`: `StreamLosesNothing` and `StackIsLeftLast` from `QInv`, which
  adds that a batch is in hand exactly while the writer writes (so a new one never
  replaces one that is not written) and that the handler goes past each join only
  when the thread is gone. `PushKeeps`, `TakeKeeps` and `WriteKeeps` say that
  what is written, taken and pending is one line that only grows at its end.
  Neither asks whether the subscriber is woken: that decides whether the handler returns,
  not what is true when it does.
- `ServerProofs`: `RInv` is about rooms alone and kept by every step of `Rooms`. It
  adds `Locks` (who is between a room's critical sections holds its mutex) and
  that rooms are no more than the streams that have passed `get_or_create`. `SInv`
  adds `Guarded`: no calls before main serves, none once Shutdown has notified. Each
  step of the process is a step of the rooms or none. Hence
  `TypesOfServer`, `ServerHasNoGhosts` and `ServiceOutlivesCalls`, the last without
  any assumption on signals or fairness.
- `SessionsProofs`: `Stamps` bounds `expires_at` and what Redis keeps by the time at
  which a session was made, and `Story` says that a session is stored before anyone
  asks for it, goes only when its time is over by some clock (`Over`), and that who got
  it asked while it was there. `StaleAreRefused` and `FreshAreHonoured` follow.
  `SessionsTellOneStory`: `Spec => ImplementsTable`, one lemma per
  action. A check takes effect when it is answered; `Tick` ends all sessions
  that Redis drops, and deleting an expired one ends it only if Redis deletes it and it was
  still there. A check that fails to delete leaves the session as it was and promises nothing.

- `HistoryProofs`: `HInv` makes `TypeOK` inductive and adds what makes indices and stacks
  safe: the active index names a layer whatever is deleted, remotely and in the middle
  of a gesture (`ActiveAlwaysExists`); and points are only added while the buffer has
  room for them (`TypesOfHistory`). It also says that a stack is empty or one full picture, which
  is no promise of the code but what the snapshot that throws leaves of it: as the code is, whatever
  `MAX_UNDO`, a layer has one step to undo or redo.
- `ClientProofs`, one pixel: `MeanStays` and `BlendFacts` say that one layer drawn over a
  pixel keeps the colour between the two, but for 1, and the alpha no less than either;
  `CompositeIsSound` carries that over any number of layers, by induction; `CompositeHides`
  follows two documents, with and without what lies below an opaque layer, which leave
  the same pixels from that layer on. All for every way the roundings may go.
- `ClientProofs`, the walk: `IClient` says where main may be (`Ways`), that the id it
  has is of the only project it may own, which others may have saved over (`Saved`), where
  it has none (`Bare`), and that an exported picture is one of the stored document
  while that is the client's (`Pictured`). Hence `TypesOfClient`, `ClientCleansUp`, `ExportStaysInHull` and
  `ExportHidesAndCovers`. `EndedStaysInert` is a temporal formula: for every set of
  projects, a state in which the session is over, the user has these, but for what others have
  saved over, and no call but ValidateSession is admitted, is followed by such states only.

Every invariant and every action property that a run checks is stated by one of these
theorems, two of them under hypotheses that the runs meet: `StrokesKeepTheirOrder`, as
section 4 shows that it must, and `NothingIsMissing`, since nobody is told again what a broken
connection or a crash has lost. Only model-checked: liveness (`EveryoneLearns`, `EverySendIsLogged`,
`Returns`, `Sent`, `ShutsDown`, `GetsThrough`, `RoomsAreSwept`), which these provers do not reach.

## 6. Not modelled, and the plan

Not modelled: the interceptor that logs calls, ports, message sizes and keep-alive of
`server.cpp`, which configure gRPC; sorting and paging of a list; the
hash of a token and the making of ids, taken to be unique; pan, zoom, colours and
panels of the browser; build scripts. `active_streams_` is only printed.

Next modules, most important first:

1. `Replicas`: `Collab`'s canvases at rest, with names of layers as `LayersOf`
   has them. When do all agree (shared names, no
   loss, no concurrency with deletes, two layers at least), and where they cannot.
2. `FloodFill`: the stack against the connected region; the claim that no pixel is
   pushed twice.
3. `Gestures`: pointer events with pan and zoom, and the wrapper that sends strokes.
4. `Paging`: pages of a list while projects are saved and renamed between them.

Next theorems: the order of the mutexes in `Rooms` and `Server`, so that whoever waits is
waiting, in the end, for somebody who does not (the safety half of `GetsThrough`); `PaintedInOrder` for clients that connect again only when their last
socket is gone; how much a transparent layer may darken (`TransparentVanishes` fails by
how many steps); what `Sent` rests on, that a writer asleep beside a full queue has its
timer running; and, with `Replicas`, that canvases at rest agree.
