# A verification model of caterm

caterm is a terminal multiplexer: a daemon (`src/caterm`) keeps shells in a hierarchy of
sessions, windows and panes, clients command it and follow its events over a Unix socket,
and a relay server (`src/caterm-relay`) carries requests and answers between a daemon and
clients elsewhere. This directory holds TLA+ modules translated from the Rust source, TLC
configurations that check them on small instances, and proofs that TLAPS checks.
`PROJECT.json` says for every definition which lines it stands for, for every property which
run checks it, and lists the hazards of the code at their lines.

    tlc -config MCSessionTree.cfg MCSessionTree      # any run of PROJECT.json
    tlapm SessionTreeProofs.tla                      # the proofs, module by module

## 1. The system

| Component | Source | State | Operations |
|---|---|---|---|
| Window sizes and layout | `window.rs` | layout, active pane, index and size of each pane | index of a new pane, rebalance, layout after a change, resize |
| Hierarchy and commands | `server.rs`, `session.rs` | nested maps session, window, pane; three id counters | the commands that change or query the hierarchy, exits of shells |
| Target resolution | `server.rs`, `window.rs`, `pane.rs` | none | text to session, window, pane id |
| Run loop and persistence | `server.rs`, `daemon_state.rs` | the state file, where the loop is | restore, save after each command, stop, interrupt, death |
| Attach and broadcast | `server.rs` | subscribers: filter, active ids, event queue | attach, refresh, filter of a snapshot, broadcast, detach |
| Pane output | `pane.rs`, `pty.rs`, `server.rs` | channel of the pump, pending output, history, dropped counter, events held for a request | pump, enqueue with cut, take a chunk, replay, broadcast |
| Relay routing | `routing.rs`, `caterm-relay/src/main.rs` | session to daemon and clients; a queue and writer task per connection | register, forward, write, close, unregister |
| Relay client | `relay.rs` | the connection, the request in hand, the backoff | dial, receive, wait for the loop, answer, back off |
| Local protocol | `server.rs` | a task per connection, the loop's queue | one request and its answer, or a stream of events |
| Daemon start | `server.rs`, `daemon_state.rs`, `main.rs` | socket and metadata file | ping, stale check, bind, write, remove |
| Authentication, configuration, command line, wire types, macOS app | | none that changes | |

How they interact. One task of the daemon owns the hierarchy and the subscribers. It takes
requests from one unbounded queue, which a task per local connection and the relay client
fill, and a tick of 100 ms between them. The task serves one request at a time to its end,
including its save and its broadcast. So there are no interleavings *within* the hierarchy;
what interleaves with it is the shells (they write, they exit), the pump threads, the tasks
of connections that pass on requests and answers, other processes on the same files, and
death at any point. The relay is concurrent throughout: a task and a writer task per
connection, which share the routing table under a lock that is released between the lookup
of a frame's recipients and their being served. Nothing but two files stands between two
`caterm start` on one path, and they are read, checked and removed in separate steps.

What is hard, and what makes each part correct:

* **Sizes and layout.** Integer shares of a hundred percent, clamps, and the neighbour of a
  pane in an order that deletions perforate. The sizes fill the window, a resize moves one
  border, the layout follows the number of panes.
* **Hierarchy.** Long sequences of legal commands: indexes computed from what is left,
  default names that come back, pointers to what was deleted, ids burnt by failed commands,
  one counter for ids in nested maps. Names, indexes and ids stay unambiguous, pointers live.
* **Targets.** Ids, names and indexes share one text syntax. What a client is shown finds
  what it was shown for.
* **Persistence.** A save after every success but not after a failure that changed
  something; a file that is written in place; counters recomputed on restart; an orderly
  shutdown that empties the memory with the code that serves deletions. What was answered is
  durable, and what is restored is as well formed as what was saved.
* **Client view.** The filter and the three active ids of a client are ids held over
  requests of others, who delete and select. Snapshots are cut to the filter and have to hang
  together. Exits are collected before a request that may fail.
* **Output.** Three limits, two buffers that are cut independently, a byte count for what is
  gone, and cuts that have to respect characters; a client that attaches in between; events
  that a request holds while newer ones are broadcast. Each byte is in one event or reported
  lost, and every client gets every event.
* **Relay.** Connections of one session that begin and end in any order, frames in flight to
  those who left. Frames keep to their session and their order.
* **Relay client.** Two ends of a connection that learn of its end separately; a request
  that is being served while its connection breaks; one malformed frame that ends it for all;
  frames that are passed over in silence. No request is served twice, the answers are to the
  frames that ask for one, in their order and with none left out, and a queued one gets its
  answer.
* **Local protocol.** The answer to the last request races with the end of the process;
  whoever has connected and is not accepted. Nobody waits for ever.
* **Daemon start.** A check and a removal that another process may come between, metadata
  that is truncated before it is written, an end that removes what is at the path by then.
  One daemon, reachable, and stale files never keep the next one from starting.

## 2. The modules

| Module | Models | Checked through |
|---|---|---|
| `WindowLayout` | the operations of `window.rs` as operators on one window; no variables | the two below |
| `WindowSizes` | one window under create, split, delete, resize; up to eleven panes | `MCWindowSizes` |
| `SessionTree` | the hierarchy and every command of `handle_request` | `MCSessionTree` |
| `SessionManager` | EXTENDS SessionTree: the run loop, the state file, death and restart | `MCSessionManager` |
| `Targets` | EXTENDS SessionTree: resolution of target texts | `MCSessionManager`, `MCTargets` |
| `ClientView` | EXTENDS Targets: subscribers and what they are sent | `MCClientView` |
| `OutputLedger` | abstract: what the output of a pane promises to its followers | `EventStream` |
| `PaneOutput` | the buffers of one pane, from the shell to its events | `EventStream` |
| `EventStream` | EXTENDS PaneOutput: ticks and requests that put the events into the clients' queues | `MCEventStream` |
| `RelayRouting` | the routing table and the tasks of every connection | `RelayClient` |
| `RelayClient` | EXTENDS RelayRouting: the daemon's end, with requests and answers | itself |
| `LocalProtocol` | local connections, their tasks, the loop's queue | `DaemonStart` |
| `DaemonStart` | EXTENDS LocalProtocol: processes that start, stop and die on one path | itself |
| `WindowLayoutProofs`, `WindowSizesProofs`, `SessionTreeProofs`, `SessionManagerProofs`, `ClientViewProofs`, `EventStreamProofs`, `RelayClientProofs`, `DaemonStartProofs` | lemmas and theorems, section 4 | tlapm |

### Correspondence

*Maps* (`BTreeMap<u64, _>`) are functions on finite sets of ids. Ids start at 1, but 0 is
one a text can name, so `None` is a negative number. *Names* are pairs of a stem and a number (`<<"window", 1>>` is `window-1`,
`<<"", 2>>` the text `2`), the least that lets default names collide with chosen ones and
numbers be names.

`SessionTree`: an action is one call of `handle_request` with resolved targets; its guard is
the early returns, `reply` is `Ok` or `Err`. Ids that an early return has burnt are burnt.
`Spawn` is `spawn_pane`: it takes an id and may fail. `DeletePane` removes the pane and may
then fail. `PaneExits` is what `collect_runtime_events` finds at a tick or before a request.
A numeric session target is an id the code does not look up, so the actions on sessions take
any id, while window and pane targets that resolve name something live
(`UnresolvedTarget` is the rest, `Targets` the resolution itself).

`SessionManager`: `phase` is where `run` is: down, in `persist_state`, between that and the
answer, in the `select!`, or past it. A command that succeeds is three steps, `Serve`, `Save` and
`Answer`, and the daemon may die between any two of them (`Die`). `disk` is the state file; `torn` is a file whose write was cut. `Start` is
`restore_state` and the save that follows it; `Saved` is what a snapshot keeps. `promised`,
what was answered, and `attempted`, what was to be saved, are history variables for the
properties and drive nothing.

`ClientView`: a subscriber is its filter, its active ids (`ClientState`) and its view, which is
the last snapshot it was sent with the exits applied that it was sent since. The queue to a
client is unbounded and in order, so view and queue are one. A request is served in two
steps, `BeginRequest` (the collect) and an `Answer...`, between which nothing else of the
daemon happens. `stale` is history: an error has kept something from the clients.

`PaneOutput`: the output is a stream of numbered bytes, each buffer the interval it holds, so
that loss, overlap and order are arithmetic. `wide` holds the offsets inside characters. The
pump runs concurrently with the drain of its channel; `log` is every event that is made.

`EventStream`: the loop is idle, in a tick, in a request, or in the part of `send_input`
after the write (`serving`). A collect is `Begin`, `Drain` and `EndsCollect`; its events go
to `stream`, the order in which all clients are sent them, or, in a request, to `held`, which
`Succeed` broadcasts and `Fail` drops. `CollectAgain` is the second collect of `send_input`,
whose events are broadcast before those that are held. `failed` is history.

`RelayRouting`: one action per stretch of `run_socket` between two points where the task can
be suspended: `Register`, `Read` (with the lookup), `Forward` to one recipient, `Close`,
`Unregister`; and `Write` of the writer task. The network may fail any read or write. Its
`RelaySpec` lets the peers send anything at any time.

`RelayClient` replaces the daemon's part of that freedom by `relay.rs`: `task` is where
`spawn_relay_client` and `run_connection` are, `current` the connection they have, `taken`
how far they have read it, `backoff` the next delay. A frame of a client is the pair of its
connection and its number. What it is shows when the daemon reads it, and `kind` keeps that:
a request, which the daemon's loop serves; a ping, which is answered without it; a text that
is no request (`garbled`), which ends the connection; or a frame that `run_connection`
ignores, a binary one or a pong, which the relay passes on like the others. `handled`
records what the daemon served, and `answers`, for each connection, the positions of the
frames it answered. The daemon's and the relay's end of a connection notice its end in steps
of their own, in any order.

`LocalProtocol`: an *end* is an invocation of caterm with one connection
`[to, kind, at]`, where `at` is how far its request has got: `sent`, `queued` in the loop,
`answering` in the connection's task, `answered`, or `streaming` events, or `closed`.

`DaemonStart`: `phase` follows a process through `Mode::Start` of `main.rs` and `run`:
the ping (`probing`), `cleanup_stale_socket` in its separate steps, once in `main` and once
in `run` (`pass` counts), `binding`, the two steps of `write_metadata`, the restore, the
loop, and the two removals at the end. `writers` are those who have the present metadata
file open, so that a late write into a removed file goes nowhere. An answer to the
ping that is an error, or of another version of the protocol, counts as none (`ProbeEnds`).
`crashed`, `found`, `company` and `raced` are history, for the properties.

## 3. The runs

| Run | Question | Instance |
|---|---|---|
| `window_sizes` | do sizes and layout survive any operations, and does a resize move one border? | six operations from one pane, three from 9, two from 11; deltas -32768, -3, 0, 7, 32767 |
| `tree` | does the hierarchy stay well formed, do ids stay unambiguous? | 2 sessions, 3 windows, 3 panes ever |
| `manager` | does what was answered survive stop, death and restart, and do targets find what they are shown for? | 2 sessions, 2 windows, 2 panes, a name that is a number, resizes, going down three times |
| `client_view` | does a client see what it is attached to, and stay where it is? | a client that attaches to the numbers 0 to 2, 2 sessions, 3 windows, 2 panes |
| `output` | limits, cuts, gaps, the order of events, what a client misses; does the output implement `OutputLedger`? | limits 4, 6, 2; 8 bytes in chunks of 1 and 4, characters of any width |
| `relay` | who is in the table, whose frames reach whom, which request is served and answered? | 2 daemon and 2 client connections of which 3 are made, 2 sessions, a frame of any kind each, backoff up to 2 |
| `local` | is there one daemon, do files have owners, does a lone start succeed, does everyone get an answer? | 2 processes, another client |

Why the bounds are enough. The commands look at one parent and its children, at a pair of
siblings, or at a subscriber and what it points to. Three windows or panes are the least with
a deletion in the middle, at the end, and of the active one, followed by a creation; two
sessions the least in which an id could be in the wrong one. The id bounds count what was
*ever* created, so the instances hold every sequence of creations, failures and deletions up
to them, while renames, selections and exits are unbounded. Going down twice is the least
that restores a restored state, and the third time one can be lost on the way. The limits of the output are scaled from 8192, 32768 and 4096
bytes, in their order, with chunks below and above the smallest; 8 bytes fill the largest
buffer and make it drop. Nine panes have shares just above the minimum size,
eleven below it. In the relay two daemon connections are the least that overlap (a reconnection
and the late end of the old one), two clients the least that can be mixed up, and two
sessions the least that can be crossed. Two processes are the least that race, and
what is safety is proved for any number of them.

`output`, `panics`, `relay`, `relay_reconnect` and `local` do not check deadlock: a daemon
that has panicked with its shell silent, a relay whose connections all have closed, and a
path whose processes have all ended do stop.

Every property is paired with a mutated definition (the operators marked *Mutant*) under
which its run fails; each mutant is a plausible slip in the code it stands for.

### Where the code does not do what it says

Five runs are expected to fail, each on one property that a document or a test of the
repository states.

| Run | What TLC shows |
|---|---|
| `serves_again` | a daemon killed inside `write_state` leaves a torn file, and every later start fails |
| `deleted_by_name` | a session whose name is a number cannot be addressed by it |
| `exits_reach` | a shell's exit collected by a request that fails is never announced |
| `panics` | a full buffer is cut inside a character, and the daemon panics |
| `relay_reconnect` | the end of a daemon's old connection removes the route of its new one |

More peculiarities of the code are visible in how properties are stated:

* `delete_pane` removes the pane and then returns the error of `terminate`, so that a failed
  request has changed the hierarchy and is neither saved nor broadcast: `ServedIsDurable`
  excludes a refused request and `ViewIsCurrent` a `stale` one.
* A client that attaches while output is pending gets that output twice, in the replay and
  live: `ClientMissesNothing` rules out only the gap.
* `send_input` broadcasts what it collected last before what was collected first:
  `OvertakenOnce` bounds the disorder to one event overtaken by one.
* A request that fails drops the output events collected for it: `ClientMissesNothing`
  leaves out the clients this has happened to.
* A frame for a session without a daemon is dropped silently: `RequestsAreAnswered` promises
  an answer only from the time the frame is queued for the daemon's connection, and only
  while the connections last.
* A binary frame, or a pong, is neither answered nor an error: its client waits for ever, and
  `RequestsAreAnswered` leaves out the frames that turn out to be of this kind (`Ignored`).
  They must not shift the answers of the others, which is what `AnswersInOrder` says.
* Two starts that overlap each other, or a start and an end, can remove each other's socket:
  `OneServer` says nothing once that has happened (`raced`).
* A start that finds metadata whose write was cut fails, and so does every later one, until
  somebody removes the file: `AloneItStarts` excludes it.

### Fairness

* `SessionManager!FairSpec` is weakly fair to `Start` (somebody starts the daemon again) and
  `Save` and `Answer` (what nothing interrupts ends).
* `EventStream!Spec` is weakly fair to the tick, to the steps of a collect, and to the end of
  a request: `tokio::time::interval` keeps ticking, and what the loop has begun runs to its
  end. That the drain of the channel ends rests on the shell's output being finite in the
  model: the code's `while let Ok(..) = try_recv()` has no such guarantee, which is listed as
  a hazard.
* `RelayClient!Spec` is weakly fair to the tasks of the relay and of the daemon for what is
  in their hands: frames that have arrived are read, forwarded and written, requests served
  and answered. It is not fair to connecting, closing or failing.
* `DaemonStart!Spec` is weakly fair to the steps of a process that has begun, to its loop and
  to the tasks of its connections. It is not fair to beginning, stopping or crashing.

The safety properties need none of it.

## 4. The proofs

What is proved holds for every value of the constants: any names, deltas, limits, chunk
sizes, sessions, connections, processes. The assumptions are the named `ASSUME`s next to the
constants; they type them, ask the stems of the default names to be there, and keep distinct
kinds distinct. No bound is used beyond being a natural number. `WindowLayoutProofs` has no
specification of its own: it holds the lemmas about `window.rs` and about sums and extrema of
finite sets that the others cite.

| Module | Theorems |
|---|---|
| `WindowSizesProofs` | `SizesInvariant`; `SizesTyped`, `SizesAlwaysFillWindow`; `ResizesMoveOneBorder`, an action property |
| `SessionTreeProofs` | `InductiveInvariant`; `TypeCorrect`, `Addressing` (names), `Indexing`, `ActiveAlwaysLive`, `IdsAlwaysLiveOnce`, `IndexesAndLayouts`, `SizesAlwaysFill`; `IdsGivenOnce`, an action property |
| `SessionManagerProofs` | `ManagerInvariant`; `ManagerTyped`, `HierarchyRestored`, `AnsweredAlwaysDurable`, `ServedAlwaysDurable`, `TargetsAlwaysFound` |
| `ClientViewProofs` | `ClientInvariant`; `ClientsLeaveTree`, an implication of specifications; `ClientTypeCorrect`, `ViewsAreCurrent`, `PlacesAreLive`, `ViewsAreClosed`; `PlacesStay`, an action property |
| `EventStreamProofs` | `StreamInvariant`; `StreamTyped`, `DroppedAlwaysTheGap`, `CutsAlwaysBetween`, `OvertakenAtMostOnce`, `ClientsMissNothing`; `KeepsLedger`, a refinement |
| `RelayClientProofs` | `RelayInvariant`, `RelayKeepsOrder`, of the relay whose peers may send anything; `ImplementsRelay`, a refinement; `ClientInvariant`; `LinkTyped`, `RoutesAlwaysLive`, `ClientsAlwaysRouted`, `FramesAlwaysInSession`, `FramesAlwaysInOrder`, `RequestsHandledOnce`, `AnswersAlwaysInOrder` |
| `DaemonStartProofs` | `StartInvariant`; `LocalTyped`, `FilesAlwaysOwned`, `AloneItAlwaysStarts`, `OneServerAlways`; `NoTakeovers`, an action property |

**The hierarchy.** None of the properties is inductive alone. `IInv` states the hierarchy once
per level: what a well-formed pane, window and session is relative to its id and to the
counters. It holds together like this: that a new id is
outside the maps needs the counters to exceed every live id; that a new index is fresh
needs the maps finite, so that `NextIndex` has a maximum; that an index stays below its id
needs the counters to grow with every creation, failed ones included; that `FirstKey` after
a deletion is live needs what is left to be non-empty, which the guard on the last window or
pane gives together with finiteness; and that ids are in one place is a statement about two
windows at once, of which each action changes one. Accordingly a lemma per operation on one
window or session shows that the result is well formed with its ids among the old ones and
the new one, a lemma per shape of step (insert a session, change one, remove one) lifts that
to the hierarchy, and the proof of `InvNext` has one step per action. The same
step lemmas say what ids a step adds (`GainsOnly`: at most the one each counter gives out
next); `IdsGivenOnce` follows, since the invariant of the next state has the counters past
what was added.

**Sizes.** A sum over a set is a fold, which the library defines by recursion over sets.
`WindowLayoutProofs` shows without an induction theorem, by well-foundedness of the subsets
of a finite set, that the recursion has a solution (`SumExists`) and what it satisfies: a sum
is split at any element (`SumRemove`), unchanged where two terms change by opposite amounts,
no less than any of its natural terms (`SumNat`). From that, `RebalanceFills`: the panes are
numbered by their places in index order (`PositionNumbers`), so that as many get one percent
more as the division leaves. And `ResizeFills`: a partner is another pane, the next in that
order or, for the last, the one before it (`PartnerAdjacent`), and what one gains the other pays. Both need what
the invariant has to provide: finitely many panes, at least one, whose indexes differ.
`SizesInv` is that, with the sum, for a window alone (it also needs indexes below the next
id, for a new one to be fresh); in the hierarchy `IInv` provides it. That a size never exceeds
100, which `SizesTypeOK` claims, follows from the sum and not from the clamp. A pane that is below
the minimum, as nearly all are above ten panes, has no room to give, so that `CanResize` refuses what
would shrink it; this is what `ResizesMoveOneBorder` rests on beside the neighbours.

**Restarts.** `ManagerInv` adds to `IInv` what the file holds. `DiskOK`: a hierarchy that is
well formed under *some* counters, because the file has none, and that a restart leaves as it
is (`Saved` is idempotent). `DiskCurrent`: which tree it is in each phase, and that the tree
being saved is the one in memory; and `promised` is the tree of the file as soon as the answer is out,
which is why an answer that came before the save would break it. A restart then keeps `IInv` because the well-formedness of
a tree depends on the counters only through its ids being below them (`Tighten`), which is
what the recomputed counters give (`AfterBounds`); a shell that exits between two commands
does not make the file out of date because exits are not saved (`ExitSaved`). Steps in memory
are the step lemmas of the hierarchy. `TargetsFound` follows from names and indexes being
distinct, and so holds before and after every restart.

**Clients.** Neither `ViewIsCurrent` nor `PlaceIsLive` is inductive: they speak of the time
between requests, while exits are collected when a request begins and sent when it succeeds.
`ClientInv` says what holds meanwhile: if a client were sent the exits that the request has
collected, its view would be the cut of the hierarchy as it is (`ClientOK`), and the place it
is at lives already. So `BeginRequest` keeps it because marking a pane commutes with cutting
the hierarchy to a filter (`FilterMarked`); an answer that changes something because every
client is then refreshed and sent a snapshot (`Refresh` finds a live place within the filter
if there is any); one that changes nothing because it sends exactly those exits; an error
because it sets `stale` unless nothing was collected and nothing changed. A view is a function of a cut, whose pointers lead to what is in it or to none
(`ClosedCut`), which marking does not disturb (`ToldOK`). The hierarchy under the clients is
the one of `SessionTree` (`ClientsLeaveTree`): attaching and leaving stutter, and every answer
is one of its actions, so `IInv` carries over.

**Output.** `PaneInv` is about one pane: the buffers end where the channel begins and keep
within their limits, every cut is between two characters (offsets inside a character are
never where a chunk ends, and a cut at one is a panic), what will be reported lost is the gap
to the last event, and the events are consecutive. `StreamInv` adds the queues: every event is
broadcast, held, or dropped by a failure, once; what is broadcast is in order but for a held
event that the second collect overtakes; after its attach a client has, or the request
holds, every event. `KeepsLedger` maps every step to a step or stutter of `OutputLedger`.

**Relay.** `RelayInv` ties the table to the connections that are registered and every queued,
held or delivered frame to a sender of the same session and the other side. `OrderInv` counts
the frames of each sender through the queues. Every step of `RelayClient` is one of the relay
or leaves it alone (`ImplementsRelay`), so both carry over; to them `ClientInv` adds that the daemon
serves what it took last, once, and where the answers of a connection stand (`AnswerInv`): the
last one is to the last frame read, or there are only ignored ones after it, but for the frame
that is in hand (`Settled`). So the next answer is to the first frame since that asks for
one, and stays so because what was read and delivered only grows (`InTurnStays`).

**Start.** `StartInv` says for each process which phases it reached by which way, and what
the files can hold then. `OneServer` needs that, unless starts overlapped, the metadata name the daemon that serves
(`WriterNamed`), so that another start, even if its ping was answered with an error, gets no
further than reading them (`NoOverlap`, `NobodyElse`); `AloneItStarts` that
what a lone process reads was left by crashed ones (`SeenOthers`, `LoneSocket`);
`NoTakeover` that a process found listening is left alone as long as its ping is unanswered,
and afterwards unless the answer is an error (`FoundIsLeft`).

Only model-checked is liveness, which needs `ENABLED`: the delivery in `ImplementsLedger`,
`RequestsAreAnswered`, `RequestsEnd`. Every invariant and every other action property that a
passing run checks is a theorem. The five properties that the code does not have are shown
false by TLC, and there is nothing to prove about them.

## 5. What is not modelled

* The decoding of raw bytes (`from_utf8_lossy` per chunk) and the terminal's input side.
* The created, deleted and selected events: clients redraw from the snapshot that follows
  them. The output of several panes in one queue: their events are independent, and
  `EventStream` has one.
* The close frames of the relay's connections, whose end is `Close` and `HangUp`, and delays as
  times: the backoff is kept, but waking is a step like any other.
* The shells a daemon leaves behind when it dies or `run` returns an error; the socket and
  metadata it leaves are in `DaemonStart`.
* Process ids that are used again by another program while metadata names them.
* Authentication, configuration, command line, wire types and the macOS application: no
  state, or none that changes. `status` only reads, by the same ping that a start sends.

## 6. Plan

1. *Done.* All the modules above, their runs, and proofs of every safety property the
   passing runs check.
2. Left: several panes in `EventStream`; the events that announce a change before
   its snapshot; the input side of the terminal, if a bound on its buffer is ever documented.
