# evix: a TLA+ verification project

evix evaluates Nix expressions: a coordinator walks an attribute tree with a pool of local and
remote workers, a session keeps the resulting derivation graph warm, a daemon shares warm sessions
between clients, and a command line client asks for all of it. This directory models those parts
and checks and proves properties of them. `PROJECT.json` maps every definition that models code to
the lines it stands for; line numbers below refer to the same commit.

## 1. Inventory

| Component | Source | State | Operations | What is hard |
|---|---|---|---|---|
| Evaluation coordinator and worker tasks | `crates/evix/src/async_master.rs`, `run.rs` | queue of paths, count of active items, idle queue, channels; each task's connection and item | dispatch, complete, emit, tear down; connect, work with a timeout, reconnect, stop | many workers, failures in every phase, cancellation, bounded channels |
| Session | `session.rs`, `watch.rs` | warm state behind a lock, cancel flag, notification, phase of the initial evaluation | stream, watch, query, diff, cancel | long evaluations between a read and a write of the warm state |
| Warm graph | `state.rs` | graph of derivations | record, diff, filter | edges of the matcher, diffs that must add up |
| Local worker processes | `worker_process.rs`, `worker.rs`, `fork.rs` | processes, sockets, stderr tails, fork slots | spawn, attach a fork, request, answer, restart at the memory limit | death between any two messages, fork thresholds, who still holds a socket |
| Remote worker | `remote_worker.rs`, `remote_proto.rs` | connections, permits, work in flight | handshake, work, shutdown, abort | answer, client message and disconnection race; reconnection overlaps the old connection |
| Attribute evaluation | `eval.rs` | directory of GC roots, shared by workers | navigate, force, report, register a root | cyclic values, partial failures, two workers on one root |
| Inputs and locking | `worker.rs`, `evix-cli/src/main.rs`, `watch.rs` | locked flake | make absolute, lock, export, import, watch | several readings of one reference, upstream that moves |
| Wire formats and configuration | `evix-protocol`, `remote_proto.rs`, `json.rs`, `config.rs`, `worker_config.rs` | none that lasts, the daemon's session key excepted | write, read, default, refuse | fields copied by hand at every hop |
| Daemon connections and session cache | `evix-daemon/src/lib.rs`, `connection_limit.rs`, `session_cache.rs` | slots, sessions by key, recency order, replays | accept, eval, replay, watch, query, diff | settlement races replacement, eviction and `diff`; clients that go away |
| Daemon lifecycle | `evix-daemon/src/lib.rs`, `bin/evixd.rs` | socket, pid file, signal pipe, readiness pipe | daemonize, bind, serve, shut down | what a crash leaves, signals at any moment |
| Client | `evix-cli/src/args.rs`, `main.rs` | the plan of one call | parse, connect or fall back, print, exit | when to fall back, when a stream is complete |
| Generated bindings | `generated/` | none | none | generated code, not modelled |

How they interact: the client sends a request over a socket or evaluates itself; a daemon handler
opens or finds a session; a session calls `run`; `run` spawns one task per worker and talks to it
over two bounded channels; a worker task talks to a process or to a TCP peer whose server talks to
a process; the process evaluates one attribute at a time. Back through the same chain, the
session's event callback puts each event into a bounded stream and the handler drains that into the
client's socket, so a slow client slows the whole evaluation down.

What makes each part correct: the run reports every attribute exactly once or says that it did not;
a run returns and leaves no task or process behind; an answer belongs to its question; queries,
diffs and replays come from whole evaluations; slots, permits and cache entries never leak; what a
crash leaves stops nobody; exit status 0 means the whole result; nothing waits for ever.
`PROJECT.json` lists the hazards one by one, at the line where each bites, with the properties that
would catch it going wrong. One hazard has no property: the handler of an idle watch notices a
client that left only at its next write (`evix-daemon/src/lib.rs:806`); nothing in the repository
promises otherwise, so there is nothing to state.

## 2. Modules

| Module | Models | Checked by |
|---|---|---|
| `Traversal` | abstract specification of one run: a walk over a tree that completes, fails or is cancelled | refinement in `scheduler_tree` |
| `Scheduler` | `async_master.rs`: coordinator, worker tasks, channels, teardown | `scheduler_*` |
| `SchedulerProofs` | theorems about `Scheduler`: types, idle queue, evaluators, teardown; conservation of work, reports, causes of failure, refinement of `Traversal` | tlapm |
| `Session` | `session.rs`, `watch.rs`, `run.rs` | `session`, `session_diffs` |
| `SessionProofs` | theorems about `Session` | tlapm |
| `LocalPool` | processes of one evaluation: spawning, forking, requests, timeouts, death | `local_pool` |
| `PoolProofs` | theorems about `LocalPool` | tlapm |
| `RemoteWorker` | the TCP service and its clients | `remote_worker` |
| `RemoteProofs` | theorems about `RemoteWorker` | tlapm |
| `DaemonSessions` | connections, session cache, replay and the evaluation behind a session | `daemon_sessions`, `daemon_live` |
| `DaemonProofs` | theorems about `DaemonSessions` | tlapm |
| `DaemonLifecycle` | start, signals and end of daemons on one socket path | `daemon_lifecycle` |
| `LifecycleProofs` | theorems about `DaemonLifecycle` | tlapm |
| `CommandLine`, `Client` | from the words to a plan; from the plan, with or without a daemon, to the exit status. `Client` extends `CommandLine` | `client` |
| `ClientProofs` | theorems about `CommandLine` and `Client` | tlapm |
| `AttrEval`, `GcRootsPath`, `FlakeInputs`, `WireFormat`, `Filters`, `WarmGraph`, `Patterns` | what is evaluated, how it is named, locked, carried, reported and queried | through `DataPath` |
| `DataPath` | the sum of those modules: they share no state, so a behaviour follows one of them | `data_path` |
| `DataPathProofs` | theorems about `DataPath` and so about each of those modules | tlapm |
| `MC...` | the constants of the instances | |

A definition named `Name_Fault`, or `Name_` followed by words for the mistake (`Expand_RetriesErrors`),
is `Name` with one plausible mistake. It takes part in no behaviour; substituting it for `Name` makes the
property it is listed with in `PROJECT.json` fail, which shows that the property depends on that
code.

A property of a run is often a conjunction of named parts (`ReportsSound`, `PoolSound`,
`WireFaithful`, ...); each part has its own comment where it is defined.

### Scheduler

The unit of atomicity is the code between two awaits. `cpc` says where the coordinator is (top of
the loop, dispatching, receiving, in the event sink, stopping, joining, aborting, returned), `wpc`
where each worker task is. `results` and `work[w]` are the channels, with their capacities: a
send blocks while the channel is full and fails once the receiver is gone (`ResultRxOpen`,
`WorkRxOpen`), and a receive ends once every sender is gone.

| Code | Actions |
|---|---|
| `coordinate`, top | `ObserveCancel`, `BeginDispatch` |
| `dispatch_available`, one idle worker per step | `DispatchWork`, `DispatchWait`, `DispatchEnd` |
| `coordinate`, after dispatch | `AfterDispatch` |
| `coordinate`, message | `ReceiveReady`, `ReceiveResult` (with `Scheduler::complete`), `ReceiveEnd` |
| the event sink's await | `SinkAccepts`, `SinkFails` |
| `shutdown_workers`, `abort_workers` | `StopWorker`, `JoinWorker`, `AbortWorker` |
| `serve_worker` | `Connect`, `ConnectInterrupted`, `SendReady`, `TakeCommand`, `WorkTxDropped`, `SendCancelled`, `Evaluate`, `EvaluateFails`, `SendResult`, `AfterSend`, `Reconnect`, `StopClient` |
| `worker_task` | `WorkerPanics`, `SendExited` |
| `Session::cancel` | `RequestCancel` |

What a run evaluates is a constant tree (`Paths`, `Root`, `Children`); `Replies` gives the events
an evaluator may answer with for each path: an attribute set, a derivation, an error or a fatal
error. Texts, labels, timings and event payloads are left out. A timeout is `EvaluateFails`, which
may happen to any evaluation; an evaluator's connection is `"up"` or `"down"`.

`Traversal` keeps a frontier, a visited set and a status. `Scheduler` implements it with
`frontier` = discovered and not yet reported, `visited` = reported, and `status` = what `run`
returned (`ImplementsTraversal`). In particular a completed run has an empty frontier and a
cancelled one was asked to stop.

### DaemonSessions

`cache` and `order` are the registry, `slots` the limiter, `pc`, `request`, `held` and `recorded`
a handler's control and locals, and `phase`, `sent`, `stream`, `closed`, `dropped` the session
behind it. Registry operations (`Insert`, `Lookup`, `settle_replay`) are one step each, as the lock
makes them; everything between two of them may interleave. `EmitEvent`, `CompleteSession` and
`FailSession` are the evaluation task. Each event is sent through a sender of its own, so it
always fits, and the task then waits in the flush until the channel is back at its capacity
(`Flushed`, external: `futures_channel`). `diffed` is a history variable: sessions for which the
client was told that a `diff` succeeded.

A client may vanish at any write (`WriteFails`), and only there: a handler that waits for an event
does not look at its socket. `EvaluateDiff` abstracts the re-evaluation to success or failure.

### Session

A graph is the version of the inputs it was evaluated from, a diff the pair of graphs it was made
from; `Empty` is the graph nothing was evaluated into and `Partial` that of an evaluation cut
short. The lock of the warm state is held for one read or one write, which is one step. `waiters`
are the futures registered with the `Notify`: `WaitRegister` and `WaitRead` are separate steps, so
a notification can fall between them. An evaluation that starts at version `b` and ends at version
`e` may have read any version in between. `SpawnFails` is a call from outside a runtime. `replaced`
is a history variable: the graph a task last overwrote.

### LocalPool and RemoteWorker

In `LocalPool` a worker has a task in the master and, over time, several processes, spawned or
forked. `slot` says who holds the far end of the socket a fork is to use; `completed`, `forked` and
`started` are the parent's fork policy (`is_due`, with `ITEMS_PER_FORK` and `TIME_PER_FORK` as
constants). `Die` kills any process at any point; `Tick` lets time pass, so that timeouts race
answers. A task that kills its process waits until its stderr is closed (`Reaped`), which a fork may
still hold. `RemoteWorker` has connections with two ends (`near`, `far`), a server task and an
evaluator for each, and `permits`; client and server time the set-up, and one timer of the client
covers the event and the status after it. A client that reconnects holds its old connection until the new
one is ready, as the code does. Which worker gets which item is `Scheduler`'s matter.

### DaemonLifecycle

One step is one system call on shared state: probe, remove, bind, listen, chmod, pid file,
readiness line, handlers with the pipe and the runtime, poll, accept, close, clean up. Each of them
may fail where the code lets it: daemonizing, the pid file, the pipe, the handlers, the runtime, the
poll. `Kill` and `Signal` may come at any of them. `Serial` says that daemons are started one at a time; section 6 says why.

### Client

`CommandLine` starts from what the user means, a sequence of options with values, writes it in
either spelling, and follows `normalize_args`, the parser (the external library `pound`) and the
planning functions. A word is its text and what follows its first `=`, so that values that look
like flags are among the inputs. What a word says as a number or as a list of systems is a constant
(`Number`, `Systems`). The plan has every field of the configuration and of the command. `Client` then runs the plan against a daemon whose socket is live,
stale or missing. A response line is an item, `Done`, an error or a cut line; the daemon may stop
between two lines or inside one, and standard output may close or fail.

### DataPath

`AttrEval` evaluates the attributes of a graph of values with cycles, functions, things that throw
and aliases of one derivation, by two workers that share the directory of GC roots. `GcRootsPath`
checks the normalisation of that directory for every path of up to `MaxLen` components.
`FlakeInputs` follows a reference, its fragment and its overrides from the words through the client,
the daemon's working directory, the locking and the workers to the watch loop. `WireFormat` follows
a configuration out and an answer back through JSON and Cap'n Proto, with every field that the code
copies by hand, and the Nix options into the list of configuration files of the worker's Nix, which
takes the last line of the first file that has a setting. What the code refuses in an option
(`Forbidden`) and what Nix reads in its text (`KeyAs`, `ValueAs`) are separate constants.
`WarmGraph` accumulates reports, replaces graphs and sends diffs to a client that keeps a copy;
`Filters` and `Patterns` have the query filter, the filter the command line builds and the wildcard
matcher, which is compared with a definition of what a pattern means.

## 3. Runs

| Run | Instance | Shows |
|---|---|---|
| `scheduler_mixed` | local parent, one fork, one remote worker; a root, always an attribute set, with two attributes: one is answered with a derivation, an error or a fatal error, the other is a derivation for a system that not every worker accepts | types and capacities, conservation of work, soundness of the idle queue, failures have a cause, nothing left behind |
| `scheduler_tree` | two remote workers that accept one system; a tree of three levels with a derivation for another; fair scheduling | reports are right, dead evaluators are not used, refinement of `Traversal`, the run and its tasks end |
| `scheduler_cancelled` | two local workers | expected violation, section 6 |
| `daemon_sessions` | three clients, three keys, every request; two slots, two sessions, two events, stream capacity one | types, registry, slots, replay, `diff` wins over a late settlement |
| `daemon_live` | two clients, two keys, one session, three events; fair scheduling | every handler and every evaluation ends under back-pressure |
| `session` | one stream, one watch, one `diff_once`, two versions of the inputs, result channels of one item, calls with and without a runtime; fair scheduling | only whole graphs are served, failures are told, diffs chain, no lost wakeup, cancellation ends every task, no edit is forgotten |
| `session_diffs` | one stream, two `diff_once` | expected violation, section 6 |
| `local_pool` | a parent and one worker to be forked, two items, a fork due after two items or one tick, two spawns for each worker | answers match items, one process for a worker, no early fork, no process and no waiting task left over |
| `remote_worker` | two clients, one rejected; one permit, three connections, two items, one tick | answers match items, evaluators within permits, a client that leaves frees both |
| `daemon_lifecycle` | three daemons, one in the foreground, one client; crashes | the socket is that of the live daemon, the next start succeeds, launchers are answered, signals stop a daemon |
| `client` | every command, inputs and up to two of seventeen options in both spellings, each other option alone, and all of them on one line; then three items over a socket that holds two lines; faults | the plan is what was meant, exit status 0 means all was printed, evaluated in one place, both sides end |
| `data_path` | a value of twenty nodes with a cycle, two workers and one directory of roots that may fail; paths of up to `MaxLen` components; every usual input with overrides of four forms; fifteen configurations that differ in each field, seven answers, four environments; two attributes, eight derivations, three evaluations, sixteen prefix sets and three other filters; patterns of four characters | attributes, roots, inputs, wire and graph are right |

Bounds. Two workers are the smallest pool with a fork, whose late start is the interesting case of
the idle queue; the remote one of `scheduler_mixed` is idle from the start. Three levels are needed
for children to be queued while their parent's siblings are in flight. Two sessions in the cache
and three keys make lookups change who is evicted; three clients make an eval, a request that
replaces or diffs its session and one that evicts it overlap. Two events with capacity one fill the
stream, so the evaluation blocks; so do three lines on a socket of two. In `session` one edit
suffices for an evaluation to be overtaken, and one watch and one stream for either to wait for the
other. In `local_pool` two items let an answer of an abandoned item meet the next one and let the
fork come due; two spawns give one restart for each worker. One tick, with timeouts of one tick,
lets any timeout fire before or after any answer. Three connections and one permit make a
reconnection meet its own old connection. Three daemons give a crash, its successor and one that
follows a clean exit. Clients and keys of `daemon_sessions` are symmetric, no property tells them
apart; runs with liveness use no symmetry. A cyclic value with depth limit three is cut by the
limit on one path and by `recurseForDerivations` on others; two revisions and two workers let
upstream move between two starts; two rounds let the daemon share or keep apart sessions; three
evaluations let a derivation change in something other than its build and then disappear; patterns
of four and values of three characters have every mix of leading, trailing and doubled stars. The four
environments are those the code tells apart: no list of files and no default file, a default file,
an empty list, and a list of two. The configurations have a message above each limit, an option
for each way to be refused by evix, by a remote or by Nix, and one that Nix cuts. The line with all
options of `client` repeats the lists, with values that look like flags between them.

Deadlock is checked in the `scheduler_*` and `daemon_*` session runs, where `Finished` and
`Listening` are the only states the system may rest in. The other models stop by themselves: a
bounded number of calls, items, ticks or daemons has been used up.

Fairness. `Scheduler`: weak fairness of the coordinator and of each task; tokio schedules every
ready task, connecting and evaluating end because the code puts each under the item timeout, and
the sink ends because its reader drains it or goes away. `DaemonSessions`: handler threads and
evaluation tasks are scheduled and a client sends its request, and reads or goes away; a failing
write and the end of a watch are not assumed. That a request is read is an assumption about the
client: `read_request_line` has no timeout, and a client that connects and sends nothing keeps its
slot for as long as it stays. `Session`: spawned tasks are polled, evaluations end (strong fairness: a
stream interleaves them with its events), receivers that exist are read; nothing is asked of the
caller of `diff_once`. `LocalPool`: tasks and processes run; no timeout and no crash is assumed.
`RemoteWorker`: only the server's tasks; nothing is asked of evaluations or clients.
`DaemonLifecycle`: processes run; signals, crashes and starts happen or not. `Client`: both
processes run; nothing obliges a watched file to change, and `RequestEnds` leaves a watch out.
Cancellation is assumed nowhere.

## 4. Proofs

Every safety invariant of the runs is also a theorem. A run shows a property on a small instance,
the theorem for every value of the constants: any number of workers, clients, daemons, items and
ticks, any tree, any capacity, any command line. Each proof has one inductive invariant, one lemma for each action (`...Keeps`), and a last step that combines them
with `Init`. The invariants were checked with TLC on the instances of section 3 before they were
proved.

| Module | Theorems | Inductive invariant |
|---|---|---|
| `SchedulerProofs` | `TypeCorrect`, `IdleQueueSound`, `ClientUsable`, `CleanReturn` | `TypeOK`, `IdleWorkersWait`, `ClientInv`, `TeardownInv` |
| | `WorkIsConserved`, `ReportsAreSound`, `FailuresHaveCause`, `RunImplementsTraversal` | `PathsInv`, `WorkInv`, `ControlInv`, `Verdict` |
| `DaemonProofs` | `RegistryIsSound`, `SlotsAreCounted`, `ReplaysAreWhole`, `DiffsWin` | `DaemonInv` |
| `SessionProofs` | `SessionIsSound`, `FailuresAreTold`, `DeliveredDiffsChain` | `SessionInv` |
| `PoolProofs` | `PoolIsSound`, `AnswersAreMatched` | `PoolInv` |
| `RemoteProofs` | `ServiceIsSound`, `AnswersAreMatched` | `RemoteInv` |
| `LifecycleProofs` | `SocketIsSound`, `RestartIsSound` | `LifeInv` |
| `ClientProofs` | `OutputIsSound`, `EvaluationIsSingle` | `ClientInv` |
| | `PlanIsTheOneMeant` | `MeantInv` |
| `DataPathProofs` | `AttributesAreRight`, `RootsAreKept` | `RootsInv`, `WorkInv`, `DirectoryInv` |
| | `InputIsTheOneMeant`, `OneGraphPerRun` | `RunInv`, `MeantInv` |
| | `GraphIsMeant`, `WildcardMeans` | `WarmInv`, `WordsInv` |
| | `WireIsFaithful` | `WireInv` |

Scheduler. `TypeOK` is inductive; besides types it says that both channels respect their capacities
and that a task that evaluates or answers holds what it needs. `IdleWorkersWait` is stated in its
inductive form: a worker is, as far as the coordinator is concerned, in at most one place, namely
in the idle queue, announced by one message in the result channel, holding one command, evaluating
or starting. The weaker statement (a queued worker has an empty work channel) is not inductive: the
message that will queue it has to be counted too. `ClientInv`: a task that waits for a command has
a live evaluator unless its last item failed and cancellation was requested; such a task never
evaluates again, because the flag is never cleared. `TeardownInv`: while tasks are joined or
aborted, those before the cursor have ended without an error, and an ended task stays ended.

Conservation of work. A path can wait in the queue, be carried by a work channel, be held by a task,
be answered in the result channel, or have been seen by the sink. `PathsInv` says that exactly the
discovered paths are somewhere, that none is in two places or twice in one, and that `active` is the
number of paths in flight; `WorkInv` demands it while `coordinate` runs and says where a task holds
nothing. `ControlInv` says that meanwhile nothing has been decided and that a task that ended has
left a message that says so. From these, `Verdict`: an empty queue and a counter of zero leave no
path anywhere but with the sink, so `Completed` is exhaustive; and the end of all tasks is never
found before the message of one of them, which is the cause the run names. For the refinement every action is shown to leave frontier,
visited set and status alone, but for `SinkAccepts`, which is a visit, and for the end of the run,
where `Verdict` gives the guard of the abstract step.

Daemon. `DaemonInv` ties the position of a handler to the session it holds. Every session was opened
by one handler (`OpenersInv`) and is cached under the key of its request only (`CachedInv`). What
the handler has recorded and what is still in the stream make up what the evaluation has sent, and
an error is the last item (`RelayInv`), so a recording that is settled as complete is whole.
`OvertakenInv` makes `DiffWins` inductive: it also covers the `diff` that has invalidated its
session and has not been answered yet. The slots are counted as the handlers that are not done;
the cache is counted through the recency order, which lists its keys without repetition.

Session. `StartInv`: at most one task runs the initial evaluation, none has begun while `initial` is
`Idle`, and none is left in it once the warm state is complete. `WarmInv`: the warm graph is empty
until an evaluation completes and a whole one from then on, and so is every graph a re-evaluation
compares with. `FailInv`: a failure is in the warm state before anybody is told that the initial
evaluation is over. `ChainInv`: while a watch is the only writer, what it compares with and the last
diff it made, delivered or not, end in the warm graph.

Local pool. `PoolInv` speaks of one worker at a time (`WorkerInv`): which of its two processes can
be alive given who holds its slot, and for each position of its task which messages are on the
connection and what the process at the far end does. An abandoned item is harmless because the task
then drops the connection, so the invariant about messages is only about the connection in use.
`CountInv` bounds the counters of the parent: an item it has not answered is not among the
completed, and a fork that was made has used up a slot.

Remote worker. `TaskInv`: a permit and an open far end belong to exactly the tasks that are not over.
`WireInv`: for a connection whose client still listens, the positions of the two ends determine
what is on it. A connection the client has given up may carry a late answer, which is why nothing
is said about those. Permits are bounded by `accept`, and evaluators by permits.

Lifecycle. `LifeInv` says for each step of a daemon what is at the socket path and in the pid file.
`OneBusy`, at most one daemon is starting or on its way out, is what keeps the others from spoiling
it. Both theorems therefore assume `Serial = TRUE`; without it they are false, for the
reason given in section 6 (`evix-daemon/src/lib.rs:266`).

Client. `Linked`: while the client reads, what is printed followed by what is on the socket is what
the stream has yielded, followed by at most one line that ends the answer, and that line is `Done`
only if the stream has ended. A client that reads `Done` has therefore printed everything. Once the
client is gone only `Prefix` is kept. `PhaseInv` and `RequestInv` tie the request, the connection
and the place of evaluation together; they need that a replay is only planned for a daemon, which
is shown of the planning functions (`PlanShape`).

Command line. `MeantInv`: what is typed are the words of the options meant, in one of the two
spellings; what is packed are the same options with each list packed into one word; what is parsed
are the options meant themselves; the plan is the one of these options, and a refusal has a cause.
The steps from one to the next are inductions over the options. A line is laid out in pieces, one
for each option (`Laid`, `Flattened`). `normalize_args` and `try_parse_from` are functions of the
place in the line from which they go on, so what they make of the rest of the line after `k`
options is shown from the last option down (`Rebuilt`), one option at a time (`NormPacked`,
`NormPlain`, `ParsePacked`, `ParsePlain`); they are read off tables that satisfy their equations, as
described for the data path. Of the configuration, `Finding` says that an option of the user is
found once, in its order, and no other; `ListsFollow` and `ScalarsFollow` carry that to every field. `CommandLineAssumption` says what a user may mean
(`IsIntent`): an option has as many values as its flag takes; one that is no list of the parser's
is given once; and a value that stands alone after its flag is not the text of a flag that is
packed, because `normalize_args` looks at words only and would pack it (`args.rs:683`).

Data path. The parts of `DataPath` share no state, so each has an inductive invariant of its own,
under the condition that the behaviour follows that part. Most of the work is in what the operators
compute for every input, and there the proofs go by induction over data. A statement about all
lengths `n` is put as "the set of counterexamples has no least element", which the library's
`NatLessThanWellFounded` and `WFMin` turn into a proof of it (lemma `Induct`; the command line
uses it too). A recursive function
in a `LET` is by definition a function that satisfies its equation, if there is one: for each of
them a predicate (`IsTable` for the matcher, and so on) states the equation, induction shows that a
table satisfies it, and the operator is then an entry of a table that satisfies it.

- `AttributesAreRight`. `WorkInv`: a path that is queued, held by a worker or answered is in one
  place only, can be reached and is within the limit; the empty path is among them, and with each
  path its parent, answered, and with each answered set all its children. When nothing is queued or held, a path that the
  recursion rules reach and that has no answer would have a shortest such beginning, whose parent is
  answered, which contradicts this. That `process_attr` follows a path to the same value as the
  definition in the property, calls of functions included, and that `value_to_json` keeps of a value
  what can be forced at every depth are inductions over the path and over the depth. The theorem
  supposes that the root is no function (section 6, `eval.rs:149`).
- `RootsAreKept`. `RootsInv`: a worker between its look at a link and its answer has found or made
  it, and links are never removed. `DirectoryInv`: the directory made is the one
  `validate_gc_roots_dir_path` accepted; that this is where the path leads is an induction over its
  components.
- `InputIsTheOneMeant`. `RunInv`: once locked there is one graph, every worker that has imported one
  imported that one, and what it may read contains every node of it. `MeantInv`: at each stage the
  reference, as the process at that stage reads it, is what the user meant. The second supposes
  inputs in the usual forms (`UsualInputs`), which is the instance of the run as well: section 6 lists
  the other forms, for which it is false. Nothing is supposed of the overrides, of which `SameInput`
  excepts the relative ones through a daemon. `OneGraphPerRun` is the part that needs no hypothesis.
- `GraphIsMeant`. `WarmInv`: the accumulator holds one derivation for each attribute path that was
  reported, the last one, and the copy agrees with the warm graph on paths and store paths. That a
  filter is the intersection of its fields and a prefix the names between its dots is shown of the
  operators. For the matcher
  the invariant says no more than that there are two words (`WordsInv`); the rest is `WildcardMeans`:
  the table that `wildcard_matches` fills in rows is, in each entry, the definition of what a
  beginning of the pattern means for a beginning of the value.
- `WireIsFaithful`. Each pair of a writer and a reader is shown to be the identity on the values of
  its type, the exceptions of the property aside. `WireInv` says for every place on the journey what
  is carried there in terms of what was asked or found, which files the worker's Nix reads, and that
  each session is stored under its own key. That the first file with a setting and its last line
  exist is the least number principle again.

The theorems rest on the named assumptions of their modules (`ConstantsAssumption`,
`TreeAssumption`, `NoPathAssumption`, `DaemonAssumption`, `SessionAssumption`,
`LocalPoolAssumption`, `RemoteWorkerAssumption`, `DaemonLifecycleAssumption`,
`CommandLineAssumption`, `ClientAssumption`, `DataPathAssumption` and the assumptions of the parts it
names), which the runs evaluate on their instances. They say
that constants have their types (for `WireFormat`: that configurations and events have the fields of
`Config` and `Event` and maps are finite), that bounds are not zero where a channel or a cache of size zero
makes no sense, and that what stands for "none" is no member of the set it is the exception to.

Only model-checked:

- Liveness (`RunEnds`, `NothingWedges`, `WaitersWake`, `CancelReleases`, `WatchCatchesUp`,
  `NoOrphans`, `PoolDrains`, `ClientGoneFrees`, `LauncherAnswered`, `SignalStops`, `RequestEnds`):
  fairness is out of the reach of the proof system.
- The two expected violations, which are no properties of the code.

## 5. Not modelled

- `generated/`: generated Cap'n Proto bindings.
- Bytes: framing, partial reads and writes of a socket appear as whole messages, a message that is
  cut or one that is too large.
- Nix itself. Forcing, calling, locking and reading a `.drv` are external and appear as what
  `eval.rs` and `worker.rs` do with their outcomes.
- The wording of messages, tracing, and the builders and error wrappers of `config.rs`, `error.rs`.
- Symbolic links in the path of the GC roots directory.
- On the command line: `--max-memory-size`, another name of `--max-memory`, and the `-v` and `-q`
  that set the verbosity.

## 6. What the checks found

`scheduler_cancelled`: `abort_workers` (`async_master.rs:631`) returns at the first task that ended
with an error, and drops the handles of the tasks after it without aborting them. The test
`abort_workers_cancels_in_flight_worker_tasks` (`async_master/tests.rs:183`) states the intent with
a single task. With two, one that failed to reconnect and one that is evaluating, a cancellation
noticed before the failure is received leaves the second evaluating after `run` has returned. It
ends by itself at its next send (`RunEnds` holds), so the effect is bounded by the item timeout.

`session_diffs`: `diff_once` and the watch loop clone the warm graph, evaluate without the lock and
write the result back whatever the warm graph is by then (`session.rs:376`). Two overlapping calls
compare with the same graph, and the slower one may put an older graph back. The comments
(`session.rs:206`, `session.rs:375`) say that an evaluation is compared with the warm graph.

The following disagreements were met while translating. They have no run of their own; the models
follow the code, and where a property would otherwise fail its statement or its instance leaves the
case out, as noted.

| Code | What it does | What is said elsewhere |
|---|---|---|
| `session.rs:506` | after a cancelled initial evaluation the error is stored, so queries report a failure | comment at `session.rs:483`: queries keep failing with "initial evaluation incomplete". `FailureIsTold` asks for an explanation, not for which |
| `state.rs:43` | derivations are compared by `drv_path`; a change of `meta` alone is in no diff | `evix-protocol/src/lib.rs:292`: "Complete change set". `MirrorBuilds` speaks of paths and store paths, of a client that drops what was removed by its attribute path: one that looks for the removed derivation itself keeps a changed `meta` for ever |
| `worker_process.rs:164` | a worker to be forked waits `item_timeout_seconds` from the start of its task, the parent's root and first items included | `README.md:230`: "Per-attribute worker timeout" |
| `async_master.rs:793` | a reconnection opens the new connection before it drops the old one, so it can exceed the service's permits | `README.md:263`: `N` connections per `--remote` |
| `remote_worker.rs:159` | 30 seconds for the set-up, root evaluation included | `README.md:261`: "behaves exactly like a local worker" |
| `remote_proto.rs:19` | a smaller limit for messages of a remote worker | `README.md:261`. `RefusedForCause` counts the limit as a cause |
| `evix-daemon/src/lib.rs:266` | a socket found stale is removed whatever is at the path by then, so two daemons started at once can unlink each other | test at `tests.rs:253`. `daemon_lifecycle` starts daemons one at a time (`Serial`) |
| `evix-cli/src/main.rs:227` | only a missing socket lets `eval` fall back, not a stale one | `README.md:94`; the test at `main.rs:506` expects the code's behaviour |
| `eval.rs:620` | two workers that make the same GC root: the second reports `gcRootError` although the root exists | test at `eval.rs:671`. `RootsRegistered` asks only that a root without an error exists |
| `eval.rs:305` | a path in `meta` that is not UTF-8 fails the derivation | comment at `eval.rs:256`: unreadable parts are dropped. The instance has no such path |
| `eval.rs:149` | a root that is a function returning a function is called for the empty path only | comment at `eval.rs:61`. The instance's root is an attribute set; `AttributesAreRight` supposes that it is no function |
| `evix-cli/src/main.rs:178` | `..` is not made absolute for the daemon | tests at `main.rs:589`, `main.rs:634`. Not among the references of `data_path` |
| `worker.rs:468` | `path:` without a fragment is locked virtually | `README.md:115`: local flakes are checked. References of `data_path` have a fragment |
| `worker_process.rs:437` | an option value with `#` or several spaces passes, and Nix reads it cut; a key that starts with `#` is a comment, and for a key of two words Nix refuses the file | `README.md:223` gives `--option KEY VALUE` without restriction. `SettingsInForce` excepts what Nix cuts; `RefusedForCause` names what Nix refuses |
| `worker_process.rs:456` | with an option, an empty `NIX_USER_CONF_FILES` counts as none and the user's `nix.conf` is read, which Nix would not do; of the files under `XDG_CONFIG_DIRS` none is listed | without an option Nix reads those files and not the default one. `SettingsInForce` is about the settings of the files Nix would read, which the code keeps; the second part is not modelled |
| `async_master.rs:191`, `worker.rs:232` | a non-local reference is locked once for a run, and every worker imports that graph | `README.md:115`: such references "are still locked virtually inside each worker", so not reproducible with several workers. `WorkersAgree` and `OneGraphPerRun` hold for them too |
| `evix-cli/src/main.rs:145` | `daemon_config` makes only the input absolute: a relative `--override-input` is read in the daemon's directory, which is `/` | the same command with `--no-daemon` reads it in the user's. `SameInput` excepts it |
| `watch.rs:222` | `../x` cannot be watched | `README.md:124`. Not among the references of `data_path` |
| `evix-protocol/src/lib.rs:271` | a `meta` of null is lost between daemon and client | `README.md:307`. Excepted in `LineSurvives` |
| `evix-cli/src/main.rs:263` | the client leaves at the first failed re-evaluation of a watch | test at `watch.rs:347` and `README.md:124`: the watch goes on |

## 7. Plan

Done: every component of section 1 but the generated bindings has its module and its run, and every
safety invariant has its theorem. Left: action properties that follow from the invariants (what is
printed only grows, and a replay that was invalidated stays so for its session).
