# dapz in TLA+

A verification development for [dapz](../src): TLA+ models of the parts of the
program where order, sharing and failure matter, TLC runs that check them on small
instances, and TLAPS proofs that hold for instances of every size. Paths below are
relative to the repository; `server.rs:265` means `src/daemon/server.rs`, line 265.

## 1. The system

dapz sits between debug clients (editors, MCP agents, Rust programs) and debug
adapters that speak DAP over the stdio of a child process.

| component | files | state it keeps | operations | talks to |
|---|---|---|---|---|
| Daemon server | `daemon/server.rs`, `status.rs`, `protocol.rs`, `mcp/pool.rs` | session pool (one mutex), status record (a second), each session (its own), connection count, shutdown channel | accept, the arms of `dispatch`, idle reaping, self exit, teardown | clients over a Unix socket, one task each; sessions by `Arc` |
| DAP session | `mcp/session.rs`, `adapter_kind.rs` | seq counter, event buffer (at most 64), output buffer, last use | launch, attach, resume, pause, single requests, waits, drain | one adapter child over pipes |
| Daemon client | `daemon/client.rs`, `socket.rs` | socket path, next id, `owns_daemon` | connect or start, `call`, shutdown on drop | daemon, socket file |
| Compression proxy | `proxy.rs`, `transport/*` | lifecycle state, frame states | handshake, select loop, disconnect | client stdio, adapter stdio, interceptor chain |
| Interceptors | `interceptors/*`, `metrics.rs` | configuration; counters | pass a message along the chain; the compression algorithms | called by proxy and MCP server |
| MCP servers | `mcp/server.rs`, `mcp/daemon_server.rs` | pool or daemon client, last key | 21 tools | sessions, or the daemon |
| Agent SDK | `agent_sdk/*` | handles, lazily started pool | the session's operations, locally or through the daemon | sessions, or the daemon |
| Adapter discovery | `adapters.rs` | none | find an adapter by language or extension, on this machine | the MCP servers, `init` |
| Configuration | `config.rs`, parts of `main.rs` | none | build a configuration from a file, the environment and flags | the proxy |
| init and uninit | `init/*` | three files | install, remove, show | the file system |
| Codecs, command line | `codec/*`, `main.rs` | none | parsing, printing, starting one of the above | all |

What is hard in it:

* **Locks across awaits.** The daemon's handlers hold tokio mutexes while they wait
  for others. Which task may be where, with which lock, and whether all of them get
  on, is a matter of interleavings that the integration tests (one or two clients, one
  request at a time) do not reach.
* **References that outlive the pool's.** A request clones the `Arc` of a session
  under the pool's lock and locks the session afterwards. Meanwhile the key may be
  removed, replaced or reaped.
* **Answers and events out of order.** A session's waits sort what arrives; requests
  give up and are answered later; `initialized`, `stopped` and the launch response may
  come before, during or after the wait for them; the event buffer overflows.
* **Lifecycle.** Daemons are started on demand, share a socket path, stop themselves
  when idle and are stopped by the client that started them.
* **Cancelled reads.** The proxy reads two byte streams in one `select!`.
* **One tool, five spellings.** Each of the 21 tools is written out in the local MCP
  server, the daemon-backed one, `dap/invoke`, the agent handle and the agent pool.
* **Clients that give up.** A tool call or an agent stops waiting after 30 s; its
  operation goes on in the daemon and its answer comes during a later call.
* **Files edited in a row.** `init` edits three files of the user's, each of which may
  be in any state, and may fail between or within any of them.
* **Lossy rewriting.** Seven interceptors cut, fold and drop parts of a message one
  after the other, and each sees what the ones before it have left.

`PROJECT.json` lists these as hazards, each at its line, with the properties about it.

## 2. Modules

```
SessionRegistry        what the daemon promises, without locks or bookkeeping
DaemonServer           the daemon, one step per await
DaemonServerProps      its properties, and the refinement to SessionRegistry
DaemonServerProofs     their proofs
MCDaemonServer         instances for TLC (symmetry)
DapSession             one session and the adapter behind it
MCDapSession           its properties, for TLC
DapSessionProofs       their proofs
DaemonLifecycle        clients and the daemons they start, around one socket path
MCDaemonLifecycle      its properties, for TLC
DaemonLifecycleProofs  their proofs
DapProxy               the proxy, its frame reader and the two streams it reads
MCDapProxy             its properties, for TLC
DapProxyProofs         their proofs
ToolCatalog            the 21 tools as each front end spells them out
Adapters               which adapter a launch uses on which machine
SharedSessions         the pool behind the front ends, in process or in a daemon
McpServer              concurrent tool calls of either MCP server
AgentPool              agents that embed the SDK
FrontEnds              an MCP server and agents side by side
FrontEndsProps         its properties
ToolTableProofs        what the tables of tools agree on, proved
FrontEndsProofs        proofs of the properties
MCFrontEnds            scenarios for TLC
Configuration          where a configuration of the proxy comes from
InterceptorChain       what becomes of one message, and what a reader can still tell
InterceptorChainProofs what holds of every chain, message and configuration, proved
MCInterceptorChain     its instance for TLC: all small messages, some configurations
Installation           what init and uninit leave of three files, whatever fails
InstallationProofs     what holds of them, proved
```

### DaemonServer

A task (`handle_client`, the accept loop of `start`, the reaper) advances from one
lock acquisition to its next await. `pc[c]` names the await at which the task of
connection `c` is; `meth[c]` and `key[c]` are the request it serves. A guard that the
code drops before the next await is taken and released within a step, so `poolLock`,
`statusLock` and `sessLock` name only a holder that waits for something else.

| model | code |
|---|---|
| `pool`, `sessLock` | `DapPool.sessions`, a map of `Arc<Mutex<DapSession>>` |
| `ref` | the `Arc` a request has cloned (`server.rs:298`, `327`, `350`) |
| `sessions`, `statusLock` | `DaemonStatus.sessions` and the mutex around it |
| `exited`, `quiet` | what `try_wait` and `last_used_at` would report |
| `Active` | `active_connections`, counted from `accept` to the drop of `ConnectionGuard` |
| `SpawnLock` .. `SpawnRecord` | `dap/spawn` (262-286): pool locked, status locked twice inside |
| `RemovePool`, `RemoveForget` | `dap/remove` (287-295) |
| `Lookup` .. `OpReturns` | `dap/invoke`, `dap/request`, `dap/wait_event` (296-372) |
| `DisconnectOk`, `DropPool`, `DropForget` | the tail of a `disconnect` (307-311), with the session locked |
| `StatusLock`, `StatusKeys` | `daemon/status` (373-385) |
| `Accept` .. `Unlink` | `start` (79-123) |
| `ReaperWakes` .. `SelfExit` | `spawn_idle_reaper` (141-190) |

A session is identified by an element of `Insts`; dropping its last reference
(`Refer`) frees it, and a later spawn may use the same element for a new child.
`IdleTicks` is `DAEMON_IDLE_TTL / REAPER_CHECK_INTERVAL`: the reaper's clock counts
its own ticks. A request line that is not JSON is answered without touching any
state, so it is no action. A client that leaves while its request is served is one
that hangs up right after: the task notices at its next read or write.

### DapSession

An operation is a script of four kinds of steps: `ask` (`send_request`), `post`
(`send_request_no_wait`), `await` (`wait_for_event_where`,
`wait_stopped_or_terminated`) and `collect` (the loop at the end of `launch_program`).
`Script` gives them for every public method; methods that differ in the command only
share one. The actions are the arms of the loops these four steps run.

The adapter is external: it may do what DAP allows. It answers when it likes, accepts
or refuses a launch and answers an accepted one whenever it likes (also with a refusal, while
the debuggee is starting or running), sends
`initialized` any time after `initialize`, stops, prints and ends, and may exit.
Events carry an id (their position in `sent`) and the last request the adapter had
handled when it sent them. `taken` and `drained` record what callers were given; no
guard reads them.

### DaemonLifecycle

One path in the file system, several clients, and the daemon processes they start; a
daemon is named after the client that started it. `connect_or_start` is `Connect`,
`StartDaemon`, `ConnectOwning` and `StartTimesOut`; `call` is `Call` and the three ways
its receive loop goes on; `Drop` of an owner leaves `DropShutsDown` or `DropFails` to
its helper thread. A daemon goes through the system calls of `start` one by one
(`FindsSocket`, `Removes`, `Binds`), since another daemon or a teardown may come in
between. What `DaemonServer` details, a request being served, is one step here or
none: `Serve` has no fairness.

A call whose daemon ends has no further step in the model: `read_line` returns an
empty line at the end of a stream, `call` skips empty lines, and so it loops
(`client.rs:124`). The text "Daemon connection closed" (`client.rs:123`) is only
reached by other read errors.

### DapProxy

`state` is the proxy's `State` (and `Failed` for a `start` that returned an error);
`step` counts the awaits of the handshake. Streams are sequences of pieces
`<<frame, p>>`: 1 and 2 are a header cut anywhere, with its blank line in 2, and 3 is
the body. That is the least that tells a read cut inside a header from one cut after
it: the first fails at once, the second swallows the next frame's header first.
`buffer` is the client's `BufReader`, of which there are two in succession, each
filled with all that is there; `clientFrame` is a local of `read_stdin_frame` and dies
with it, `serverFrame` belongs to the transport and does not. `ClientArm` and
`ServerArm` are the branches of `select!`, and the handshake's reads too, which wait
for one side at a time.

### The front ends

`ToolCatalog` translates the five tables of tools one by one, with the arguments each
parses, needs and hands on, the session method or `dap/invoke` op each names, and the
compressor of the answer. They are data: what is checked, and proved, is that they agree
wherever a call may come from. `Adapters` is the search of `adapters.rs` over a machine, which is
a set of executables and environment variables.

`FrontEnds` composes three modules that share the variables of `SharedSessions`. There a
*worker* carries out requests one after the other: a tool call of an in-process server
works for itself, a connection has a task in the daemon, and an agent's handle that owns
its session works for that alone. `Lookup`, `LockSession`, `Run` and `Unpool` are the
steps of the daemon's `dispatch` and of the local handlers alike, which lock in the same
order. `McpServer` adds what a tool call does before and after (parse, resolve the
session, take the client's mutex, remember or forget `last_key`), `AgentPool` the handles
that an agent's first operation on a name starts. Of the daemon's other parts only
`Reap` and `DaemonEnds` are kept, of a session only whether an operation on it succeeds.
`Reap` takes any sessions out of the pool that nobody uses: how old they must be is left to
`DaemonServer`.

| model | code |
|---|---|
| `pool`, `poolLock`, `sessLock`, `ref` | as in `DaemonServer`, or `McpServer.pool` of an in-process server |
| `origin` | history: the key each adapter was started for, and who had it started; no guard reads it |
| `Reap`, `DaemonEnds` | `reap_idle` at a tick of the daemon's reaper; the end of the daemon, however it comes |
| `link`, `inbox` | a connection, and the requests written to it, also those nobody waits for any more |
| `target`, `last` | the key a call has resolved, `last_key` |
| `clientLock` | `DaemonMcpServer.client`, held over a request and its answer |
| `handles` | `AgentPool.handles` |
| `Reach`, `Connect`, `Send`, `Unlock` | `ensure_connected`, `spawn_session` and `invoke` (`daemon_server.rs:56-113`) |
| `GiveUp`, `AgentGivesUp` | the 30 s of `client.rs:118` |
| `StartLocal`, `StartConnect`, `Joined` | `AgentBuilder::start` |

Which session a call gets is the subject of two properties. `CallsReachTheirKey`: one that was
started for the backend and cwd the call has resolved, whatever becomes of the pool and of
`last_key` meanwhile. `LaunchesFresh`: a launch of the in-process server runs on the adapter
it had started, which it holds on to from the spawn. A launch of the daemon's server is two
requests, `dap/spawn` with `replace` and `dap/invoke` (`daemon_server.rs:220`, `235`), and
the client's mutex is free between them, so the second may find an adapter that took the
place of its own, but none older. That one may have been used already: two launches of one
key whose spawns both come before their invocations run on the same adapter. The
"fresh launch/attach" of `protocol.rs:61` is said of the `replace` flag of a spawn, which does
start a fresh one. Neither property says that a session stays in the pool: an in-process
disconnect removes by key (`server.rs:1018`), possibly the session of a launch that came in
between, whose next call is then told that there is none. The daemon's disconnect does
the same, and `daemon_disconnect` shows it. The handle of an agent (`AgentPool`) makes no
launches fresh: it uses its session for as many as the program asks for, so
`LaunchesFresh` is about calls only.

### Installation

Nothing runs concurrently in `init`, but every step may fail and leave a part of its
work. So a step is an operator that returns the set of its possible results, and a
command folds its steps with `Then`. There is no state machine and no run: the theorems
quantify over all files a command may start from.

### Configuration

Three ways to a `Config`: the command line with the environment behind it (`clap`), the
builder of an embedder, and a TOML file. Metrics are no part of it: `RunsWith` adds what
`run_proxy` takes from the flag `--metrics` or from `DAPZ_METRICS`. `MCInterceptorChain` takes its configurations
from these operators, so that the chain runs with what `main.rs` makes of them;
`ConfigurationsFit` says that the proofs about the chain cover all it can make.

### InterceptorChain

One adapter message at a time goes along one of three paths. On the proxy's
(`process_server_message`), each interceptor is skipped, answers with a new message,
drops it or fails; then the frame is written as the format says, or raw, as one is that
is no DAP message or cannot be encoded. On the tools' (`compress_response` of the MCP
server and of `AgentHandle`), the one compressor of its kind runs, with hard-coded
limits and no regard to the configuration; with an agent's compression switched off,
none does. `config` is the proxy's `Config`, chosen in `Init` and never written.

The algorithms are operators on texts, which are sequences of the characters they tell
apart: one that takes two bytes, one that is a parameter of an escape sequence, two
that may end one, ESC and the line end. A path is the sequence of its components, a
frame an id, a path and a presentation hint, a variable its reference, type, value and
optional fields. No interceptor of the repository drops a message or fails; the chain's
interface allows both, and the library lets embedders add their own, so the instance
has a `custom` interceptor behind capping that does either.

The properties compare the message with its compression through reference definitions
that say something else than the algorithms do: `Visible` picks by position the characters
that belong to no escape sequence, where `StripAnsi` is a scanner; `Unfolded` writes every
folded line as often as its mark says; `IsCutOf` says what a cut text may be;
`FunctionOf` and `FramesTraceable` find the function of a trimmed name and the path a
blanked one stands for. (They have `Picked` and `Lines` in common with the algorithms,
which only write out a selection and the lines of a text.)

What an adapter may send is `IsMessage`: texts of the six characters, items with the fields
of their kind, one of the categories that DAP lists, and source paths that name a file,
which is to say that the last component is not empty. `MarksTold` says that the marks
` (xN)` are no characters of the text and differ for different N. It is the abstraction's
assumption on `ToString`, which TLC evaluates for every message: where a program prints
such a mark itself, its output cannot be told from a folded one.

The properties leave out what the code does lose:

* `strip_ansi` pushes bytes as characters (`utils.rs:80`), so a character of several
  bytes comes out as several others: `OutputReadable` is about texts without one.
* The limits of capping, variables and evaluate compare bytes and take characters
  (`capping.rs:101`, `variables.rs:89`, `evaluate.rs:58`): a text of several-byte
  characters may get the mark although nothing was cut. `exception.rs` counts
  characters.
* `append_line` takes an empty result for the first line (`output.rs:112`), so an empty
  first line is lost.
* Capping comes before stripping (`main.rs:459`): a cut inside an escape sequence leaves
  the mark's dots as its parameters, and they are stripped with it. `OutputReadable`
  reads the visible part of the capped text, which has lost them too.
* A variable whose value is replaced by an array's length keeps its `memoryReference`
  (`variables.rs:83`), which the header (`variables.rs:13`) says is removed.

## 3. Runs

| run | properties | shows |
|---|---|---|
| `daemon_safety` | `TypeOK` `LocksMatchPlaces` `SpawnOwnsItsKey` `GuardedByItsLock` `BusySessionLeavesOnRequest` `DeadSessionNotServed` `ImplementsRegistry` | every method, two connections, one key, three sessions |
| `daemon_progress` | `RequestsAnswered` `ShutdownCompletes` `UnusedDaemonStops` `QuietSessionsReaped` | liveness, with the methods that wait for a second lock except `daemon/status` |
| `daemon_stuck` | `ShutdownCompletes`, violated | `dap/spawn` against `daemon/status` |
| `daemon_disconnect` | `DisconnectDropsItsOwn`, violated | a late `disconnect` against a `replace` |
| `session_operations` | `TypeOK` `OutputKept` `OldestOnce` `ResponseIsForItsRequest` `StopsReachCallers` `OperationsEnd` | launch or attach, resumption, waits, stale responses, a full buffer |
| `session_stale_stop` | `NextStopIsNew`, violated | a buffered stop answers a later resumption |
| `daemon_lifecycle` | `TypeOK` `StaleAfterKillOnly` `CallGetsItsResponse` `CallsEnd` `NothingLeft` | two clients, two daemons that remove each other's socket file, one kill, late responses |
| `proxy_loop` | `TypeOK` `InStep` `MessagesDelivered` `CloseEndsProxy` | handshake and loop, reads cancelled at any piece, either side leaving at any time |
| `proxy_cancelled_read` | `ReadsWholeFrames`, violated | an adapter's message in the middle of a client's frame |
| `compression` | `TypeOK` `OutputReadable` `ResponsesReadable` `FailsOpen` | every small message of every kind, on all three paths, with configurations from the command line, the builder and a file |
| `front_ends` | `TypeOK` `ToolsAgree` `LaunchesFresh` `CallsReachTheirKey` `ImplementsRegistry` `CallsReturn` | every tool with every choice of arguments through every front end; launches on six machines; two calls at once; agents beside an MCP server |
| `session_launch` | `LaunchResponseCollected`, violated | an early launch response is dropped |

**Bounds.** In the daemon, two connections compete for every lock with each other,
the reaper and the teardown; a cycle of waits needs no third, since there are two
global mutexes and a session's mutex is never waited for while another is held by the
same task in the opposite order. One key is enough because keys interact through the
two global mutexes only, which one key already contends for (the proofs cover any
number). Three sessions are one in the pool, one kept alive by a request, one to
spawn. `IdleTicks = 2` is the least value at which the clock starts, runs and expires
at different ticks. `daemon_progress` has one session and `IdleTicks = 1`: a spawn that
finds no free element fails, which the code can do too.

In the session, `MaxSeq = 4` is a launch (or an attach) and one more request,
`MaxPending = 2` and `MaxSent = 3` are a `stopped` and two events that push it out of
the buffer. Two buffered events are what order needs.

Two clients can start two daemons, which is what removing each other's file takes; a
third would start late and find what the second found. `MaxCalls = 2` is a call that
gives up and one that may get its response. Three of the proxy's five frames and
messages are the handshake's; the two that remain in each direction let a frame lose
its first part, then the rest, and the next one be read from its beginning again.

A message of `compression` is one of all texts of at most 5 of the 6 characters, which
hold an escape sequence with a parameter next to text, and three lines of which two
are equal; one of all stacks of at most 3 frames in two files that shorten to the same
path, a top-level file and none, synthetic or not; or at most two variables. The limit 2
cuts every one of them, 0 none.

A scenario of `front_ends` is two tool calls, a plan for one agent with two session
names, and a machine. `ToolsAgree` needs each tool once per front end, with all its
arguments, the required ones, and all but one of those; `LaunchesFresh`, `CallsReachTheirKey`
and `CallsReturn` need two tasks that meet at a lock, of which one may be the worker of a call that gave
up. Two adapters are one and its replacement (a third spawn fails, which the code can do
too), two daemons one that ends and its successor, two connections of an agent the one it
gave up on and the next, or one for each of two names.

**Fairness.** `InterceptorChain` has no liveness property and no fairness. `DaemonServer!Fairness` is strong for every handler, for the accept
loop and for the reaper: tokio's mutexes are queues, so a waiter gets a lock that is
released again and again. It contains that operations on adapters end, which is
`OperationsEnd` of `DapSession` for an adapter that does not talk forever, and that the
reaper's timer fires. `SeeShutdown` has its own strong fairness since `select!` polls
its branches in random order: incoming connections cannot hide a shutdown forever.
Clients owe nothing. `DapSession!FairSpec` is weak fairness of the session: its task
runs and its timers fire. The adapter owes nothing; that its chatter is finite is
the bound `MaxSent`, and a real restriction: `send_request` starts its 30 s anew with
each message (`session.rs:546`).

`DaemonLifecycle!FairSpec` is weak fairness of a call's loop and of a daemon's life: its
start, its idle timer (which `UnusedDaemonStops` of `DaemonServer` stands for), its
teardown. Clients need not do anything, and no answer need come. `DapProxy!FairSpec` is
weak fairness of either branch of `select!`, which polls them in random order, so that
a chatty side cannot keep the other's branch from completing. `FrontEnds!Spec` has one
weak fairness for all tasks together: scripts are finite, so it is enough that whenever
some task can go on, one does. No call need be made, no timeout need pass, no daemon
need end.

**Deadlock** is not checked where the model has states without successor by design:
`daemon_safety` and `daemon_stuck` contain the real deadlock that `daemon_stuck`
exhibits (progress is a liveness property there); the bounds of the session run out,
and so do the clients of the lifecycle and the scripts of the front ends; the proxy ends.

### What the violated properties mean

* `daemon_stuck`: `daemon/status` takes the status, then the pool; `dap/spawn` the
  pool, then the status. Two clients suffice to stop the daemon for good; SIGINT and
  `daemon/shutdown` do not help, because the teardown needs the pool too.
* `daemon_disconnect`: client A disconnects; while the adapter takes its time, B
  spawns with `replace`; A's handler then removes the key, which is B's new session.
* `session_stale_stop`: a `stopped` that was buffered during an earlier request is
  returned by the next `continue`, which then reports a stop before the resumption.
* `session_launch`: a launch response that precedes the last loop of
  `launch_program` is dropped, and the loop waits its whole deadline for it.
* `proxy_cancelled_read`: the client's frame state is a local of a future that
  `select!` drops whenever the adapter's branch completes first. A frame that arrives in
  two reads with an adapter's message in between loses its first part. What follows
  is `OutOfStep`, or, if the remaining part is cancelled too, a frame silently skipped:
  `InStep` lets the client's own stream, and nothing else, have gaps for that reason.

Four passing properties carry an exception that the code needs. `CallsEnd` excepts a
call whose daemon ends, and `CallsReturn` excepts it with those that wait behind it for
the connection; `CloseEndsProxy` excepts a proxy that waits for the answer to a
disconnect, for which there is no timeout; and no property asserts that the handshake
comes to its end, since an event that precedes the `initialize` response is forwarded
in its place (`proxy.rs:98`) and the proxy then waits for the client, which may be
waiting for that response.

## 4. Proofs

`DaemonServerProofs` proves, for any sets of connections, keys and sessions, any
`Methods` and any `IdleTicks > 0` (assumption `DaemonConstants`, which also says that
`None` is none of them):

* `TypeCorrect`, `MutualExclusion`: `TypeOK` and `LocksMatchPlaces`;
* `SpawnOwns`, `Guarded`, `BusyStays`, `DeadNotServed`: the other safety properties of
  `daemon_safety`;
* `Refinement`: `Spec => Registry!RegistrySpec`, the daemon implements
  `SessionRegistry` under `bound <- pool, user <- sessLock`.

The inductive invariant is `IInv == TypeOK /\ LocksMatchPlaces /\ OnlyReferred`.
`LocksMatchPlaces` is what makes it inductive: that a spawn may write the pool without
a guard on `poolLock` (its guard is already held), that a task which asks for a
session's mutex holds no other session's, and that a session's user keeps a reference
to it are all read off it. `OnlyReferred` says that a freed session leaves no exit and
no age behind for the next child of that identity; `DeadNotServed` needs it for a
freshly spawned session. `RegistryFrame` lists the eleven kinds of steps that touch the
pool or a session's mutex; the refinement and the action properties only look at those.

`DaemonLifecycleProofs` proves `TypeCorrect`, `NoStaleSocket` and `ResponseOfTheCall`
for any number of clients, calls and kills. The invariant is `TypeOK /\
StaleAfterKillOnly /\ InIdOrder`: on a connection the requests and responses that are
under way carry ascending ids, so the response to an earlier call comes before that of
the current one and is read first.

`DapProxyProofs` proves `TypeCorrect` and `StaysInStep` for any number of frames and
messages. `InStep` compares what a reader has with the whole stream; the invariant says
how the stream is cut up at every moment: `AdapterStream` and `ClientStream` place every
piece either behind the reader, in its frame state, in a buffer or still on its way, and
`Ends` says when a side can have left. The cancelled reads are why the client's side
allows a gap and the adapter's none.

`DapSessionProofs` proves, for any operations, buffer cap, and numbers of requests and
events:

* `AnswersItsRequest` from `Types` and `Sending`: whatever is under way with the seq that
  a caller waits for carries that caller's command, be it the request, the response or
  a launch the adapter owes an answer to;
* `TakesOldestOnce` and `KeepsOutput` from `IInv == Types /\ Order /\ Unique`: what the
  session has or has had of the adapter's events is older than what is on its way, the
  buffer is in order, and nothing in it has been taken. `Order` alone shows that what
  arrives is new; `Unique` is needed for a stop that a launch has picked and not yet
  returned;
* `StopsDelivered` with the buffer's cap (`Capped`);
* `TypeCorrect`: `TypeOK`, which bounds every number of the session and of the adapter.
  The numbers of requests are the hard part: an operation starts only if there are
  numbers for all it sends, and `Budget` says that what remains of the operation is a
  rest of its script, for which there are still enough.

`Moves` lists the ten things a step can do with events; the lemmas about `Order`,
`Unique`, `Printed` and the stops look at those only.

`InstallationProofs` has no state machine to prove invariants of. Its theorems are about
`RunInit` and `RunUninstall` for all files and all results: `DryRunWritesNothing`,
`SettingsKept` (the user's other settings and servers stay in the settings file in every
outcome, failures included), `InitInstalls` (an init that succeeds leaves all
three parts, keeps the text of CLAUDE.md, and a second one changes nothing) and
`UninstallUndoes`. Their hypothesis `Constants` says that the values that stand for a
missing file, a broken one and so on differ from each other; TLC runs nothing of this
module.

`FrontEndsProofs` proves of `FrontEnds`, for any calls, agents, sessions, machines and
scenarios:

* `TypeCorrect`: `TypeOK`, which includes that a worker without a request holds no session;
* `ToolsAgreeEverywhere`: `ToolsAgree`, a tool runs the method it names with exactly what
  its schema offers, whoever asks and over however many hops;
* `LaunchFresh`: `LaunchesFresh`, a launch runs on the adapter that it had started, or, through
  the daemon, on one started later;
* `KeysReached`: `CallsReachTheirKey`, a call runs on a session of the key it has resolved;
* `Refinement`: `Spec => ImplementsRegistry`, the pool behind the front ends, in process or
  in a daemon that may end at any time, implements `SessionRegistry`.

The assumptions are `WorkerConstants` (the names of calls, agents, connections and `None`
differ) and `ScenarioConstants` (a call names a tool, and its key and a plan's are keys of
the model; an agent beside an in-process server does not go through the daemon; `None` is
no executable). The inductive invariant says of every queue which requests may be in it
(`Asked`), of every worker what it does with the first of them (`Working`, `Locked`), of
the clients how far they are (`Linked`, `Handled`), and on top of these the four that
the properties come from: `Fresh` (once a launch has had its adapter started, its key names
nothing, that adapter or a later one, whoever else evicts, spawns or reaps), `Apart` (a launch
of the in-process server works on the adapter that it had started), `Keyed` (the pool, a
request and a call only have to do with adapters started for their key) and `Faithful` (each
request under way carries what its tool offers). A request stays in
the queue after its caller has given up, which is why `Asked` and `Fresh` speak of all
queued requests and not only of those that somebody waits for.

`Faithful` needs the five tables of `ToolCatalog`: `ToolTableProofs` goes through them row
by row and shows that each agrees with one table, `Carried`. `FamilyFound` is about the
search for adapters: what it finds can run, and it finds a family's first choice if that
is on the `PATH`.

`InterceptorChainProofs` proves `NothingLost`: `FailsOpen`, for every chain that begins with
capping (`main.rs:459`), every configuration and every set of messages (`ChainConstants`).
The proxy writes nothing only where an interceptor dropped the message. What it writes
otherwise is the raw bytes, or exactly `LastGood`: what capping and the one compressor that has
had its turn make of the message, also where an interceptor behind them has failed. With
metrics on, the failure is counted, and each interceptor that ran is counted once. What is
inductive of it is `IInv == Types /\ Course /\ Counted`, how far the message is and how many
interceptors have been counted, with `Made` below.

The other three properties of `compression` are about what the algorithms compute, and are
proved for texts and stacks of every length, any limits and the same `ChainConstants` (what
`IsMessage` and `MarksTold` above say of the messages, natural limits, and no compressor
twice in the chain):

* `MessageStays`: `TypeOK`, no interceptor adds an item, a field, or a symbol other than the
  mark of a repeated line;
* `EventsReadable`: `OutputReadable`, what is written of an output event unfolds to the
  visible part of the text that capping let through;
* `AnswersReadable`: `ResponsesReadable`, frames can be traced to functions and files,
  variables have their types and values, scopes their names, and texts are whole or cut
  where the limit says.

All four rest on what has happened to a message so far, which makes the invariant
`WInv == IInv /\ Made /\ Few`. `Made`: on the
proxy's path the message is the adapter's, or capped, or capped and then compressed once;
on a tool's it is compressed once, with nothing capped; an agent's is as it was. It is
inductive because a compressor applies to one kind of message only, so that no two of a
chain do (`OneCompressor`). `Few` bounds the counters. With `Made` the properties are about
the operators alone: `FinishedOutput` and `FinishedResponse` state them of
`Compress(Cap(m, L), L)`.

The algorithms are folds, which the community modules define by `CHOOSE` of a recursive
function. The library's induction theorems have an operator for a parameter, which the
provers cannot instantiate. What is needed of induction is proved here from the
well-foundedness of the numbers, with a set in place of the operator (`UpTo`, and `BySnoc`
for sequences that grow at their end); `FoldExists` and `FoldFacts` give a fold as the last
of its partial results, and for each algorithm there is a lemma that takes it one step on
(`LinesOf`, `GroupedOf`, `StrippedOf`, `AbbreviatedOf`, `PickedOf`). On these rest

* `StripIsVisible`: after i characters the scanner has put out exactly the visible ones of
  them, and its mode says whether the next is hidden (`StripAgrees`);
* `FoldedRead`: folding and unfolding the lines of a text gives the text, but for an
  empty first line. Its invariant, `Told`, relates the groups written so far and the one
  being counted to the lines read; it needs that no line carries a mark already, that a
  line's mark survives being joined (`LinesJoined`) and that no group is larger than
  `Repetitions`;
* `FunctionKept`, `ShortenedPath`, `FramesTold`: a trimmed name has the same function, a
  shortened path is an end of the path, and each blank path stands for the last one that
  is written out;
* `CutText`: of a truncated text, by bytes or by characters.

`ConfigurationsFit` closes the gap to `Configuration`: whatever the builder, the command line
or a file make, of any settings, environment and file, is, with `RunsWith`, a configuration as
`ChainConstants` asks for, and so is the chain of `build_interceptor_chain`. `SameSettings`
says that the three ways agree: they make the same `Config` of the same settings if all of
them parse, the environment is empty and a table of limits in the file names the three that
serde requires. Where one of these fails, they differ: the builder ignores a variable that
does not parse, `clap` refuses it, and a file never sees it.

What stays with TLC: liveness and what rests on `ENABLED`, everywhere. Every safety invariant
and every action property of a passing run has a theorem.

## 5. Plan

What the next extensions would be, in this order:

1. A line of the daemon's protocol cut in two by the 30 s of a call (`client.rs:120`),
   with the pieces of `DapProxy`: whether the next call takes the rest for its response.
2. Characters of several bytes in `strip_ansi` and the limits that compare bytes: what a
   reader can still tell of them, which `OutputReadable` leaves open.

## 6. Not modelled

* **Codecs** (`codec/*`): parsing and printing of single messages, without state. Their
  failures are outcomes in the modules that call them.
* **Message contents** other than what `InterceptorChain` keeps of them, and the wording
  of answers, tool descriptions, logs and `DAPZ.md`.
* **Sums of bytes and latencies** in `metrics.rs` and the counters of the status record;
  which messages are counted is part of `InterceptorChain`.
* **Sizes**: the limits of headers and bodies in `framing.rs` are abstract, any rejected
  header ends the proxy.
* **Command line** apart from what becomes of its options; the choice of a transport.

`DapProxy` starts where `Proxy::start` does. Before that, `main` reads the shared
configuration with `blocking_read` (`main.rs:256`, `449`) on a thread of the tokio
runtime, which tokio documents as a panic; the models say nothing of it.
