# lway: a TLA+ model of the supervisor

lway is a small process supervisor: one daemon, one thread, one `mio` poll
loop. It starts the configured applications in cgroups of their own, watches
them through pidfds, restarts them by policy, captures their output in ring
buffers, and serves two Unix sockets (control and logs). This directory holds
TLA+ models of that daemon, TLC configurations that check them on small
instances, and TLAPS proofs for instances of any size.

All paths below are relative to the repository; `runtime.rs` is
`src/runtime.rs` there, and so on.

## Inventory

| Component | State | Operations | What makes it correct |
|---|---|---|---|
| Event loop (`main.rs`, `support/signal.rs`) | `Runtime { apps, stopping, sigint_count, mio_token_slab }`, the events of the current batch | startup, poll with a timeout, dispatch by token, restarts, SIGINT shutdown, exit check | every event reaches who it is for; nothing waits for an edge that never comes; two SIGINTs end the daemon; the daemon does not abort |
| Application (`runtime.rs`, `cgroups.rs`) | `App { state, stop_requested, consecutive_failures }`, `AppRuntime { pid, cgroup, pipes, pidfd, tokens }` | `create`, `start`, `stop`, `maybe_restart`, `schedule_restart`, `poll`, `AppRuntime::start/stop` | tracks exactly one unreaped child while running; a stop sticks; restarts follow the policy; no process survives |
| Restart policy (`restart.rs`) | none (configuration) | `is_never`, `delay_for` | gives up after `max_restart_attempts` consecutive failures; delays grow, reset and stay within their maximum |
| Token slab (`support/mio_token_slab.rs`) | free list, capacity | `allocate`, `free` | no token has two owners, none is lost |
| Control socket (`ipc.rs`) | `connections: token -> Connection` | `accept_all`, `handle_readable`, `handle_writable`, `reconcile`, `close` | one response per request, flushed before the close, however slow or rude the client is |
| Output capture (`runtime.rs`, `support/pipe.rs`) | two pipes, byte counters | the splice loop of `poll`, `drain_pipe` | no output of the child is lost, reordered or miscounted |
| Log buffer (`support/log_buffer.rs`) | memory, `write_pos` | `splice_from_and_view`, `read_from_cursor`, `start_pos` | always the last `capacity` bytes, each at its place |
| Log socket (`log_ipc.rs`) | `connections`, a cursor per connection | `accept_all`, `handle_readable`, `try_send`, `push_updates`, `reconcile`, `close` | clients get the log verbatim, followers are current, dumps are complete |
| Clients (`cli/`) | none | `send_request`, `logs::run` | environment of the two sockets |
| Configuration (`config.rs`, `parser.rs`) | the file and `apps_dir`, read once | `load`, `all_apps`, `scan_apps_dir`, `validate_log_buffer_size`, `resolved_uid/gid` | every application that is described is supervised; what cannot be served is refused |
| What outlives the daemon | socket files, cgroups, processes | the two `bind`s, `init_main_cgroup`, the end of `main` | a daemon serves whatever a killed one left behind, and cleans up |
| Memory mapping, users and groups (`support/`) | none | `mmap_ring_buffer`, lookups, `setgid`/`setuid` in the child | a range of the ring may run past its end; a program runs as configured |
| Statistics, protocol, logger | counters | formatting | bytes and uptimes add up |

How they interact: the loop calls every component synchronously and hands each
the poll registry and the shared slab. The only concurrency is between that
thread and its environment: kernel, application processes, descendants,
clients, the clock and SIGINT. What is hard in this code comes from there:

* **edge-triggered epoll**: an edge is reported once; whoever consumes it must
  finish the work or register again;
* **batches**: events are collected before they are handled, so an event can
  be stale (its token freed, even reused by the LIFO slab) when its turn comes;
* **partial failure**: `AppRuntime::start` takes a cgroup, a process and three
  tokens one after the other, and its early returns give none of them back;
* **races with exit**: a child exits while it is being stopped, restarted,
  drained or while a restart of it is pending; descendants outlive it;
* **shared limits**: applications and connections compete for tokens;
* **overwriting**: the ring moves on under a client that is blocked;
* **several lives**: a daemon may be killed anywhere and leaves socket files,
  cgroups and running applications to the next one, or run beside it;
* **arithmetic**: offsets that wrap, a position that overflows, delays that are
  computed in floating point.

`PROJECT.json` lists the hazards line by line with the properties that cover
them.

## Modules

| Module | Models | Extends |
|---|---|---|
| `MioTokenSlab` | the token allocator: a stack of vacant tokens | |
| `RestartPolicy` | the decision of `schedule_restart` as operators | |
| `App` | applications, processes and cgroups: the methods of `App` and `AppRuntime` as action fragments, the kernel as environment actions | both above |
| `Ipc` | the control socket and its clients, as action fragments | `App` |
| `LogConns` | the connections of the log socket as holders of tokens, as action fragments | `Ipc` |
| `Supervisor` | `main.rs`: the loop as actions over `pc`, composing all of the above; properties, fairness | `LogConns` |
| `AppLife` | abstract: an application as its user sees it; `Supervisor` implements it | `RestartPolicy` |
| `SupervisorProofs` | proofs: types, the tracked child, restarts and stops | `Supervisor`, `TLAPS` |
| `SupervisorTokens` | proofs: the owners of tokens and their number, the control socket's responses, wakeups | `SupervisorProofs` |
| `SupervisorLife` | proofs: shutdown, exit, the refinement of `AppLife`, when the daemon does not abort | `SupervisorTokens` |
| `RestartDelay` | `RestartDelay::delay_for` with the edges of `f64` | |
| `RestartTimer` | deadlines, the timeout of `poll`, uptimes, in time | `RestartDelay`, `RestartPolicy` |
| `Config` | the configuration and what becomes of an entry, as operators | |
| `Lives` | startup, exit and death of daemons over one file system | `Config` |
| `RingBuffer` | the circular log buffer and its double mapping | |
| `LogCapture` | pipes, splice loop and final drain of one application | `RingBuffer` |
| `LogServer` | the log socket and its clients | `RingBuffer` |
| `LogStream` | abstract: what a client of the log socket is sent; `LogServer` implements it | |
| `RingProofs` | lemmas: where bytes are in the ring | `RingBuffer`, `TLAPS` |
| `LogCaptureProofs` | proofs: what reaches the log | `LogCapture`, `RingProofs` |
| `LogServerProofs` | proofs: what reaches the clients, the refinement of `LogStream` | `LogServer`, `RingProofs` |
| `RestartTimerProofs` | proofs: delays, deadlines, attempts, uptimes | `RestartTimer`, `TLAPS` |
| `LivesProofs` | proofs: what a daemon finds, serves and leaves | `Lives`, `TLAPS` |
| `MCSupervisor`, `MCRestartTimer`, `MCLives` | parameter records, requests, policies, configuration files and symmetry for TLC | the module after `MC` |

Operators named `X_Something` right before `X` are mutants: `X` with a
plausible bug. With `X` replaced by one of them, TLC refutes the property that
`PROJECT.json` names.

### Supervisor

`pc` is where the thread is: `create` (one `App::create` per step), `poll`,
`events`, `accept` and `log_accept` (inside an `accept_all`), `request` (a control request visits
the applications in order), `restart` (the `maybe_restart` loop), `shutdown`
(the `stop` loop after SIGINT), `check` (the end of the iteration), `exited`,
`panic`. The environment acts between any two steps, so handlers are not
atomic where system calls of the code could see a change; what a handler does
in one step is one whose calls commute with the environment or are a single
system call.

* `app[a]` is an `App`: `state`, `restart_deadline` (`none`, `waiting`, `due`;
  `DelayElapses` is the clock), `stop_requested`, `consecutive_failures`, and
  the `pid` and `tokens` of its `AppRuntime`.
* `proc` is the process table: `live`, `term`/`kill` (a signal was sent, the
  process has not ended), `zombie`, `free`; `child` tells children of the
  daemon from descendants. Pids are reused as soon as they are free.
* `cgroup` is the set of applications whose cgroup directory exists. The main
  cgroup can be deleted only when it is empty, which is how the kernel's rmdir
  behaves; `Cgroup::delete` itself is a library outside this repository.
* `ready` is the set of tokens with an edge epoll has not reported; `batch`
  the events that were reported and not handled. `Poll` moves all reportable
  edges, or as many as `Events::with_capacity(max_mio_tokens)` holds. Events
  are handled in any order.
* `conns[t]` is a `Connection`; `write_buf` counts the chunks in it. A client
  record has the request, how far it was read, the chunks in the client's
  socket (`inq`, at most `SocketChunks`) and those received.
* `logs` is the set of tokens of log connections. What they stream decides when
  they are closed, and that is `LogServer`'s subject: here an event, or
  `push_updates`, may close any of them (`HandleLog`, `PushUpdates`), which
  covers whatever the real streams do to the tokens.
* `Faults` names the system calls that may fail; `RuntimeFails` is every early
  return of `AppRuntime::start`. `"eintr"` lets poll return without events.

`AppRuntime::stop` (deregister and free the tokens, kill the cgroup, wait,
delete it) and `schedule_restart` are part of `Reap`, as in the code.

### LogCapture, RingBuffer, LogServer

A byte in `LogCapture` is `<<stream, n>>`, so order, loss and duplication show.
`Splice` takes any number of bytes the pipe, `MaxXfer` and the end of the ring
allow; `SpliceSome` and `DrainSome` are its two callers, and `LoopEnds` is how
their loops end. `log`, `echoed` and `failed` (the pipes whose last loop ended
with an error) are history variables. In `LogServer` byte `i` of the log is the number `i`; one
round of `try_send`'s loop is `SendChunk`, its end and the caller's reconcile
`SendDone`; `push_updates` is `StartPush`, `PushOne` and `EndPush`. Output
arrives only between handlers, since the thread that splices is the one that
serves the sockets.

### RestartTimer, RestartDelay

The loop once more, with a clock and without processes, tokens and
connections. `Tick` may happen between any two steps, so the thread may be busy
past a deadline. `Poll` computes the time at which the wait ends; the wait may
end before (an exit, a client) and ends at `wake` at the latest, which is what
`NoOversleep` is about. `runs` and `since` are history variables: from them
`BackoffHonoured` and `RestartsBounded` say what delay and how many attempts a
user expects, without the counter that the code keeps. Floats are integers up
to `FloatMax`; a larger one is `Infinity`, and `0 * Infinity` is not a number,
which `f64::min` ignores.

### Config, Lives

`Config` has `config.rs`, `parser.rs` and the part of `main` that turns an
entry into `AppParams` as operators. A file is `missing`, `garbled`,
`unreadable` or its content (`Files`, with the fields that the model reads);
`scan_apps_dir` is a recursive function over the listing. `Lives` has `MaxLives` daemons that share `file`
(the socket files, by the life that bound them), `main_cg` and `cg` (the
directories under it, by path), and `proc`. `Check`, `RemoveStale` and `Bind`
are the three system calls of each `bind`; a daemon may be killed between any
two steps and another may boot at any time. `met` is the set of lives that
overlapped with another: two daemons on the same paths take each other's
sockets and cgroups, and the properties are about daemons that are alone.

In `Lives` applications are started and reaped by single actions, and what
`Supervisor` lets fail does not fail; conversely `Supervisor` begins with an
empty file system. cgroup directories are removed by the `cgroups` library,
outside this repository: the model has the kernel's rule that a directory with
others in it stays.

### Abstract specifications

* `AppLife`: an application is stopped, running or waiting; start, stop, finish
  and retry change that, nothing else does, and the policy alone decides what
  follows a finish. `Supervisor` implements it under `SeenLife`
  (`ImplementsAppLife`, runs `lifecycle` and `faults`): no interleaving of
  events, freed tokens, failing system calls or shutdown shows through.
* `LogStream`: a client is sent the log from its beginning, in order, less what
  is older than `Keep` bytes when its turn comes. A dump sends nothing past
  `until` and ends exactly there, as long as its client keeps up (`Stop`). One
  that falls behind is `late`: it goes on until it has caught up with the log
  and ends only then. `LogServer` implements it under `SeenStream`
  (`ImplementsLogStream`, run `logs`), where a dump is late from its first
  write that blocked. `log_ipc.rs:36-37` calls `dump_until` "the offset to stop
  at" without that distinction; `try_send` compares the cursor with it only
  after a round that did not block, and sends all there is in each round. The
  code keeps to the comment for dumps that are on time and departs from it for
  late ones.

## Runs

| Run | Instance | Shows |
|---|---|---|
| `lifecycle` | 1 application of each of 3 kinds (always restart; on error, at most 1 attempt, no autostart; oneshot), 2 pids, 4 tokens, 1 client with all requests that may hang up, forks, 2 SIGINTs, no faults | type correctness, no abort, token accounting, the tracked child, justified restarts, shutdown, stops that stick, `AppLife` implemented |
| `control` | no application, 3 control clients on 2 connections, 2 log clients on 1, 3 tokens, responses of 2 chunks and sockets of 1 | both sockets under slow, rejected and vanishing clients; interrupted polls |
| `faults` | 1 application, 2 pids, 1 control client that stops and starts it, 1 log client, and their connections that compete for 4 tokens, forks; clone, register, accept, cgroup kill and its timeout fail | no token gets two owners, whatever stale events do; a normal exit leaves no process; `AppLife` implemented all the same |
| `shutdown` | 1 application whose child writes, 1 client that stops and starts it, 2 SIGINTs, fairness, no symmetry | exits are reaped, restarts settle, requests are answered, two SIGINTs end the daemon |
| `capture` | ring of 2 whose position overflows at 4, pipes of 2, 3 bytes per stream, 2 runs, splice may fail at any call, fairness | the log has the child's output, in order, counted, verbatim; a failing splice loses output only in the final drain; up to that drain, all of it is echoed |
| `logs` | ring of 3, 6 bytes, 2 clients, 1 connection, sockets of 2, fairness | what clients of the log socket receive and where a dump stops; a blocked connection goes on once its client reads; `LogStream` implemented |
| `timers` | 2 applications, 6 policies for the first (constant, never, backoffs that grow, vanish, alternate in sign, or overflow) and one for the second, times up to 4, up to 3 runs between two starts | poll does not sleep past a deadline; delays and attempts are what the policy promises; uptimes add up |
| `lives` | 2 lives, 9 configuration files (missing, garbled, misaligned, empty ring, too few tokens, files in `apps_dir` that are no applications), daemons of root and of a user, 3 processes | a lone daemon serves and cleans up whatever was left behind; failures and aborts have the named causes; programs run as configured |

Runs that TLC refutes, each against a sentence of the repository:

| Run | The repository says | The model does |
|---|---|---|
| `give_up` | `restart.rs:72` "`None` means retry forever" | a due restart that fails to start (no token, failed clone) is dropped for good (`runtime.rs:224-227`) |
| `exit_abort` | `main.rs:441` `expect("Failed to delete main cgroup")` | after such a start the application's cgroup and an untracked child remain, and the exit aborts (the tokens taken before the failure are not freed either, `runtime.rs:779-804`, which is why `TokensAccounted` is checked where starts do not fail) |
| `lost_response` | `ipc.rs:5-6` closed "as soon as its response has been fully flushed" | a stop that cancels the last pending restart ends the loop with the response still in `write_buf` |
| `echo` | `runtime.rs:95-96` "every byte spliced into `log_buffer` is also immediately printed" | what the final drain splices is logged and never printed (`runtime.rs:558-576`); `main.rs:75` promises the same to the user, of "every captured" line |

What the properties say that a reader of the code may not expect:

* `EchoUntilDrain`: what is captured while the child runs is echoed at once and
  completely; only the final drain prints nothing, which run `echo` records;
* `LogStream`: a dump whose client does not keep up is sent output that was
  logged after its request (`log_ipc.rs:219-251`), as long as it stays behind;
* `PanicExplained`: an exit also aborts over a cgroup that a killed daemon left
  for an application this one never ran, and over one whose name is a path,
  which is the default when none is configured (`main.rs:226`): the directories
  above it stay;
* `FailureExplained`: a `log_buffer_size` of 0 passes validation
  (`config.rs:29`) and panics in `App::create`, after the process was started;
* `RunsAsConfigured`: a user or group that does not exist is replaced by the
  daemon's (`parser.rs:48`).

### Bounds

One application is enough for everything between an application, its child and
the loop; two are needed for deadlines that come before or after another's
(`timers`). Tokens change hands
between an application and both kinds of connections in `faults`; that they are
as safe among several applications is proved (`TokensOwned`). Two pids let a
pid be reused, or an orphan or a descendant live beside the tracked child. Four
tokens
are one more than an application needs, so that connections and starts compete;
three make the competition fail. `FailBound` caps failures of processes nobody
signalled and exceeds the policy's maximum by one, so that giving up is
reached. `MaxSigints` is `SIGINT_THRESHOLD`. A ring of 2 or 3 is cut at its end
at every offset, and more bytes are written than it holds; in `capture` enough
for `write_pos` to overflow several times. `PosLimit` is `2^w` scaled down, a
multiple of the capacity as it is for the default size (`WidthAssumption`); in
`logs` it is not reached, since cursors of clients do not survive an overflow.
In `logs` a ring of 3 with sockets of 2 lets a dump block half way, and 6 bytes
let what it has not been sent be overwritten while it is blocked. In `timers`,
`MaxRuns` of 3 lets the multiplier -2 reach its third delay and 3 its square,
beyond `FloatMax` = 8; `reset_after_ms` is 2, so that runs are short and long.
In `lives`, two lives are one that leaves something and one that finds it, and
three processes are two applications beside an orphan. Deadlock is checked in
the runs of `Supervisor`, `LogServer` and `RestartTimer`, but for `faults`:
`accept_all` gives up when `accept` fails, and then a daemon without another
event waits for ever with the client in the backlog. `LogCapture` and `Lives`
may stop, when the bounded output has been captured or the last life is over.

### Symmetry

Pids and clients are interchangeable. Tokens are too: actions compare them for
equality only, `SlabOrder` is used in Init and otherwise only for its length,
and it is one arbitrary order, so a permuted behaviour is a behaviour of the
instance with the permuted order and satisfies the same properties. Runs with
liveness properties use no symmetry.

### Fairness

The daemon's thread runs whenever it can (`WF(Daemon)`): it is a single loop
without locks. Delays elapse. A process that got SIGKILL ends; one that got
SIGTERM need not, which is why `ShutdownCompletes` is about the second SIGINT.
Clients read what is in their socket, but need not send, connect or leave.
`ShutdownCompletes` is stated for behaviours in which clients finally stay
away: nothing in the code keeps a client from starting applications while the
daemon is stopping. In `LogServer`, `SF` of the handlers says that an edge that
is pending each time the loop passes is handled at some pass: epoll reports it
and the loop handles every event of a batch before it waits again.

## Proofs

The theorems hold for every value of the constants that the named assumptions
admit: any number of applications, pids, tokens, clients and requests, any
sizes and, but for the theorems whose table entry says "if", any set of
faults. An assumption says what the type of a parameter
is, and in four places more, where the code needs more:

* `WidthAssumption`: the capacity of the ring divides the range of `write_pos`,
  as every power of two does. With another one the bytes would be looked for at
  the wrong places once the position has overflowed.
* `LogServerAssumption`: fewer bytes are logged than `write_pos` can count.
  Cursors do not survive an overflow, which takes 2^64 bytes.
* `TimerAssumption`: a maximum delay is a number that `f64` can hold, as every
  `u64` is (`RestartDelays`).
* `LivesAssumption`: `apps_dir` is finite, and no application has the empty
  name, with which its cgroup would be the main cgroup itself (`Names`).

| Theorem | States |
|---|---|
| `TypeCorrect`, `ChildTracked`, `RestartEarned`, `StopIsFinal` | `Supervisor`: `TypeOK`, `TrackedChild`, `RestartJustified`, `StopSticks` |
| `TokensOwned`, `NoAbortWhileServing` | `TokenOwnership`; the daemon aborts only at startup and at its end (`PanicsAtTheEndsOnly`) |
| `ResponsesDelivered` | `ClosedAfterFlush` |
| `OwnWakeupsKept` | the part of `NoLostWakeup` about children, connections and the signalfd (`NoOwnWakeupLost`) |
| `WakeupsKept` | `NoLostWakeup`, if `accept` and registrations succeed |
| `NoTokenLost` | `TokensAccounted`, if registrations succeed and there are enough tokens |
| `DaemonDoesNotAbort` | `NoPanic`, if in addition forks and `cgroup.kill` succeed and a pid is free whenever an application is stopped (`SpawnPossible`) |
| `NoAbortWithoutDescendants` | `NoPanic`, without `SpawnPossible`, if processes do not fork and there is a pid per application |
| `ShutdownReachesAll`, `ExitLeavesNothing` | `ShutdownReachesEveryApp`, `NoSurvivors` |
| `DaemonImplementsAppLife` | `ImplementsAppLife`, for every application |
| `RingHoldsTheLog`, `CapturedInOrder`, `ReapedWithAllOutput`, `NoEdgeLost`, `BytesCounted` | `LogCapture`: `RingVerbatim`, `StreamsInOrder`, `NoOutputLost`, `NoStrandedOutput`, `BytesAccounted` |
| `EchoVerbatim`, `EchoPrintsTheLog` | the echo is what the same splice adds to the log (`EchoesWhatIsLogged`); `EchoUntilDrain` |
| `LogServerTypes`, `ClientsGetTheLog`, `NoFollowerBehind` | `LogServer`: `TypeOK`, `StreamVerbatim`, `FollowersCurrent` |
| `ServerImplementsLogStream` | `ImplementsLogStream`, for every client |
| `BackoffWithinMaximum`, `BackoffAsExpected` | `delay_for` stays within its maximum, and is the initial delay multiplied once per further failure, capped |
| `PollWakesInTime`, `BackoffsHonoured`, `AttemptsBounded`, `UptimesAddUp` | `RestartTimer`: `NoOversleep`, `BackoffHonoured`, `RestartsBounded`, `UptimeAccounted` |
| `FailureExplainedAlways`, `ServesAllAlways`, `OrphansReapedAlways`, `LeavesNothingAlways`, `PanicExplainedAlways`, `RunsAsConfiguredAlways` | `Lives`: the invariant of the same name |

### Supervisor

`SupervisorProofs` has one inductive invariant, `IndInv`, which is `CoreInv`
and the types of the log connections. `CoreInv` has three parts:

* `AppInv` = types, `TrackedChild`, `RestartJustified` and two facts they
  need: every process belongs to an application (`ProcsOwned`, or the exit of
  a process could not be matched with an application), and a running
  application holds three tokens (`RuntimesHoldTokens`, or freeing them would
  leave the type of the slab).
* `ClientInv` = types, `OneConnection` and `OneResponse`. The bounds in TypeOK
  on `write_buf`, `inq` and `got` are not inductive: that a response is not
  sent twice depends on a client having one connection and on the sum of what
  is queued, in the socket and received being at most one response.
* `LoopInv` = types, `Serving` (while a request is served, its connection has
  been read and owes exactly one response), `SigintsBounded`, and
  `CreatedFresh` (no stop was requested before the daemon listens, which
  `StopIsFinal` needs for the starts of `App::create`).

The proof goes method by method: one lemma for each method of `App` and of the
server (`RuntimeStartInv`, `ReapInv`, `FlushInv`, ...), which `CoreStep` cites
for the action that calls it. Steps of the log socket change none of the
variables of `CoreInv` but the slab, the ready set, the batch and `pc`
(`LogSocketStep`); `NextInd` puts the two together. `StepEffects` describes
every step by what it does to the applications (`AppEffect`, the nine things
that can happen to one) and to the processes. The other two modules use both:

* `TokenOwnership` is inductive beside it. The lemmas are about the vacant
  tokens as an injective sequence: `allocate` hands out tokens that are not
  vacant any more, `free` gives back tokens that were not vacant.
* `ClosedAfterFlush` needs `SocketInv`. A connection and its client are looked
  at as a pair: between two events the connection is watched for room exactly
  while it has something to write, is marked `close_after_flush` only with
  something left to write, and what is queued, in the socket and received is
  the whole response once the request was read (`Consistent`, `Settled`; the
  connection being served is excepted until `FinishRequest`). `BatchInv` is
  what makes a connection's close safe within a batch: one event per token, and
  no event that would close it before it is flushed.
* `NoLostWakeup` is not inductive, as it speaks of `pc = "poll"` only.
  `WakeInv` says the same of every state: whoever waits has an edge pending or
  an event in the batch still to be handled. An edge is lost in one case: an
  `accept`, or the registration of what it returned, fails, and `accept_all`
  gives up with connections in the backlog. So the listeners are in a theorem
  of their own (`WakeupsKept`) whose hypothesis excludes it; all the rest holds
  under every set of faults (`OwnWakeupsKept`).
* `TokensAccounted` needs `CountInv`: the vacant tokens, three per running
  application and one per connection add up to the slab (`SlabCounted`), so
  that a start always finds three (`TokensSpare`) and never takes the early
  return that leaks some. Its hypotheses are that no registration fails and
  that `max_mio_tokens` covers three tokens per application and both
  connection limits. The defaults (128 tokens, 32 connections on each socket)
  are enough for 21 applications; the code does not check it, and without it,
  or with a failing registration, tokens are lost (`exit_abort`).
* `NoSurvivors` needs that whatever is alive is in a cgroup that exists
  (`AliveInCgroup`: deleting the main cgroup needs it empty), and
  `ShutdownReachesEveryApp` how far the loop over the applications has got
  (`ShutdownInv`: while it stops, the daemon cancels every restart before it
  signals any process, and nothing starts in between).
* The refinement matches `AppLife`'s actions with `AppEffect` and not with
  `Supervisor`'s actions.
* `NoPanic`: by `NoAbortWhileServing` only a failed start in `App::create` or a
  cgroup left on exit abort. Under the hypotheses no start fails
  (`StartsSucceed`) and every cgroup is that of an application that runs
  (`CgroupsOfRunning`: `Reap` removes the one it empties). `SpawnPossible` is
  a hypothesis on the environment, since descendants may use up all pids; it
  is an invariant of the instance that `lifecycle` checks. Without descendants
  every process is a tracked child (`NoStrays`), and counting them proves it.
  `exit_abort` shows the abort when a start fails.

### LogCapture, LogServer

`RingProofs` has what both need: where a write lands, that it overwrites
nothing else, and that the `n` bytes at a position are one range of the double
mapping even where they run past its end, as long as `n` is at most the
capacity. `CaptureInv` follows each byte from the child to the log: the pipe
holds the last bytes written to it (`PipeHolds`), the log has every byte of
this run that has left the pipe and none that has not (`LogHolds`), the first
pipe stays drained of the child's output while the second is drained
(`Drained`), and a pipe with output has an edge pending or is being spliced
(`EdgeKept`). Both `RingVerbatim` and `StreamsInOrder` follow from it.
The byte counters have an invariant of their own, `CountersRight`. So has the
echo, `EchoInv`: its type and `EchoUntilDrain`, that up to the final drain all
that the log has of this run was echoed. What `EchoesEverything` asks beyond
that is false (run `echo`).

`ServerInv` is the ring (`RingHolds`), the state of the handlers (`Serving`),
how a connection and its client go together (`Paired`: without it a client
that has gone could still be owed bytes), what was sent up to the cursor
(`Verbatim`: every byte below the cursor was sent or had been overwritten) and
who is current (`UpToDate`). `StreamVerbatim` and `FollowersCurrent` follow.
The refinement of `LogStream` shows for each of the server's actions the step
of `SeenStream` that it is, or that it is none. That a dump stops at its end
needs `OnTime` beside `ServerInv`: a dump that never blocked is being served
now, and nothing was logged since it began, so its end is still `write_pos`.

### RestartTimer

What `delay_for` computes is proved by induction. The provers cannot use an
induction scheme, so `LeastNatural` and `InductiveSet` get it from the
well-foundedness of `<`: a set of numbers that has 0 and with every number the
next one has them all. `TimerInv` says of every application that it runs as
long as it has a process (`RunsWithProcess`), that no run is counted twice or
early (`Uptime`), that `consecutive_failures` is the longest row of failures
that the history ends with (`Counted`, which links the counter with the
history that the properties speak of), and that a pending restart is delayed
and allowed by it (`Due`); and of the loop that it wakes by the first deadline
(`WakesInTime`).

### Lives

All six properties of `Lives` are proved, for any number of lives, processes
and configurations and also where applications share a name. The invariant,
`WholeInv`, comes in four layers, each proved from the ones below it:

* `BaseInv`: the lives begin in their order (`InOrder`), a daemon outside `met`
  is alone while it runs (`Alone`), and what it works with is what `Config`
  makes of a file it could load (`Configured`). What `scan_apps_dir` makes of a
  listing is proved by induction over the listing (`ScanSifts`): exactly the
  applications among the entries, in their order. From this, `AllAppsFacts`
  has the applications a daemon is given as those its configuration describes,
  and `CountStarts` that no more of them autostart than have an entry that says
  so, which is what the tokens are counted by.
* `OwnedInv`: every application that runs has a process of its own, with its
  ids and in its cgroup (`RunsOwn`); what is alive is in a cgroup that exists,
  and what has ended waits for a parent that runs (`ProcsPlaced`).
  `RunsAsConfigured` follows by `ChildIdsFacts`.
* `LoneInv`, for a daemon that is alone: which of the socket files is whose at
  each step of the two binds and of the end (`SocketsRight`), which cgroups
  there are and why (`CgroupsExplained`: those left over and not yet reaped and
  those of what runs, unless a name is a path), and that no orphan is left
  where it has reaped (`Orphans`). `ServesAll` and `OrphansReaped` follow.
* `ExplainedInv`: `FailureExplained` and `PanicExplained`. A failing bind
  contradicts `SocketsRight`, a start without tokens `CountStarts`.

`LeavesNothing` is inductive beside it (`NothingInv`): the exit needs an empty
`cg`, so by `ProcsPlaced` nothing lives, and the zombies were its own.
The steps are first described one by one without regard to the invariant
(`CreateFacts`, `BindFacts`, `ReapFacts`, ...), and each layer uses these
descriptions and not the actions. Another daemon's step never touches a daemon
that is alone (`OthersLone`).

### Only model-checked

* Liveness: fairness and ENABLED are outside the prover. These are
  `ExitNoticed`, `RestartSettles`, `RequestAnswered`, `ShutdownCompletes`,
  `OutputCaptured` and `BlockedProgresses`.
* The hypotheses of the conditional theorems: what happens without them is
  left to the runs (`exit_abort`, `faults`).

Every invariant that a passing run checks is stated by a theorem.

## Not modelled

* YAML and JSON, command-line parsing, output formatting, the tables of the
  clients, working directories, environments, cgroup limits and
  `read_cgroup_usage`: pure or I/O, they keep no state that the loop depends
  on.
* Multipliers that are not whole numbers, and the rounding of `f64` below its
  overflow.
* The other `LogBuffer` implementations, the logger types and the ranges of
  `MmapRingBuffer` that the daemon does not use.
* A failing `kill(2)`, which the code logs and reports to the client.
* Failing `pipe`, `fcntl`, `mmap`, `deregister` and cgroup creation, which the
  code answers with `expect`: the daemon aborts there by intent.
* Requests that come in several pieces or several to a connection: the client
  writes one line and waits. Errors in a request are answered like a query.
* In `Supervisor`: applications that share a name. In `Lives`: what two daemons
  that run at the same time do to each other, beyond what keeps the properties
  of the others honest.
* In `Lives`: failing system calls and the descendants of an application
  (`Supervisor` has both). In `Supervisor`: what earlier daemons left.

## Status

All modules of the inventory have their runs; the safety of `Supervisor`,
`LogCapture`, `LogServer`, `RestartTimer` and `Lives` and both refinements are
proved. Open: liveness, which needs a prover with ENABLED and fairness; and the
parts listed under "Not modelled".
