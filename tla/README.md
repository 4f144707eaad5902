# A TLA+ verification of driveshaft

Driveshaft is a daemon that keeps pools of worker threads. Each thread fetches
jobs from gearmand, runs them as HTTP requests and sends the answers back. The
daemon reads its configuration again and again and starts, stops and replaces
threads to match it. These modules model the daemon from its source
(`src/src/`), check it with TLC on small instances, and prove the central
properties with TLAPS for any number of threads, pools and configurations.

## The system and its parts

| Part | Source | Module | State |
|---|---|---|---|
| thread registry | `thread-registry.{h,cpp}` | `ThreadRegistry` | modelled, proved about |
| worker thread | `thread-loop.{h,cpp}`, `gearman_thread_delegate` | `ThreadLoop` | modelled, proved about |
| main loop, signals, pool watcher | `main-loop.{h,cpp}` | `MainLoop`, `Driveshaft` | modelled, proved about |
| configuration | `driveshaft-config.{h,cpp}` | `DriveshaftConfig` (operators), `MainLoop` (`supersede`) | modelled, proved about |
| gearman client | `gearman-client.{h,cpp}` | `GearmanClient`, `ClientRefinement` | modelled, proved about |
| metrics | `metric-proxy.{h,cpp}` | `MetricProxy` | modelled for one pool, proved about |
| what the pools promise | `main-loop.cpp`, `thread-loop.cpp`, `thread-registry.cpp` | `WorkerPool` (abstract), `PoolRefinement` | implemented by `Driveshaft`, proved |
| durations, shutdown timing | `main.cpp`, `common-defs.h`, `gearman-client.cpp` | `ShutdownTiming` | modelled, proved about |
| pid file | `pidfile.{h,cpp}` | `Pidfile` | modelled, proved about |
| start-up and exit | `main.cpp`, `setupSignals` | `Pidfile` | modelled: order and failures of the steps |
| JSON library | `dist/jsoncpp.cpp` | `DriveshaftConfig` | vendored; only what `asString`, `isUInt`, `isArray` and `isObject` do is modelled |

How they interact. One main thread runs `MainLoop::run`: it looks at the signal
flag, loads the configuration into a fresh object, lets it supersede the old
one, and sleeps. `supersede` first informs the pool watcher, with a count of
zero, of every pool whose threads became outdated, then of every pool of the new
configuration with its `worker_count`. The watcher compares that count with the
registry's and either flags threads or starts them one at a time, waiting on a
condition variable until each has registered. A worker thread builds a client,
registers, and alternates between reading its two stop flags and
`GearmanClient::run`. On the way out it unregisters, then destroys the client.

## How the modules correspond to the code

`CommonDefs` declares the pool names. `ThreadRegistry`, `DriveshaftConfig` →
`ThreadLoop` → `MainLoop` → `Driveshaft` extend one another; `Driveshaft` has
`Init`, `Next`, the fairness and the properties. `MetricProxy` →
`GearmanClient` is a second system, one pool's clients seen from inside.
`PoolRefinement` and
`ClientRefinement` tie systems together with `INSTANCE ... WITH`.
`ShutdownTiming` and `Pidfile` stand alone: one has a clock, the other several
processes. Definitions keep the names of the source. PROJECT.json maps each one to lines.

**ThreadRegistry.** `m_thread_map` and `m_registry_store` as in the class. Every
method holds `m_mutex` throughout, so it is one step. A failed `DS_ASSERT` throws
out of a `noexcept` method: the variable `process` becomes `assert_failed`.
`sendShutdown` flags any subset of the right size, since thread ids mean nothing.

**ThreadLoop.** `thread_pc` and `thread_args` per thread id; ids are reused once
a thread has ended. The constructor of `ThreadLoop` is two registry calls, hence
two steps. The two operands of `g_force_shutdown || shouldShutdown(...)` are read
in two steps. `GearmanClient::run` is seen from its caller: it returns idle,
takes a job, is done with it, sends its answer, throws, or terminates the
process (`ClientStep`). The recursion of `ThreadLoop::run` on a retriable exception is
unreachable, because `GearmanClient::run` throws only non-retriable ones; the
retriable ones come from the constructor, inside the `noexcept` delegate.

**MainLoop.** `inform` is one step per critical section: counting, flagging,
creating a thread and releasing the mutex in `wait`, and returning from `wait`.
The condition variable has a bit (`s_new_thread_cond`): a notification may be
late, belong to an earlier thread, or be missing (a spurious wakeup). The pools
of a loop are visited in any order, because names are abstract. `Files` is the
set of states in which the configuration file may be found at a load. When no
thread id is free `std::thread` throws, so `Tids` is the system's limit.
`process` ends at once; a thread that outlives `main` does not run on. The
exception of `clearWorkerCount` for a pool it does not find has no step:
`InformInv`, which is proved, says the loops visit only pools of the
configuration they walk.

**DriveshaftConfig.** A JSON value is a record with its kind; an absent key has
the kind `missing`. Each `...Throws` operator says when the function of that name
throws. A file may hold any JSON at all (`isDocument`): kinds are unconstrained,
and what parsing does not check it may not rely on. `m_load_time` is left out:
`run` loads into a fresh object, whose load time is 0, so `needsConfigUpdate` is
true for every file dated after the epoch.

**GearmanClient and MetricProxy.** `m_state` and the places inside `run` and
`processJob` per client. libgearman, libcurl and the endpoint may choose every
outcome the code distinguishes; the set-up calls of curl that can fail are one
outcome. A report that changes two gauges is two steps. Time is one bit per job
(`overran`). `jobs` and `completed` are gearmand's own counts.

**ClientRefinement.** `ThreadLoop` and `GearmanClient` each model a side of
`m_client->run()`. The mapping reads a client's place and the label that
`setThreadState` gives it; `RunRefinesThreadLoop` says that each step inside
`run` is a `ClientStep` of `ThreadLoop` or not visible to it.

**WorkerPool and PoolRefinement.** `WorkerPool` is the promise without threads,
locks or configuration objects: members, a status per worker (live, finishing,
stopped, absent), the workers that owe an answer, the limits, and whether the
daemon is closing. A worker told to stop takes at most one more job, because the
flag is read before each call of `run` and a call takes at most one job. The
mapping reads the registry, the labels and the place of a thread. The limit is
the count in the configuration last loaded, since `supersede` acts on that one.

**ShutdownTiming.** Time passes in ticks of half a second, so that `time()`,
which truncates to seconds, differs from it. Only the rounds of
the main loop, polling and the endpoint take time. `RoundTime` bounds what a round
takes beside its sleep, which is 0 for a loop timeout of 1. The durations are
those `main` computes, modulo `Modulus`; `pollTimeout` is what
`gearman_worker_set_timeout` makes of its `int`, and a negative one never ends
(`pollEnds`). `run` polls again as often as gearmand wakes it for nothing or takes
no answer, in a shutdown too; the history variable `polls` counts the polls since
`doShutdown`, and no action reads it. Nothing in the code bounds it, so no wait is
long enough for every thread: `LateOnlyByPolling` says which threads are cut off.
`CallbackPeriod` bounds the time between two progress callbacks (libcurl: about a
second).

**Pidfile.** `main` of several instances that share one `--pid_file`. Each system
call of `create` and of the destructor is a step, since the instances race on
the path. The path names an inode, so a file that was unlinked and created again
is a different one. `unlink` and the creation of a file fail while its directory
refuses changes (`writable`), from the start or from some time on. `overlapped` is
a history variable: has an instance been started while another lived? A crash runs
no destructor; the exporter's address being taken is one such crash, because the
constructor of `MetricProxy` is `noexcept`.

## The runs

Passing:

| Run | Instance | Shows |
|---|---|---|
| `one_pool` | 1 pool, 3 threads, 5 files (two sizes, two URIs, a broken one, one dated at the epoch) | no assertion fails; threads start one at a time (`HandshakeInv`) and within `worker_count`; a shrink flags only the excess; after each reload at most `worker_count` threads go on; the daemon implements `WorkerPool` (`DaemonKeepsPromise`); the start handshake never gets stuck; after a signal, or once told to stop, each step of a thread brings it nearer to its end |
| `two_pools` | 2 pools, 3 threads, 3 files (other servers, other jobs, a pool removed) | remaining threads match the configuration; a shutdown reaches every thread; the inductive invariant `ReloadInv` |
| `settle` | 1 pool, 2 threads, sizes 1 and 2 | liveness: signals end the process, flagged threads leave, pools settle |
| `config` | 1 thread, every small file: other servers, jobs of several kinds, missing keys, broken ones | `compare` is exact between the configuration in force, counts set to 0 included, and the one loaded |
| `client` | 2 clients, 2 functions, 2 jobs of each | gauges, counters, stack and answers agree at every interleaving |
| `client_live` | 2 clients, 1 function, 2 jobs | `run` does what `ThreadLoop` assumes (`RunRefinesThreadLoop`); overrun jobs end; a forced shutdown drains |
| `pidfile` | 3 instances, with and without an old file, in a directory that is or becomes closed | a clean exit leaves none of its own where it may unlink it; restarts recover, after crashes too; the exit handler removes nothing |
| `timing` | 2 threads, loop timeouts of 1 s (no sleep), 2 s and 3 s (overflows: polls without end), a job window of 2 s | a thread outlives the shutdown wait only when its polls and one callback add up to the wait; the exit is in time; a job gets its window and no more than a second and a callback on top |

Violated, each with a finding in PROJECT.json:

| Run | What the code does |
|---|---|
| `shrink` | a second reload while a shrink is in progress counts the flagged thread and flags a healthy one: the pool falls below `worker_count` |
| `bad_reload` | a file that does not load ends the process while jobs run |
| `idle_gauge` | a client destroyed while it owes an answer is counted as idle for ever |
| `pidfile_replaced` | an instance that ends unlinks the file of one started meanwhile |

Four more differences from the documentation are visible in a line of code and
have no run: every well-formed answer is observed in the histogram of
"successful jobs", whatever its `gearman_ret` (`gearman-client.cpp:331`); an
abort by a shutdown is counted as a timeout (`gearman-client.cpp:291`); a thread
woken for nothing polls anew with the whole loop timeout
(`gearman-client.cpp:404`); and half of an odd loop timeout is rounded down
(`main.cpp:165`).

`shrink` is a transient: `PoolsSettle` shows that a pool recovers once the
configuration stops changing and the flagged threads have left.

**Bounds.** Three threads allow one thread that leaves, one that starts and one
that works, in one pool or two. Pool sizes 1 to 3 make the watcher both start
and stop several threads. Two files with different sizes are enough to shrink
again during a shrink. `MaxJobs` bounds the jobs of a function that gearmand
hands out; with two jobs of each function two clients may work on the same
function, or one client on two in turn. Three instances let
one end while another starts over what a third left. In `timing` even and odd
loop timeouts make the halved sleep exact and rounded, to 0 too, and a window of
two seconds lets a job overrun it. The `Modulus` 4096 stands for 2^32: the
milliseconds of 1 and 2 seconds are below its half and those of 3 seconds are not.
The proofs hold for any modulus. Thread ids, clients,
functions and instances are interchangeable, so the safety runs use symmetry; the
liveness runs do not. `DaemonKeepsPromise` is a
safety property whose mapping treats ids alike.

**Fairness.** `Driveshaft!Fairness`: weak fairness of the main thread and of each
worker, as the operating system schedules them. For a worker inside
`GearmanClient::run` this says that the call returns or throws, since
`gearman_worker_set_timeout` bounds a poll and `curl_progress_func` bounds a
job. `GearmanClient!Fairness` looks inside: the calls of libgearman return
(the worker is non-blocking), libcurl keeps calling the progress callback, and a
thread that polls for ever times out at last. The last is strong fairness of
`WaitTimeout`, and an assumption about gearmand: `run` has no bound of its own on
wakeups without a job. Nothing is assumed of the endpoint, of signals and of
spurious wakeups. `PoolsSettle` assumes in its statement that workers stop
throwing and the configuration stops changing.

## The proofs

`CoreProofs`, `DriveshaftProofs` and `PoolProofs`, each on top of the one before,
prove about `Driveshaft`, from the named assumptions `TidsAssumption` (finitely
many threads), `FilesAssumption` (a file that parses holds JSON: scalars have a
text, unsigned numbers a value), `NoArgsAssumption` and `FreeAssumption` (the two
special values are not ordinary ones). `CoreProofs` has one lemma per registry
method and per kind of step. It counts nothing: that the size of a pool is a
number is a hypothesis (`CountsNat`) there, which `DriveshaftProofs` discharges
with the library's theorems on finite sets. They would slow down every step of
the larger module.

* `LoadYieldsConfig`: `load` throws or yields a well-formed configuration, whatever
  JSON the file holds. The daemon's type invariant rests on it, at each reload.
* `CompareExact`, `CompareAlwaysExact`: `compare` names exactly the pools to stop and
  to start, for all pairs of configurations, and so in every reachable state.
* `TypeCorrect`, `AssertionsAlwaysHold`, `OneThreadStarts`: the type invariant, the
  registry's assertions and the handshake. None is inductive. `CoreInv` adds that
  the registry holds exactly the threads between `registerThread` and
  `unregisterThread` (`RegistryInv`) and what the main thread knows inside
  `inform` (`InformInv`) to them and `HandshakeInv`.
* `HandshakeNeverDeadlocks`: from `CoreInv` and `WakeupInv`, which says who holds the
  mutex, and that a main thread in `wait` has a thread that has yet to set
  `SUCCESS`, or one that has and is about to notify, or was notified. A late
  notification of an earlier thread may come in between; the predicate of `wait`
  and the order of `SUCCESS`, unlock and notify carry the argument.
* `SignalBringsTheEndNearer`, `FlaggedThreadsLeaveInTime`: the safety halves of the
  liveness properties `SignalEndsProcess` and `FlaggedThreadLeaves`. After a signal
  every step of the main thread goes down a lexicographic order: the stage of
  `run`, the pools left to visit, the threads left to start, the notifications
  still to come, the wait interrupted by one. No other thread moves it up. A
  thread told to stop has a count of at most six steps of its own, and no other
  thread raises it; that takes `PromiseInv`: a thread in a job carries its label,
  so that it takes no second one, and none is told to stop before it has started.
  With `HandshakeNeverDeadlocks` this leaves only fair scheduling to TLC.
* `PoolsStartWithinCount`: the action property, from `CoreInv` and
  `StartCountInv`, which bounds the pool plus the threads still to be started by
  `worker_count` throughout the loop of `inform`.
* `ReloadInvariant`, `LiveThreadsAlwaysMatch`, `DrainAlwaysReaches`: `ReloadInv`
  says, in each phase of a reload or shutdown, that a thread that may take work
  is up to date or its pool is still to be visited, and that no thread joins a
  pool between the count and the flags. `CompareTurnsOff` carries it from the
  comparison to the loop.
* `PromiseKept`: every behaviour of `Driveshaft` is one of `WorkerPool`. Beside
  `CoreInv` and `StartCountInv` it needs `PromiseInv` again: the label
  of a job tells a stop that the thread is busy, and once `doShutdown` has begun
  the main thread only walks the pools to clear them and waits, so nothing joins.
  Worker steps split into those the promise does not see (`QuietRefines`), changes
  of a label, joining and leaving.
* `ExcessOnlyStopped`, `LiveThreadsAlwaysWithin`: what a shrink flags and what it
  leaves. `LiveCountInv` follows the second loop of `supersede`: pools already
  visited are within their new count, and the pool about to be shrunk has at most
  what `inform` counted, because no thread registers outside the handshake.

Each invariance proof has one case per action.

`GearmanClientProofs` (types, stacks and how a step changes a count),
`MetricProofs` (gauges and counters) and `RunProofs` (the refinement) prove about
`GearmanClient`, from `ClientsAssumption` (finitely many clients),
`MaxJobsAssumption` and `NoJobAssumption`:

* `StackCorrect`: `StackInv` says, for each place in `run`, whether the stack is
  empty or holds the one function of the job in hand.
* `WorkingGaugeCorrect`, `IdleGaugeCorrect`, `ClientTypesCorrect`: a gauge is the
  number of clients in certain places. Since each step moves one client, each
  count changes by one or not at all; that a gauge is never negative follows.
* `JobsCountedCorrect`, `ErrorsCorrect`, `CompletedCorrect`: `JobsCountedOnce` and
  `ErrorsIncludeTimeouts` count the jobs on the way to a counter along with it, and
  are inductive with `StackInv`; `CompletedJobsSucceeded` needs
  `OwedInv`: the successes gearmand received and those still to be sent are at most
  those observed.
* `RunCorrect`: one case per action of a client, each mapped to a step of
  `ThreadLoop` or to none.

`PidfileProofs`, from `PathAssumption`: the inductive invariant is the type
invariant with `FileInv` (an instance's file is absent before it opens it and,
where it may be unlinked, after its destructor), `AloneInv` (an instance that met
no other finds what it left) and `BufferInv` (the handler's buffer is set only
between `create` and the destructor). `PidfileTypesCorrect`, `CleanExitCorrect`, `RestartCorrect` and
`HandlerCorrect` each follow from one of them.

`ShutdownTimingProofs`, from `TimingAssumption` (the timeouts and periods are
positive), with an invariant per question:

* `LateCorrect` from `RoundInv` and `PollsInv`: what a thread has spent since
  `doShutdown` and what is left of its poll or job are at most its polls and, once
  it is past the job, one callback. That the milliseconds of the loop timeout fit
  an `int` is a hypothesis of the property; how often a thread polls is not
  restricted. `LateNeedsPolls` puts it in numbers: with callbacks more frequent
  than the loop timeout a thread is cut off only in its second poll or later after
  a hard signal, in its fourth or later after a graceful one.
* `ExitCorrect` from `RoundInv` and `SinceInv`, for every timeout: a product that
  wraps makes a wait shorter.
* `JobWindowCorrect` and `JobEndCorrect` from `JobInv`, `TimingTypesCorrect` from
  the whole.

Only model-checked: the liveness properties `SignalEndsProcess`,
`FlaggedThreadLeaves`, `PoolsSettle`, `OverrunJobEnds` and `ForceShutdownDrains`,
because liveness under fairness and `ENABLED` are outside what the prover's
backends do; for the first two only the step from progress to liveness is. Every
invariant and every action property of a passing run is proved.

## Not modelled

* The bytes of requests and answers, log messages, and what the options and the
  log configuration say.
* The exporter's HTTP server and the histogram's buckets, which belong to a
  library; two pools with the same function, whose metrics have different labels
  and do not meet.
* What gearmand does when a connection is destroyed (`ThreadEnd` is a step, and
  the answer a thread still owed is lost).
* Threads that outlive `main`: `process` ends at once, so the time between
  `curl_global_cleanup` and the end of the process has no steps.
  `LateOnlyByPolling` says which threads these can be.
* The retry in `ThreadLoop::run`, `getThreadMap` and the state `FAILURE` of the
  handshake: no call in `src/src` reaches them.
* The race on `shutdown_type`, which a signal handler writes and which is neither
  atomic nor volatile: the model reads it afresh in each loop, as the opaque calls
  in the loop make a build do.
* A constructor of `GearmanClient` that throws, and an endpoint's code that
  `asInt` rejects, terminate the process. The models have these steps; nothing in
  the repository says what should happen, so no property is about them.
