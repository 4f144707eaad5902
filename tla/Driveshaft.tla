----------------------------- MODULE Driveshaft -----------------------------
(***************************************************************************)
(* The running daemon: the main thread, the worker threads it starts and   *)
(* stops, signals, and a configuration file that may change at any time.   *)
(***************************************************************************)
EXTENDS MainLoop

Init ==
    /\ process = "running"
    /\ RegistryInit
    /\ ThreadInit
    /\ MainInit

\* The process is gone; nothing moves.
Ended == process # "running" /\ UNCHANGED vars

Worker(t) == WorkerStep(t) /\ UNCHANGED mainVars

Next ==
    \/ MainStep
    \/ AwaitSpurious
    \/ Signal
    \/ \E t \in Tids : Worker(t)
    \/ Ended

Spec == Init /\ [][Next]_vars

(***************************************************************************)
(* The operating system schedules every thread that can run.  For a worker *)
(* inside GearmanClient::run this says that the call returns or throws:    *)
(* gearman_worker_set_timeout bounds a poll and curl_progress_func a job.  *)
(* Signals and spurious wakeups are promised by nobody.                    *)
(***************************************************************************)
Fairness == WF_vars(MainStep) /\ \A t \in Tids : WF_vars(Worker(t))

FairSpec == Spec /\ Fairness

-----------------------------------------------------------------------------
(***************************************************************************)
(* Safety.                                                                 *)
(***************************************************************************)

\* Every variable holds a value the code can store in it.
TypeOK == RegistryTypeOK /\ ThreadTypeOK /\ MainTypeOK

\* No DS_ASSERT of the registry ever fails, whatever the order in which
\* threads register, are told to stop, throw and unregister, and although
\* the ids of ended threads come back: a failure would terminate the daemon.
AssertionsHold == process # "assert_failed"

registered(t) == t \in DOMAIN m_thread_map

mayTakeWork(t) == registered(t) /\ ~m_thread_map[t].should_shutdown

\* Does t serve what config says of its pool?
upToDate(t, config) ==
    /\ thread_args[t].pool \in PoolNames(config)
    /\ thread_args[t] = threadArgs(config, thread_args[t].pool)

betweenReloads == main_pc \in {"sleep", "switch"}

\* Between two reloads a thread that was not told to stop serves exactly the
\* servers, jobs and URI the configuration in force gives its pool: compare
\* (driveshaft-config.cpp) names every pool with an outdated thread, and the
\* flags reach all of its threads, those that registered meanwhile included.
LiveThreadsMatchConfig ==
    betweenReloads =>
        \A t \in Tids : mayTakeWork(t) => upToDate(t, m_config)

configuredCount(p) ==
    IF p \in PoolNames(m_config) THEN m_config.m_pool_map[p].worker_count ELSE 0

\* Between two reloads a pool has at most worker_count threads that were not
\* told to stop (README: the maximum concurrency), although inform counts
\* the pool and flags its threads in two critical sections.
LiveThreadsWithinCount ==
    betweenReloads =>
        \A p \in Pools : Cardinality(unflagged(p)) <= configuredCount(p)

\* A thread that registers never brings its pool above the worker_count it
\* was started for, the threads still finishing a last job included: inform
\* starts one thread at a time and waits until it has registered.
StartsWithinWorkerCount ==
    [][\A p \in Pools :
         poolCount(p)' > poolCount(p) =>
             /\ p \in PoolNames(new_config)
             /\ poolCount(p)' <= new_config.m_pool_map[p].worker_count]_vars

\* sendShutdown, which takes a count of 0 for every thread of the pool, never
\* stops more threads than inform counted above worker_count.
StopsOnlyTheExcess ==
    [][\A p \in Pools :
         /\ At("stop") /\ main_pc' = "pools"
         /\ p = inform.args.pool
         => Cardinality(unflagged(p) \ unflagged(p)') <= inform.num_workers]_vars

\* Once doShutdown has informed the pools, every thread of the process was
\* told to stop or has left the registry: none was started by a pool that
\* clearAllWorkerCounts does not visit.
DrainReachesEveryThread ==
    main_pc = "drain" =>
        \A t \in Tids :
            thread_pc[t] \notin {"none", "ending"} =>
                registered(t) /\ m_thread_map[t].should_shutdown

\* compare names exactly the pools whose running threads the configuration
\* last loaded makes outdated, and exactly those that need other threads: it
\* restarts no pool in vain and forgets none, although supersede has set the
\* counts of some of them to 0 by then.
CompareIsExact ==
    compare(m_config, new_config) =
        [turn_off |-> replaced(m_config, new_config),
         turn_on |-> replaced(new_config, m_config)]

\* The main thread and the thread it starts never wait for each other: when
\* inform is to lock the mutex it is free, and while it is in wait() it was
\* notified and can have the mutex, or some thread that has yet to notify can
\* move.  No wakeup is lost, a late one of an earlier thread included.
HandshakeNeverStuck ==
    /\ At("start") => s_new_thread_mutex = "free"
    /\ At("await") =>
         \/ s_new_thread_cond = "notified" /\ s_new_thread_mutex = "free"
         \/ \E t \in Tids :
              \/ thread_pc[t] = "spawned" /\ s_new_thread_mutex = "free"
              \/ thread_pc[t] \in {"constructed", "registered"} /\ s_new_thread_mutex = t
              \/ thread_pc[t] = "notify"

-----------------------------------------------------------------------------
(***************************************************************************)
(* Why these hold: the inductive invariants.                               *)
(***************************************************************************)

\* The registry holds exactly the threads between registerThread and
\* unregisterThread, each in the pool it was started for.
RegistryInv ==
    /\ \A t \in Tids :
         /\ registered(t) <=> thread_pc[t] \in RegisteredAt
         /\ thread_args[t] = NoArgs <=> thread_pc[t] = "none"
    /\ \A p \in Pools, t \in Tids :
         t \in m_registry_store[p] <=> registered(t) /\ thread_args[t].pool = p

\* What the main thread knows of its call of inform: pools left to visit are
\* pools of the configuration it walks, and only supersede starts threads.
InformInv ==
    /\ todo \subseteq PoolNames(IF loop = "turn_on" THEN new_config ELSE m_config)
    /\ main_pc \in {"stop", "start", "await"} =>
         inform.args \in ThreadArgs /\ inform.num_workers > 0
    /\ main_pc \in {"start", "await"} =>
         /\ loop = "turn_on"
         /\ inform.args.pool \in PoolNames(new_config)
         /\ inform.args = threadArgs(new_config, inform.args.pool)
         /\ inform.config_worker_count =
              new_config.m_pool_map[inform.args.pool].worker_count
    /\ main_pc = "drain" => loop = "clear_all" /\ todo = {}

Starting == {"spawned", "constructed", "registered"}

\* At most one thread is between its creation and SUCCESS, and while it is
\* the main thread waits for it.
HandshakeInv ==
    /\ \A t \in Tids : thread_pc[t] \in Starting =>
         /\ main_pc = "await"
         /\ s_new_thread_wakeup = "INIT"
         /\ thread_args[t] = inform.args
    /\ \A t, u \in Tids :
         thread_pc[t] \in Starting /\ thread_pc[u] \in Starting => t = u

\* The mutex is held by the starting thread from its construction to SUCCESS,
\* and the main thread in wait() has a thread to wait for: one that has not
\* set SUCCESS, or one that has and is about to notify.
WakeupInv ==
    /\ \A t \in Tids :
         s_new_thread_mutex = t <=> thread_pc[t] \in {"constructed", "registered"}
    /\ main_pc = "await" =>
         /\ s_new_thread_cond # "idle"
         /\ s_new_thread_wakeup = "INIT" => \E t \in Tids : thread_pc[t] \in Starting
         /\ s_new_thread_wakeup # "INIT" /\ s_new_thread_cond = "waiting" =>
              \E t \in Tids : thread_pc[t] = "notify"

CoreInv == TypeOK /\ AssertionsHold /\ RegistryInv /\ InformInv /\ HandshakeInv

\* The threads inform has yet to start fit in the pool.
StartCountInv ==
    LET p == inform.args.pool
        unregistered == \E t \in Tids : thread_pc[t] \in {"spawned", "constructed"}
    IN  /\ main_pc = "start" =>
             poolCount(p) + inform.num_workers <= inform.config_worker_count
        /\ main_pc = "await" /\ unregistered =>
             poolCount(p) + inform.num_workers <= inform.config_worker_count
        /\ main_pc = "await" /\ ~unregistered =>
             poolCount(p) + inform.num_workers <= inform.config_worker_count + 1

\* Will the loop over pools still flag the threads of t's pool?
stillToStop(t) ==
    \/ thread_args[t].pool \in todo
    \/ main_pc = "stop" /\ thread_args[t].pool = inform.args.pool

\* In the middle of a reload or of doShutdown, a thread that may take work
\* is up to date, or the loop over pools has its pool still to visit.
ReloadInv ==
    /\ \A t \in Tids : mayTakeWork(t) =>
         /\ betweenReloads => upToDate(t, m_config)
         /\ ~betweenReloads /\ loop = "turn_off" =>
              upToDate(t, m_config) /\ (upToDate(t, new_config) \/ stillToStop(t))
         /\ ~betweenReloads /\ loop = "turn_on" => upToDate(t, new_config)
         /\ ~betweenReloads /\ loop = "clear_all" =>
              upToDate(t, m_config) /\ stillToStop(t)
    /\ main_pc = "stop" /\ loop # "turn_on" =>
         poolCount(inform.args.pool) <= inform.num_workers

\* The pools that the second loop of supersede is done with have no more live
\* threads than the new configuration gives them, and the one it is about to
\* shrink has no more than inform counted.
LiveCountInv ==
    /\ LiveThreadsWithinCount
    /\ ~betweenReloads /\ loop = "turn_on" =>
         \A p \in PoolNames(new_config) \ todo :
             \/ Cardinality(unflagged(p)) <= new_config.m_pool_map[p].worker_count
             \/ main_pc = "stop" /\ p = inform.args.pool
    /\ main_pc = "stop" /\ loop = "turn_on" =>
         /\ inform.args.pool \in PoolNames(new_config)
         /\ inform.config_worker_count =
              new_config.m_pool_map[inform.args.pool].worker_count
         /\ poolCount(inform.args.pool) <= inform.config_worker_count + inform.num_workers

-----------------------------------------------------------------------------
(***************************************************************************)
(* Progress: how far the main thread is from its end once a signal came,   *)
(* and a thread from its own once it was told to stop.                     *)
(***************************************************************************)
inLoop(l) == main_pc \in {"pools", "stop", "start", "await"} /\ loop = l

stage ==
    CASE inLoop("turn_off") -> 5
      [] inLoop("turn_on") -> 4
      [] main_pc = "sleep" -> 3
      [] main_pc = "switch" -> 2
      [] inLoop("clear_all") -> 1
      [] main_pc = "drain" -> 0

\* The steps that the call of inform in progress has left, but for the waits
\* that a late notification interrupts.
informLeft ==
    CASE main_pc = "stop" -> 1
      [] main_pc = "start" -> 2 * inform.num_workers
      [] main_pc = "await" -> 2 * inform.num_workers - 1
      [] OTHER -> 0

toNotify == {t \in Tids : thread_pc[t] \in Starting \cup {"notify"}}

\* A later stage, or the same with fewer pools to visit, or the same with less
\* left of inform, or the same with fewer notifications to come.
nearer ==
    \/ stage' < stage
    \/ /\ stage' = stage
       /\ \/ todo' \subseteq todo /\ todo' # todo
          \/ /\ todo' = todo
             /\ \/ informLeft' < informLeft
                \/ /\ informLeft' = informLeft
                   /\ \/ toNotify' \subseteq toNotify /\ toNotify' # toNotify
                      \/ /\ toNotify' = toNotify
                         /\ s_new_thread_cond = "notified"
                         /\ s_new_thread_cond' = "waiting"

\* Once a signal came every step of the main thread brings it nearer to the
\* end of the process, in an order without infinite descent, and no step of
\* another thread takes it back: it loads no file any more, finishes the
\* reload it is in, shuts every pool once and waits in no circle.
SignalledMainAdvances ==
    [][shutdown_type # "NO" /\ process' = "running" =>
         \/ nearer
         \/ /\ ~MainStep /\ ~AwaitSpurious
            /\ UNCHANGED <<stage, todo, informLeft, toNotify, s_new_thread_cond>>]_vars

\* The steps of its own after which a thread that was told to stop has left
\* the registry, at most: it may be about to take a job.
stepsLeft(t) ==
    CASE thread_pc[t] = "client" /\ ~answerPending(t) -> 6
      [] thread_pc[t] = "job" -> 5
      [] thread_pc[t] = "client" /\ answerPending(t) -> 4
      [] thread_pc[t] = "notify" -> 4
      [] thread_pc[t] = "check_force" -> 3
      [] thread_pc[t] = "check_flag" -> 2
      [] OTHER -> 1

\* A thread that was told to stop leaves the registry after at most six more
\* steps of its own, and no step of another thread, of the main thread or of
\* a later reload puts it back or takes the word from it.
FlaggedThreadAdvances ==
    [][\A t \in Tids :
         registered(t) /\ ~mayTakeWork(t) /\ process' = "running" =>
             \/ ~registered(t)'
             \/ /\ ~mayTakeWork(t)'
                /\ stepsLeft(t)' <= stepsLeft(t)
                /\ WorkerStep(t) => stepsLeft(t)' < stepsLeft(t)]_vars

-----------------------------------------------------------------------------
(***************************************************************************)
(* Liveness.                                                               *)
(***************************************************************************)

\* A signal ends the process: the main thread is never stuck in the start
\* handshake, in a loop over pools or in a reload.
SignalEndsProcess == shutdown_type # "NO" ~> process # "running"

\* A thread told to stop leaves the registry, unless the process ends first.
FlaggedThreadLeaves ==
    \A t \in Tids :
        (registered(t) /\ ~mayTakeWork(t)) ~> (~registered(t) \/ process # "running")

settledOn(config) ==
    \A p \in Pools :
        /\ m_registry_store[p] = unflagged(p)
        /\ poolCount(p) = IF p \in PoolNames(config)
                          THEN config.m_pool_map[p].worker_count ELSE 0

loadedConfigs == {load(f) : f \in {g \in Files : ~loadThrows(g)}}

\* When the configuration file stops changing, no signal comes and workers
\* stop failing, every pool ends up with exactly worker_count threads, none
\* of them told to stop (README: driveshaft maintains worker_count threads).
PoolsSettle ==
    \A c \in loadedConfigs :
        (/\ <>[](new_config = c /\ process = "running" /\ ~g_force_shutdown)
         /\ <>[][\A t \in Tids : ~ClientThrows(t)]_vars)
        => <>[]settledOn(c)

-----------------------------------------------------------------------------
(***************************************************************************)
(* What the documentation says and the code does not do.                   *)
(***************************************************************************)

\* A shrink that finds the pool as inform counted it leaves worker_count of
\* its threads running (README: driveshaft maintains worker_count threads).
\* inform counts threads that were told to stop already, and sendShutdown
\* passes over them.
ShrinkKeepsWorkerCount ==
    [][\A p \in Pools :
         /\ At("stop") /\ main_pc' = "pools"
         /\ p = inform.args.pool
         /\ poolCount(p) = inform.config_worker_count + inform.num_workers
         => Cardinality(unflagged(p)') >= inform.config_worker_count]_vars

\* After a change of the configuration a running job has its window to
\* finish (README).  A file that does not load ends the process at once.
ReloadKeepsRunningJobs ==
    process = "exit1" => \A t \in Tids : thread_pc[t] # "job"
=============================================================================
