------------------------------ MODULE MainLoop ------------------------------
(***************************************************************************)
(* The main thread (main-loop.cpp): MainLoop::run and doShutdown, the      *)
(* supersede and clearAllWorkerCounts of DriveshaftConfig it calls,        *)
(* ThreadPoolWatcher::inform that they call, and the signal handler.       *)
(***************************************************************************)
EXTENDS ThreadLoop

VARIABLES
    shutdown_type,   \* written by the signal handler
    main_pc,         \* where the main thread is
    loop,            \* which of the three loops over pools calls inform
    todo,            \* the pools that loop has yet to visit
    inform,          \* the call of inform in progress
    m_config,        \* the configuration in force
    new_config       \* the one last loaded

mainVars == <<shutdown_type, main_pc, loop, todo, inform, m_config, new_config>>
vars == <<workerVars, mainVars>>

MainPlaces == {"switch", "pools", "stop", "start", "await", "sleep", "drain"}

\* supersede: clearWorkerCount on the pools to shut, then inform on every
\* pool of the new configuration.  doShutdown: clearAllWorkerCounts.
Loops == {"turn_off", "turn_on", "clear_all"}

MainTypeOK ==
    /\ shutdown_type \in {"NO", "GRACEFUL", "HARD"}
    /\ main_pc \in MainPlaces
    /\ loop \in Loops
    /\ todo \in SUBSET Pools
    /\ inform \in [args : ThreadArgs \cup {NoArgs}, config_worker_count : Nat,
                   num_workers : Nat]
    /\ IsConfig(m_config)
    /\ IsConfig(new_config)

NoInform == [args |-> NoArgs, config_worker_count |-> 0, num_workers |-> 0]

MainInit ==
    /\ shutdown_type = "NO"
    /\ main_pc = "switch"
    /\ loop = "turn_off"
    /\ todo = {}
    /\ inform = NoInform
    /\ m_config = EmptyConfig
    /\ new_config = EmptyConfig

At(place) == process = "running" /\ main_pc = place

\* run() returns or throws and main() returns.  The registry, which asserts
\* that it is empty, is destroyed when no thread refers to it any more.
leaveMain(code) ==
    process' = IF /\ \A t \in Tids : thread_pc[t] = "none"
                  /\ DOMAIN m_thread_map # {}
               THEN "assert_failed" ELSE code

-----------------------------------------------------------------------------
\* shutdown_handler: SIGUSR1 is graceful, SIGTERM, SIGINT and SIGHUP are hard.
\* The last signal decides.
Signal ==
    /\ process = "running"
    /\ \E type \in {"GRACEFUL", "HARD"} : shutdown_type' = type
    /\ UNCHANGED <<workerVars, main_pc, loop, todo, inform, m_config, new_config>>

(***************************************************************************)
(* The loop of run.                                                        *)
(***************************************************************************)
SwitchShutdown ==
    /\ At("switch") /\ shutdown_type # "NO"
    /\ g_force_shutdown' = TRUE
    /\ loop' = "clear_all"
    /\ todo' = PoolNames(m_config)
    /\ main_pc' = "pools"
    /\ UNCHANGED <<registryVars, process, threadVars, startVars, shutdown_type,
                   inform, m_config, new_config>>

\* Mutant: a file is loaded although a signal came.
LoadConfigAnyway ==
    /\ At("switch")
    /\ \E file \in Files :
         /\ ~loadThrows(file)
         /\ new_config' = load(file)
         /\ todo' = compare(m_config, load(file)).turn_off
    /\ loop' = "turn_off"
    /\ main_pc' = "pools"
    /\ UNCHANGED <<workerVars, shutdown_type, inform, m_config>>

\* new_config.load, and the comparison supersede starts with.
LoadConfig ==
    /\ At("switch") /\ shutdown_type = "NO"
    /\ \E file \in Files :
         /\ ~loadThrows(file)
         /\ new_config' = load(file)
         /\ todo' = compare(m_config, load(file)).turn_off
    /\ loop' = "turn_off"
    /\ main_pc' = "pools"
    /\ UNCHANGED <<workerVars, shutdown_type, inform, m_config>>

\* The exception leaves run(); main() logs it and returns 1.
LoadConfigThrows ==
    /\ At("switch") /\ shutdown_type = "NO"
    /\ \E file \in Files : loadThrows(file)
    /\ leaveMain("exit1")
    /\ UNCHANGED <<registryVars, threadVars, startVars, g_force_shutdown, mainVars>>

\* The second loop of supersede begins.
BeginTurnOn ==
    /\ At("pools") /\ loop = "turn_off" /\ todo = {}
    /\ loop' = "turn_on"
    /\ todo' = PoolNames(new_config)
    /\ UNCHANGED <<workerVars, shutdown_type, main_pc, inform, m_config, new_config>>

FinishSupersede ==
    /\ At("pools") /\ loop = "turn_on" /\ todo = {}
    /\ m_config' = new_config
    /\ main_pc' = "sleep"
    /\ UNCHANGED <<workerVars, shutdown_type, loop, todo, inform, new_config>>

SleepDone ==
    /\ At("sleep")
    /\ main_pc' = "switch"
    /\ UNCHANGED <<workerVars, shutdown_type, loop, todo, inform, m_config, new_config>>

FinishClearAll ==
    /\ At("pools") /\ loop = "clear_all" /\ todo = {}
    /\ main_pc' = "drain"
    /\ UNCHANGED <<workerVars, shutdown_type, loop, todo, inform, m_config, new_config>>

\* The wait of doShutdown is over.
DrainDone ==
    /\ At("drain")
    /\ leaveMain("exit0")
    /\ UNCHANGED <<registryVars, threadVars, startVars, g_force_shutdown, mainVars>>

-----------------------------------------------------------------------------
(***************************************************************************)
(* One turn of a loop over pools: clearWorkerCount in two of the loops,    *)
(* and inform up to the value poolCount returns.                           *)
(***************************************************************************)
informedCount(p) ==
    IF loop = "turn_on" THEN new_config.m_pool_map[p].worker_count ELSE 0

informedArgs(p) ==
    threadArgs(IF loop = "turn_on" THEN new_config ELSE m_config, p)

InformPool(p) ==
    /\ At("pools") /\ p \in todo
    /\ todo' = todo \ {p}
    /\ m_config' = IF loop = "turn_on" THEN m_config ELSE zeroWorkerCount(m_config, p)
    /\ LET current == poolCount(p)
           wanted == informedCount(p)
       IN  \/ /\ current > wanted
              /\ main_pc' = "stop"
              /\ inform' = [args |-> informedArgs(p), config_worker_count |-> wanted,
                            num_workers |-> current - wanted]
           \/ /\ current < wanted
              /\ main_pc' = "start"
              /\ inform' = [args |-> informedArgs(p), config_worker_count |-> wanted,
                            num_workers |-> wanted - current]
           \/ /\ current = wanted
              /\ UNCHANGED <<main_pc, inform>>
    /\ UNCHANGED <<workerVars, shutdown_type, loop, new_config>>

InformStop ==
    /\ At("stop")
    /\ sendShutdown(inform.args.pool, inform.num_workers)
    /\ main_pc' = "pools"
    /\ inform' = NoInform
    /\ UNCHANGED <<threadVars, startVars, g_force_shutdown, shutdown_type, loop, todo,
                   m_config, new_config>>

\* Locks, sets INIT, creates the thread and releases the lock in wait().
InformSpawn ==
    /\ At("start")
    /\ s_new_thread_mutex = "free"
    /\ \E t \in Tids :
         /\ thread_pc[t] = "none"
         /\ thread_pc' = [thread_pc EXCEPT ![t] = "spawned"]
         /\ thread_args' = [thread_args EXCEPT ![t] = inform.args]
    /\ s_new_thread_wakeup' = "INIT"
    /\ s_new_thread_cond' = "waiting"
    /\ main_pc' = "await"
    /\ UNCHANGED <<registryVars, process, s_new_thread_mutex, g_force_shutdown,
                   shutdown_type, loop, todo, inform, m_config, new_config>>

\* The system has no thread left to give: std::thread throws, main() returns 1.
InformSpawnThrows ==
    /\ At("start")
    /\ s_new_thread_mutex = "free"
    /\ \A t \in Tids : thread_pc[t] # "none"
    /\ leaveMain("exit1")
    /\ UNCHANGED <<registryVars, threadVars, startVars, g_force_shutdown, mainVars>>

\* Mutants: the counting loop runs while i >= 0; wait() has no predicate.
WaitReturnsOnceMore ==
    /\ s_new_thread_mutex = "free"
    /\ s_new_thread_wakeup # "INIT"
    /\ s_new_thread_cond' = "idle"
    /\ main_pc' = "start"
    /\ inform' = [inform EXCEPT !.num_workers = @ - 1]
    /\ UNCHANGED <<registryVars, process, threadVars, s_new_thread_mutex,
                   s_new_thread_wakeup, g_force_shutdown, shutdown_type, loop, todo,
                   m_config, new_config>>

WaitReturnsUnchecked ==
    /\ s_new_thread_mutex = "free"
    /\ s_new_thread_cond' = "idle"
    /\ main_pc' = IF inform.num_workers > 1 THEN "start" ELSE "pools"
    /\ inform' = IF inform.num_workers > 1
                 THEN [inform EXCEPT !.num_workers = @ - 1] ELSE NoInform
    /\ UNCHANGED <<registryVars, process, threadVars, s_new_thread_mutex,
                   s_new_thread_wakeup, g_force_shutdown, shutdown_type, loop, todo,
                   m_config, new_config>>

\* wait() returns when, awake and holding the mutex, the predicate is true.
WaitReturns ==
    /\ s_new_thread_mutex = "free"
    /\ s_new_thread_wakeup # "INIT"
    /\ s_new_thread_cond' = "idle"
    /\ main_pc' = IF inform.num_workers > 1 THEN "start" ELSE "pools"
    /\ inform' = IF inform.num_workers > 1
                 THEN [inform EXCEPT !.num_workers = @ - 1] ELSE NoInform
    /\ UNCHANGED <<registryVars, process, threadVars, s_new_thread_mutex,
                   s_new_thread_wakeup, g_force_shutdown, shutdown_type, loop, todo,
                   m_config, new_config>>

AwaitNotified ==
    /\ At("await") /\ s_new_thread_cond = "notified"
    /\ WaitReturns

\* A wakeup nobody caused may find the predicate true.
AwaitSpurious ==
    /\ At("await") /\ s_new_thread_cond = "waiting"
    /\ WaitReturns

\* A late notification of an earlier thread finds it false: wait again.
AwaitAgain ==
    /\ At("await") /\ s_new_thread_cond = "notified"
    /\ s_new_thread_mutex = "free"
    /\ s_new_thread_wakeup = "INIT"
    /\ s_new_thread_cond' = "waiting"
    /\ UNCHANGED <<registryVars, process, threadVars, s_new_thread_mutex,
                   s_new_thread_wakeup, g_force_shutdown, mainVars>>

\* What the main thread does when it is scheduled.
MainStep ==
    \/ SwitchShutdown
    \/ LoadConfig
    \/ LoadConfigThrows
    \/ BeginTurnOn
    \/ FinishSupersede
    \/ SleepDone
    \/ FinishClearAll
    \/ DrainDone
    \/ \E p \in Pools : InformPool(p)
    \/ InformStop
    \/ InformSpawn
    \/ InformSpawnThrows
    \/ AwaitNotified
    \/ AwaitAgain
=============================================================================
