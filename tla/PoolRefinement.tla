--------------------------- MODULE PoolRefinement ---------------------------
(***************************************************************************)
(* The daemon keeps the promise of WorkerPool.  The mapping reads the      *)
(* state only: the registry, the label of a thread and the place it is at. *)
(***************************************************************************)
EXTENDS Driveshaft

\* setThreadState labels a thread with its job until the job is answered.
owesAnswer(t) == registered(t) /\ m_thread_map[t].state = "job"

\* shouldShutdown is read before each call of m_client->run(), and such a call
\* takes at most one job: a flag finds a thread inside the call in time to
\* stop the second job, not the first.
workerStatus(t) ==
    IF ~registered(t) THEN "absent"
    ELSE IF ~m_thread_map[t].should_shutdown THEN "live"
    ELSE IF thread_pc[t] = "client" /\ m_thread_map[t].state # "job" THEN "finishing"
    ELSE "stopped"

loadedCount(p) ==
    IF p \in PoolNames(new_config) THEN new_config.m_pool_map[p].worker_count ELSE 0

Pool == INSTANCE WorkerPool WITH
            Workers <- Tids,
            members <- m_registry_store,
            status <- [t \in Tids |-> workerStatus(t)],
            busy <- {t \in Tids : owesAnswer(t)},
            limit <- [p \in Pools |-> loadedCount(p)],
            closing <- g_force_shutdown,
            running <- (process = "running")

\* Every behaviour of the daemon is one of WorkerPool: whatever the order in
\* which the main thread, the workers, signals and changes of the file come,
\* no pool grows above the worker_count last loaded, none grows after
\* doShutdown has begun, and a thread takes at most one job after
\* sendShutdown flagged it.
DaemonKeepsPromise == Pool!Spec
=============================================================================
