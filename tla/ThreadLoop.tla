----------------------------- MODULE ThreadLoop -----------------------------
(***************************************************************************)
(* A worker thread, from gearman_thread_delegate (main-loop.cpp) to the    *)
(* end of ~ThreadLoop (thread-loop.cpp), and the statics through which it  *)
(* tells the main thread that it has started.                              *)
(*                                                                         *)
(* GearmanClient::run is seen from its caller: it returns without having   *)
(* run a job, or runs one and returns, or throws.                          *)
(***************************************************************************)
EXTENDS ThreadRegistry, DriveshaftConfig

CONSTANT NoArgs    \* the arguments of a thread that does not exist

VARIABLES
    thread_pc,              \* where each thread is
    thread_args,            \* the arguments it was started with
    s_new_thread_mutex,     \* "free" or the thread that holds it
    s_new_thread_wakeup,    \* ThreadStartState
    s_new_thread_cond,      \* is the main thread blocked on the condition?
    g_force_shutdown

threadVars == <<thread_pc, thread_args>>
startVars == <<s_new_thread_mutex, s_new_thread_wakeup, s_new_thread_cond>>
workerVars == <<registryVars, process, threadVars, startVars, g_force_shutdown>>

ASSUME NoArgsAssumption == NoArgs \notin ThreadArgs

ASSUME FreeAssumption == "free" \notin Tids

\* The places at which a thread is in the registry.
RegisteredAt == {"registered", "notify", "check_force", "check_flag",
                 "client", "job", "leaving"}

ThreadPlaces ==
    {"none", "spawned", "constructed", "ending"} \cup RegisteredAt

ThreadTypeOK ==
    /\ thread_pc \in [Tids -> ThreadPlaces]
    /\ thread_args \in [Tids -> ThreadArgs \cup {NoArgs}]
    /\ s_new_thread_mutex \in Tids \cup {"free"}
    /\ s_new_thread_wakeup \in {"INIT", "SUCCESS"}
    /\ s_new_thread_cond \in {"idle", "waiting", "notified"}
    /\ g_force_shutdown \in BOOLEAN

ThreadInit ==
    /\ thread_pc = [t \in Tids |-> "none"]
    /\ thread_args = [t \in Tids |-> NoArgs]
    /\ s_new_thread_mutex = "free"
    /\ s_new_thread_wakeup = "INIT"
    /\ s_new_thread_cond = "idle"
    /\ g_force_shutdown = FALSE

Goto(t, from, to) ==
    /\ process = "running"
    /\ thread_pc[t] = from
    /\ thread_pc' = [thread_pc EXCEPT ![t] = to]

-----------------------------------------------------------------------------
(***************************************************************************)
(* gearman_thread_delegate                                                 *)
(***************************************************************************)

\* Takes the mutex the main thread released in wait(), builds the client.
DelegateConstruct(t) ==
    /\ Goto(t, "spawned", "constructed")
    /\ s_new_thread_mutex = "free"
    /\ s_new_thread_mutex' = t
    /\ UNCHANGED <<registryVars, process, thread_args, s_new_thread_wakeup,
                   s_new_thread_cond, g_force_shutdown>>

\* The constructor of GearmanClient throws inside the noexcept delegate.
DelegateConstructThrows(t) ==
    /\ process = "running"
    /\ thread_pc[t] = "spawned"
    /\ s_new_thread_mutex = "free"
    /\ process' = "uncaught"
    /\ UNCHANGED <<registryVars, threadVars, startVars, g_force_shutdown>>

\* ThreadLoop::ThreadLoop, first half.
ThreadLoopRegister(t) ==
    /\ Goto(t, "constructed", "registered")
    /\ registerThread(thread_args[t].pool, t)
    /\ UNCHANGED <<thread_args, startVars, g_force_shutdown>>

\* Its second half, then SUCCESS and the unlock.
ThreadLoopReady(t) ==
    /\ Goto(t, "registered", "notify")
    /\ setThreadState(t, "Waiting for work")
    /\ s_new_thread_wakeup' = "SUCCESS"
    /\ s_new_thread_mutex' = "free"
    /\ UNCHANGED <<thread_args, s_new_thread_cond, g_force_shutdown>>

\* Mutant: nobody is notified.
DelegateNotifyNobody(t) ==
    /\ Goto(t, "notify", "check_force")
    /\ UNCHANGED <<registryVars, process, thread_args, startVars, g_force_shutdown>>

DelegateNotify(t) ==
    /\ Goto(t, "notify", "check_force")
    /\ s_new_thread_cond' = IF s_new_thread_cond = "waiting" THEN "notified"
                                                             ELSE s_new_thread_cond
    /\ UNCHANGED <<registryVars, process, thread_args, s_new_thread_mutex,
                   s_new_thread_wakeup, g_force_shutdown>>

-----------------------------------------------------------------------------
(***************************************************************************)
(* ThreadLoop::run.  The two operands of || are read one after the other.  *)
(***************************************************************************)
RunCheckForce(t) ==
    /\ Goto(t, "check_force", IF g_force_shutdown THEN "leaving" ELSE "check_flag")
    /\ UNCHANGED <<registryVars, process, thread_args, startVars, g_force_shutdown>>

\* Mutant: the thread's own flag is never read.
RunCheckFlagSkipped(t) ==
    /\ Goto(t, "check_flag", "client")
    /\ UNCHANGED <<registryVars, process, thread_args, startVars, g_force_shutdown>>

RunCheckFlag(t) ==
    /\ Goto(t, "check_flag", IF shouldShutdown(t) THEN "leaving" ELSE "client")
    /\ DS_ASSERT(t \in DOMAIN m_thread_map)
    /\ UNCHANGED <<registryVars, thread_args, startVars, g_force_shutdown>>

\* A job whose answer is still to be sent keeps its label on the thread.
answerPending(t) == m_thread_map[t].state = "job"

\* m_client->run() returns: the poll saw nothing before the response timeout,
\* or could not send the answer of a job.
ClientIdles(t) ==
    /\ Goto(t, "client", "check_force")
    /\ UNCHANGED <<registryVars, process, thread_args, startVars, g_force_shutdown>>

\* gearman_worker_work calls back into processJob, which labels the thread.
ClientTakesJob(t) ==
    /\ Goto(t, "client", "job")
    /\ ~answerPending(t)
    /\ setThreadState(t, "job")
    /\ UNCHANGED <<thread_args, startVars, g_force_shutdown>>

\* processJob returns; its answer is still to be sent.
ClientJobDone(t) ==
    /\ Goto(t, "job", "client")
    /\ UNCHANGED <<registryVars, process, thread_args, startVars, g_force_shutdown>>

\* The answer is sent, at once or in a later call, and m_client->run() returns.
ClientEndsJob(t) ==
    /\ Goto(t, "client", "check_force")
    /\ answerPending(t)
    /\ setThreadState(t, "Waiting for work")
    /\ UNCHANGED <<thread_args, startVars, g_force_shutdown>>

\* m_client->run() throws: none of its exceptions is retriable.
ClientThrows(t) ==
    /\ Goto(t, "client", "leaving")
    /\ UNCHANGED <<registryVars, process, thread_args, startVars, g_force_shutdown>>

\* A code in the answer of the endpoint that asInt() rejects throws inside
\* processJob, which is noexcept.
ClientTerminates(t) ==
    /\ process = "running"
    /\ thread_pc[t] = "job"
    /\ process' = "uncaught"
    /\ UNCHANGED <<registryVars, threadVars, startVars, g_force_shutdown>>

\* ~ThreadLoop.
ThreadLoopUnregister(t) ==
    /\ Goto(t, "leaving", "ending")
    /\ unregisterThread(thread_args[t].pool, t)
    /\ UNCHANGED <<thread_args, startVars, g_force_shutdown>>

\* The client is destroyed and the thread ends; its id is free again.
ThreadEnd(t) ==
    /\ Goto(t, "ending", "none")
    /\ thread_args' = [thread_args EXCEPT ![t] = NoArgs]
    /\ UNCHANGED <<registryVars, process, startVars, g_force_shutdown>>

\* What m_client->run() may do to the thread that calls it.
ClientStep(t) ==
    \/ ClientIdles(t)
    \/ ClientTakesJob(t)
    \/ ClientJobDone(t)
    \/ ClientEndsJob(t)
    \/ ClientThrows(t)
    \/ ClientTerminates(t)

WorkerStep(t) ==
    \/ DelegateConstruct(t)
    \/ DelegateConstructThrows(t)
    \/ ThreadLoopRegister(t)
    \/ ThreadLoopReady(t)
    \/ DelegateNotify(t)
    \/ RunCheckForce(t)
    \/ RunCheckFlag(t)
    \/ ClientStep(t)
    \/ ThreadLoopUnregister(t)
    \/ ThreadEnd(t)
=============================================================================
