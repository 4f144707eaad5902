--------------------------- MODULE GearmanClient ---------------------------
(***************************************************************************)
(* The clients of one pool (gearman-client.cpp), one per worker thread:    *)
(* the state machine of run(), processJob with each of its outcomes, and   *)
(* what they report to the metrics.  libgearman, libcurl and the endpoint  *)
(* choose every outcome they may have.  ThreadLoop, which calls run() again*)
(* and again and at last destroys the client, is seen from the client.     *)
(*                                                                         *)
(* Time is one bit per job: has it run longer than MAX_JOB_RUNNING_TIME?   *)
(***************************************************************************)
EXTENDS MetricProxy, FiniteSets

CONSTANT MaxJobs,     \* bound on the jobs of a function gearmand hands out
         NoJob        \* the job of a client that has none

VARIABLES
    client_pc,          \* where the thread of the client is
    m_state,            \* GearmanClient::State
    job,                \* the job gearman_worker_work holds
    overran,            \* has the job run for too long?
    jobs,               \* jobs gearmand handed out, by function
    completed,          \* answers of success gearmand received, by function
    g_force_shutdown,
    process

clientVars == <<client_pc, m_state, job, overran>>
gearmandVars == <<jobs, completed>>
vars == <<clientVars, gearmandVars, gauges, counters, m_active_function,
          g_force_shutdown, process>>

ASSUME MaxJobsAssumption == MaxJobs \in Nat

ASSUME ClientsAssumption == IsFiniteSet(Clients)

\* What processJob returns: the zero of success, the failure its error path
\* sets, or another code the endpoint chose.
GearmanReturns == {"SUCCESS", "WORK_FAIL", "OTHER"}

\* gearman_ret is initialised to GEARMAN_SUCCESS.
Job == [function : Functions, gearman_ret : GearmanReturns]

ASSUME NoJobAssumption == NoJob \notin Job

\* Inside processJob.
Processing == {"starting", "perform", "timeout", "http_error", "error", "success"}

ClientPlaces ==
    {"none", "out", "run", "answer", "complete", "completing", "leaving", "ending"}
        \cup Processing

\* Every variable holds a value the code can store in it; no gauge is ever
\* below zero.
ClientTypeOK ==
    /\ MetricTypeOK
    /\ client_pc \in [Clients -> ClientPlaces]
    /\ m_state \in [Clients -> {"INIT", "GRAB_JOB", "POLL"}]
    /\ job \in [Clients -> Job \cup {NoJob}]
    /\ overran \in [Clients -> BOOLEAN]
    /\ jobs \in [Functions -> Nat]
    /\ completed \in [Functions -> Nat]
    /\ g_force_shutdown \in BOOLEAN
    /\ process \in {"running", "uncaught"}

Init ==
    /\ MetricInit
    /\ client_pc = [t \in Clients |-> "none"]
    /\ m_state = [t \in Clients |-> "INIT"]
    /\ job = [t \in Clients |-> NoJob]
    /\ overran = [t \in Clients |-> FALSE]
    /\ jobs = [f \in Functions |-> 0]
    /\ completed = [f \in Functions |-> 0]
    /\ g_force_shutdown = FALSE
    /\ process = "running"

Goto(t, from, to) ==
    /\ process = "running"
    /\ client_pc[t] = from
    /\ client_pc' = [client_pc EXCEPT ![t] = to]

unchangedMetrics == UNCHANGED <<gauges, counters, m_active_function>>

\* A step that only moves the thread, only reports to the gauges, or only to
\* the counters.
unchangedRest == UNCHANGED <<m_state, job, overran, gearmandVars, g_force_shutdown, process>>
onlyMoves == unchangedRest /\ unchangedMetrics
onlyGauges == unchangedRest /\ UNCHANGED counters
onlyCounters == unchangedRest /\ UNCHANGED <<gauges, m_active_function>>

-----------------------------------------------------------------------------
(***************************************************************************)
(* What ThreadLoop and the main thread do.                                 *)
(***************************************************************************)

\* The constructor, when nothing throws.
Construct(t) ==
    /\ Goto(t, "none", "out")
    /\ ~g_force_shutdown
    /\ m_state' = [m_state EXCEPT ![t] = "GRAB_JOB"]
    /\ reportThreadStarted
    /\ UNCHANGED <<job, overran, gearmandVars, counters, g_force_shutdown, process>>

CallRun(t) ==
    /\ Goto(t, "out", "run")
    /\ ~g_force_shutdown
    /\ onlyMoves

\* The thread was told to stop, by its own flag or by the global one.
StopRequested(t) ==
    /\ Goto(t, "out", "leaving")
    /\ onlyMoves

\* doShutdown sets the global flag.
ForceShutdown ==
    /\ process = "running"
    /\ ~g_force_shutdown
    /\ g_force_shutdown' = TRUE
    /\ unchangedMetrics
    /\ UNCHANGED <<clientVars, gearmandVars, process>>

\* Mutant: ~GearmanClient reports every thread as idle.
DestroyAsIdle(t) ==
    /\ Goto(t, "leaving", "none")
    /\ idle' = idle - 1
    /\ m_active_function' = [m_active_function EXCEPT ![t] = <<>>]
    /\ m_state' = [m_state EXCEPT ![t] = "INIT"]
    /\ job' = [job EXCEPT ![t] = NoJob]
    /\ UNCHANGED <<working, overran, gearmandVars, counters, g_force_shutdown, process>>

\* ~GearmanClient.  gearmand takes back a job that was not answered.
Destroy(t) ==
    /\ \/ /\ ~active(t)
          /\ Goto(t, "leaving", "none")
          /\ threadEndedIdle
       \/ /\ active(t)
          /\ Goto(t, "leaving", "ending")
          /\ workCompleteActive(t)
    /\ m_state' = [m_state EXCEPT ![t] = "INIT"]
    /\ job' = [job EXCEPT ![t] = NoJob]
    /\ UNCHANGED <<overran, gearmandVars, counters, g_force_shutdown, process>>

DestroyEnds(t) ==
    /\ Goto(t, "ending", "none")
    /\ workCompleteIdle(t)
    /\ onlyGauges

-----------------------------------------------------------------------------
(***************************************************************************)
(* run(), in state POLL.                                                   *)
(***************************************************************************)
WaitSuccess(t) ==
    /\ process = "running"
    /\ client_pc[t] = "run" /\ m_state[t] = "POLL"
    /\ m_state' = [m_state EXCEPT ![t] = "GRAB_JOB"]
    /\ unchangedMetrics
    /\ UNCHANGED <<client_pc, job, overran, gearmandVars, g_force_shutdown, process>>

WaitTimeout(t) ==
    /\ m_state[t] = "POLL"
    /\ Goto(t, "run", "out")
    /\ onlyMoves

WaitThrows(t) ==
    /\ m_state[t] = "POLL"
    /\ Goto(t, "run", "leaving")
    /\ onlyMoves

(***************************************************************************)
(* run(), in state GRAB_JOB: gearman_worker_work sends the answer it still *)
(* owes, or asks for a job and hands it to worker_callback.                *)
(***************************************************************************)

\* IO_WAIT, or NO_JOBS.
WorkNothing(t) ==
    /\ process = "running"
    /\ client_pc[t] \in {"run", "answer"} /\ m_state[t] = "GRAB_JOB"
    /\ client_pc' = [client_pc EXCEPT ![t] = "run"]
    /\ m_state' = [m_state EXCEPT ![t] = "POLL"]
    /\ unchangedMetrics
    /\ UNCHANGED <<job, overran, gearmandVars, g_force_shutdown, process>>

\* TIMEOUT, NOT_CONNECTED or a code run() does not expect, such as the one
\* an endpoint chose.
WorkThrows(t) ==
    /\ m_state[t] = "GRAB_JOB"
    /\ \E from \in {"run", "answer"} : Goto(t, from, "leaving")
    /\ onlyMoves

\* Mutant: work() asks for a job although it owes an answer.
WorkCallbackAnyway(t, f) ==
    /\ m_state[t] = "GRAB_JOB"
    /\ jobs[f] < MaxJobs
    /\ Goto(t, "run", "starting")
    /\ job' = [job EXCEPT ![t] = [function |-> f, gearman_ret |-> "SUCCESS"]]
    /\ jobs' = bumped(jobs, f)
    /\ overran' = [overran EXCEPT ![t] = FALSE]
    /\ startingWorkActive(f)
    /\ UNCHANGED <<m_state, completed, counters, g_force_shutdown, process>>

\* A job of function f arrives: processJob up to active.Increment().
WorkCallback(t, f) ==
    /\ m_state[t] = "GRAB_JOB" /\ job[t] = NoJob
    /\ jobs[f] < MaxJobs
    /\ Goto(t, "run", "starting")
    /\ job' = [job EXCEPT ![t] = [function |-> f, gearman_ret |-> "SUCCESS"]]
    /\ jobs' = bumped(jobs, f)
    /\ overran' = [overran EXCEPT ![t] = FALSE]
    /\ startingWorkActive(f)
    /\ UNCHANGED <<m_state, completed, counters, g_force_shutdown, process>>

\* The answer is sent: SUCCESS or one of the WORK_ codes.
WorkAnswered(t) ==
    /\ m_state[t] = "GRAB_JOB" /\ job[t] # NoJob
    /\ \E from \in {"run", "answer"} : Goto(t, from, "complete")
    /\ completed' = IF job[t].gearman_ret = "SUCCESS"
                    THEN bumped(completed, job[t].function) ELSE completed
    /\ job' = [job EXCEPT ![t] = NoJob]
    /\ unchangedMetrics
    /\ UNCHANGED <<m_state, overran, jobs, g_force_shutdown, process>>

\* reportThreadWorkComplete, setThreadState and the return of run().
WorkComplete(t) ==
    /\ IF active(t)
       THEN Goto(t, "complete", "completing") /\ workCompleteActive(t)
       ELSE Goto(t, "complete", "out") /\ UNCHANGED <<gauges, m_active_function>>
    /\ onlyGauges

WorkCompleteEnds(t) ==
    /\ Goto(t, "completing", "out")
    /\ workCompleteIdle(t)
    /\ onlyGauges

-----------------------------------------------------------------------------
(***************************************************************************)
(* processJob, from idle.Decrement() on.                                   *)
(***************************************************************************)
JobStarted(t) ==
    /\ Goto(t, "starting", "perform")
    /\ startingWorkIdle(t, job[t].function)
    /\ onlyGauges

\* MAX_JOB_RUNNING_TIME seconds have passed.
JobOverruns(t) ==
    /\ process = "running"
    /\ client_pc[t] = "perform" /\ ~overran[t]
    /\ overran' = [overran EXCEPT ![t] = TRUE]
    /\ unchangedMetrics
    /\ UNCHANGED <<client_pc, m_state, job, gearmandVars, g_force_shutdown, process>>

\* Mutants: the callback reads only the clock, or only the global flag.
curl_progress_funcClock(t) == overran[t]

curl_progress_funcFlag(t) == g_force_shutdown

curl_progress_func(t) == g_force_shutdown \/ overran[t]

\* CURLE_ABORTED_BY_CALLBACK.
PerformAborted(t) ==
    /\ curl_progress_func(t)
    /\ Goto(t, "perform", "timeout")
    /\ onlyMoves

\* A status other than 200 sends the job to reportJobHttpError.  A call to
\* curl that fails, and a body that is not JSON or lacks gearman_ret or
\* response_string, send it to the error path.
PerformFails(t) ==
    /\ \E to \in {"http_error", "error"} : Goto(t, "perform", to)
    /\ onlyMoves

\* A valid answer, with any gearman_ret.
PerformSucceeds(t) ==
    /\ Goto(t, "perform", "success")
    /\ \E ret \in GearmanReturns : job' = [job EXCEPT ![t].gearman_ret = ret]
    /\ unchangedMetrics
    /\ UNCHANGED <<m_state, overran, gearmandVars, g_force_shutdown, process>>

\* gearman_ret passes isUInt() but not asInt(), which throws in processJob.
PerformTerminates(t) ==
    /\ process = "running"
    /\ client_pc[t] = "perform"
    /\ process' = "uncaught"
    /\ unchangedMetrics
    /\ UNCHANGED <<clientVars, gearmandVars, g_force_shutdown>>

JobTimeout(t) ==
    /\ Goto(t, "timeout", "error")
    /\ reportJobTimeout(job[t].function)
    /\ onlyCounters

\* Mutant: the job is answered as if it was not an error.
JobHttpErrorAnswered(t) ==
    /\ Goto(t, "http_error", "answer")
    /\ reportJobHttpError(job[t].function)
    /\ onlyCounters

JobHttpError(t) ==
    /\ Goto(t, "http_error", "error")
    /\ reportJobHttpError(job[t].function)
    /\ onlyCounters

\* Mutant: gearman_ret keeps its initial value.
JobErrorAsSuccess(t) ==
    /\ Goto(t, "error", "answer")
    /\ reportJobError(job[t].function)
    /\ onlyCounters

JobError(t) ==
    /\ Goto(t, "error", "answer")
    /\ job' = [job EXCEPT ![t].gearman_ret = "WORK_FAIL"]
    /\ reportJobError(job[t].function)
    /\ UNCHANGED <<m_state, overran, gearmandVars, gauges, m_active_function,
                   g_force_shutdown, process>>

JobSuccess(t) ==
    /\ Goto(t, "success", "answer")
    /\ reportJobSuccess(job[t].function)
    /\ onlyCounters

-----------------------------------------------------------------------------
\* What the thread of a client does, whatever libgearman answers, and what
\* the endpoint and the clock may do to its job.
ThreadStep(t) ==
    \/ CallRun(t)
    \/ StopRequested(t)
    \/ Destroy(t)
    \/ DestroyEnds(t)
    \/ WaitSuccess(t)
    \/ WaitTimeout(t)
    \/ WaitThrows(t)
    \/ WorkNothing(t)
    \/ WorkThrows(t)
    \/ \E f \in Functions : WorkCallback(t, f)
    \/ WorkAnswered(t)
    \/ WorkComplete(t)
    \/ WorkCompleteEnds(t)
    \/ JobStarted(t)
    \/ PerformAborted(t)
    \/ JobTimeout(t)
    \/ JobHttpError(t)
    \/ JobError(t)
    \/ JobSuccess(t)

EndpointStep(t) ==
    \/ JobOverruns(t)
    \/ PerformFails(t)
    \/ PerformSucceeds(t)
    \/ PerformTerminates(t)

\* The process was terminated, or every client is gone for good.
Ended ==
    /\ \/ process # "running"
       \/ g_force_shutdown /\ \A t \in Clients : client_pc[t] = "none"
    /\ UNCHANGED vars

Next ==
    \/ ForceShutdown
    \/ \E t \in Clients : Construct(t) \/ ThreadStep(t) \/ EndpointStep(t)
    \/ Ended

Spec == Init /\ [][Next]_vars

(***************************************************************************)
(* A thread that can move is scheduled, the calls of libgearman return     *)
(* (the worker is non-blocking and has a timeout), and libcurl calls the   *)
(* progress callback for as long as a transfer lasts.  A thread that polls *)
(* for ever times out at last: gearmand does not wake it without end for   *)
(* jobs that others take.  The endpoint promises nothing.                  *)
(***************************************************************************)
Fairness ==
    \A t \in Clients : WF_vars(ThreadStep(t)) /\ SF_vars(WaitTimeout(t))

FairSpec == Spec /\ Fairness

-----------------------------------------------------------------------------
(***************************************************************************)
(* Safety.                                                                 *)
(***************************************************************************)
unanswered(t) == IF job[t] = NoJob THEN <<>> ELSE <<job[t].function>>

\* Whenever the thread is in its loop or in run(), the wrapper's stack holds
\* the function of the job the client still owes an answer, and nothing
\* else: no return, timeout or retry of run() leaves a function behind or
\* pushes a second one.
StackIsUnansweredJob ==
    \A t \in Clients :
        client_pc[t] \in {"out", "run", "answer"} =>
            m_active_function[t] = unanswered(t)

\* Is t counted as working on f?
busyOn(t, f) ==
    \/ client_pc[t] = "starting" /\ job[t].function = f
    \/ active(t) /\ top(t) = f /\ client_pc[t] \notin {"completing", "ending"}

\* The gauge of working threads is exact at every instant a scrape may come,
\* between the two halves of a report too, and however a thread ended.
WorkingGaugeExact ==
    \A f \in Functions : working[f] = Cardinality({t \in Clients : busyOn(t, f)})

idleThreads == {t \in Clients : client_pc[t] # "none" /\ ~active(t)}

\* The gauge of idle threads never hides an idle thread.
IdleGaugeNeverLow == idle >= Cardinality(idleThreads)

inHand(f, places) ==
    {t \in Clients : client_pc[t] \in places /\ job[t].function = f}

\* Every job handed out is in hand or was counted exactly once, as a success
\* or as an error.
JobsCountedOnce ==
    \A f \in Functions :
        jobs[f] = job_duration[f] + errors[f] + Cardinality(inHand(f, Processing))

\* A timeout or an HTTP error is an error too (README: driveshaft_errors
\* includes both), but for the jobs between the two reports.
ErrorsIncludeTimeouts ==
    \A f \in Functions :
        timeouts[f] + http_errors[f] <= errors[f] + Cardinality(inHand(f, {"error"}))

\* gearmand is told of a success only for a job the endpoint answered: no
\* failure of curl, HTTP, parsing or time is answered as one.
CompletedJobsSucceeded ==
    \A f \in Functions : completed[f] <= job_duration[f]

\* Why the stack is what it is: at every place it is empty or holds one
\* function, that of the job in hand or of the one just answered.
StackInv ==
    \A t \in Clients :
        /\ client_pc[t] \in {"none", "complete", "completing", "ending"} => job[t] = NoJob
        /\ client_pc[t] \in Processing \cup {"answer"} => job[t] # NoJob
        /\ client_pc[t] \in {"none", "starting"} => m_active_function[t] = <<>>
        /\ client_pc[t] \in {"complete", "completing", "ending"} =>
             \E f \in Functions : m_active_function[t] = <<f>>
        /\ client_pc[t] \notin {"none", "starting", "complete", "completing", "ending"} =>
             m_active_function[t] = unanswered(t)

\* The jobs that will be answered as a success, if they are answered.
owed(f) ==
    {t \in Clients : /\ client_pc[t] \in {"out", "run", "answer", "leaving"}
                     /\ job[t] # NoJob
                     /\ job[t].function = f /\ job[t].gearman_ret = "SUCCESS"}

\* Why no other job is: the ones answered and those to be were all observed.
OwedInv ==
    \A f \in Functions : completed[f] + Cardinality(owed(f)) <= job_duration[f]

-----------------------------------------------------------------------------
(***************************************************************************)
(* Liveness.                                                               *)
(***************************************************************************)
backInLoop(t) == client_pc[t] \in {"out", "none"} \/ process # "running"

\* A job that has run for too long ends although its endpoint never answers,
\* and the thread gets back to its loop or ends, sent or not the answer.
OverrunJobEnds ==
    \A t \in Clients :
        (client_pc[t] = "perform" /\ overran[t]) ~> backInLoop(t)

\* After doShutdown sets the global flag every client is destroyed, without
\* waiting for the window of the jobs that run.
ForceShutdownDrains ==
    g_force_shutdown ~>
        ((\A t \in Clients : client_pc[t] = "none") \/ process # "running")

-----------------------------------------------------------------------------
(***************************************************************************)
(* What the documentation says and the code does not do.                   *)
(***************************************************************************)

\* driveshaft_threads "tracks threads by pool and function including their
\* working/idle status" (metric-proxy.h).  reportThreadEnded counts a thread
\* that ends with a function on its stack as idle, for ever.
IdleGaugeExact == idle = Cardinality(idleThreads)
=============================================================================
