---------------------------- MODULE MetricProxy ----------------------------
(***************************************************************************)
(* The metrics of one pool (metric-proxy.cpp) and the wrapper each client  *)
(* of the pool reports through (MetricProxyPoolWrapper, metric-proxy.h).   *)
(* All the clients share the counters and gauges.  A counter or gauge is   *)
(* changed atomically, but a report that changes two gauges changes one    *)
(* after the other, so it is two steps of its thread.                      *)
(*                                                                         *)
(* Durations and HTTP statuses are left out: a histogram is the number of  *)
(* its observations.                                                       *)
(***************************************************************************)
EXTENDS Integers, Sequences

CONSTANTS Clients,      \* the threads that may own a client
          Functions     \* names of gearman functions

VARIABLES
    idle,               \* gauge driveshaft_threads, status idle
    working,            \* gauge driveshaft_threads, status working, by function
    job_duration,       \* histogram driveshaft_job_duration
    http_errors,        \* the three counters
    timeouts,
    errors,
    m_active_function   \* the wrapper's stack; its top is the last element

gauges == <<idle, working>>
counters == <<job_duration, http_errors, timeouts, errors>>

MetricTypeOK ==
    /\ idle \in Nat
    /\ working \in [Functions -> Nat]
    /\ \A c \in {job_duration, http_errors, timeouts, errors} :
         c \in [Functions -> Nat]
    /\ m_active_function \in [Clients -> Seq(Functions)]

MetricInit ==
    /\ idle = 0
    /\ working = [f \in Functions |-> 0]
    /\ job_duration = [f \in Functions |-> 0]
    /\ http_errors = [f \in Functions |-> 0]
    /\ timeouts = [f \in Functions |-> 0]
    /\ errors = [f \in Functions |-> 0]
    /\ m_active_function = [t \in Clients |-> <<>>]

bumped(counter, f) == [counter EXCEPT ![f] = @ + 1]

active(t) == m_active_function[t] # <<>>

top(t) == m_active_function[t][Len(m_active_function[t])]

pop(t) ==
    m_active_function' =
        [m_active_function EXCEPT ![t] = SubSeq(@, 1, Len(@) - 1)]

-----------------------------------------------------------------------------
reportJobSuccess(f) ==
    /\ job_duration' = bumped(job_duration, f)
    /\ UNCHANGED <<http_errors, timeouts, errors>>

reportJobHttpError(f) ==
    /\ http_errors' = bumped(http_errors, f)
    /\ UNCHANGED <<job_duration, timeouts, errors>>

reportJobTimeout(f) ==
    /\ timeouts' = bumped(timeouts, f)
    /\ UNCHANGED <<job_duration, http_errors, errors>>

reportJobError(f) ==
    /\ errors' = bumped(errors, f)
    /\ UNCHANGED <<job_duration, http_errors, timeouts>>

reportThreadStarted ==
    /\ idle' = idle + 1
    /\ UNCHANGED <<working, m_active_function>>

\* reportThreadStartingWork: active.Increment(), then idle.Decrement() and push.
startingWorkActive(f) ==
    /\ working' = bumped(working, f)
    /\ UNCHANGED <<idle, m_active_function>>

startingWorkIdle(t, f) ==
    /\ idle' = idle - 1
    /\ m_active_function' = [m_active_function EXCEPT ![t] = Append(@, f)]
    /\ UNCHANGED working

\* reportThreadWorkComplete with a function on the stack: active.Decrement(),
\* then idle.Increment() and pop.
workCompleteActive(t) ==
    /\ working' = [working EXCEPT ![top(t)] = @ - 1]
    /\ UNCHANGED <<idle, m_active_function>>

\* Mutants: the function stays on the stack; the idle gauge is forgotten.
workCompleteIdleNoPop(t) ==
    /\ idle' = idle + 1
    /\ UNCHANGED <<working, m_active_function>>

workCompleteIdleLost(t) ==
    /\ pop(t)
    /\ UNCHANGED gauges

workCompleteIdle(t) ==
    /\ idle' = idle + 1
    /\ pop(t)
    /\ UNCHANGED working

\* reportThreadEnded with an empty stack; otherwise it is the two steps of
\* reportThreadWorkComplete.
threadEndedIdle ==
    /\ idle' = idle - 1
    /\ UNCHANGED <<working, m_active_function>>
=============================================================================
