---------------------------- MODULE MetricProofs ----------------------------
(***************************************************************************)
(* What the clients of a pool report and answer, for any number of         *)
(* clients, functions and jobs.  Each gauge and counter is a sum over the  *)
(* clients, of which a step changes the part of one client.                *)
(***************************************************************************)
EXTENDS GearmanClientProofs

\* What the gauges and counters are, in terms of the clients.
CountInv ==
    /\ \A f \in Functions :
         /\ working[f] = Cardinality(workingOn(f))
         /\ jobs[f] = job_duration[f] + errors[f] + Cardinality(processing(f))
         /\ timeouts[f] + http_errors[f] <= errors[f] + Cardinality(failing(f))
         /\ completed[f] + Cardinality(owed(f)) <= job_duration[f]
    /\ idle >= Cardinality(idleThreads)

IInv == Types /\ StackInv /\ CountInv

LEMMA InitCounts == Init => CountInv
<1> SUFFICES ASSUME Init
             PROVE  CountInv
  OBVIOUS
<1>1. /\ idleThreads = {}
      /\ \A f \in Functions :
           workingOn(f) = {} /\ processing(f) = {} /\ failing(f) = {} /\ owed(f) = {}
  BY DEF Init, MetricInit, idleThreads, workingOn, busyOn, active, processing, failing, inHand,
     owed, Processing
<1>2. Cardinality({}) = 0
  BY FS_EmptySet
<1>3. /\ Cardinality(idleThreads) = 0
      /\ \A f \in Functions :
           /\ Cardinality(workingOn(f)) = 0 /\ Cardinality(processing(f)) = 0
           /\ Cardinality(failing(f)) = 0 /\ Cardinality(owed(f)) = 0
  BY <1>1, <1>2
<1>4. /\ idle = 0
      /\ \A f \in Functions :
           /\ working[f] = 0 /\ jobs[f] = 0 /\ job_duration[f] = 0 /\ errors[f] = 0
           /\ timeouts[f] = 0 /\ http_errors[f] = 0 /\ completed[f] = 0
  BY DEF Init, MetricInit
<1> QED
  BY <1>3, <1>4 DEF CountInv

CountOf(f) ==
    /\ working[f] = Cardinality(workingOn(f))
    /\ jobs[f] = job_duration[f] + errors[f] + Cardinality(processing(f))
    /\ timeouts[f] + http_errors[f] <= errors[f] + Cardinality(failing(f))
    /\ completed[f] + Cardinality(owed(f)) <= job_duration[f]

\* Where a client is counted for f, now and after a step.
Counted(t, f) ==
    /\ t \in workingOn(f) <=>
         \/ client_pc[t] = "starting" /\ job[t].function = f
         \/ m_active_function[t] = <<f>> /\ client_pc[t] \notin {"completing", "ending"}
    /\ t \in processing(f) <=> client_pc[t] \in Processing /\ job[t].function = f
    /\ t \in failing(f) <=> client_pc[t] = "error" /\ job[t].function = f
    /\ t \in owed(f) <=>
         /\ client_pc[t] \in {"out", "run", "answer", "leaving"}
         /\ job[t] # NoJob
         /\ job[t].function = f /\ job[t].gearman_ret = "SUCCESS"

\* A step that moves the client in no count of f and reports nothing about f.
SameMembers(t, f) ==
    /\ t \in workingOn(f) <=> t \in workingOn(f)'
    /\ t \in processing(f) <=> t \in processing(f)'
    /\ t \in failing(f) <=> t \in failing(f)'
    /\ t \in owed(f) <=> t \in owed(f)'

SameReports(f) ==
    /\ working'[f] = working[f] /\ jobs'[f] = jobs[f] /\ completed'[f] = completed[f]
    /\ job_duration'[f] = job_duration[f] /\ errors'[f] = errors[f]
    /\ timeouts'[f] = timeouts[f] /\ http_errors'[f] = http_errors[f]

LEMMA CountStays ==
    ASSUME NEW t \in Clients, NEW f \in Functions, CountOf(f), Delta(t, f),
           SameMembers(t, f), SameReports(f)
    PROVE  CountOf(f)'
BY DEF CountOf, Delta, SameMembers, SameReports

LEMMA ActCountOf ==
    ASSUME IInv, NEW t \in Clients, Act(t), NEW f \in Functions
    PROVE  CountOf(f)'
<1>1. Types' /\ StackInv'
  BY ActTypes, ActStack DEF IInv
<1>2. Counted(t, f) /\ Counted(t, f)'
  <2>1. MembersOK'
    BY Members, PTL
  <2>2. BusyOK'
    BY <1>1, Busy, PTL
  <2> QED
    BY <2>1, <2>2, Members, Busy DEF IInv, MembersOK, BusyOK, Counted
<1>3. CountOf(f) /\ Delta(t, f)
  BY Deltas DEF IInv, CountInv, CountOf
<1>4. /\ working[f] \in Int /\ jobs[f] \in Nat /\ job_duration[f] \in Nat
      /\ errors[f] \in Nat /\ timeouts[f] \in Nat /\ http_errors[f] \in Nat
      /\ completed[f] \in Nat
  BY DEF IInv, Types
<1>5. /\ client_pc \in [Clients -> ClientPlaces] /\ job \in [Clients -> Job \cup {NoJob}]
      /\ working \in [Functions -> Int] /\ jobs \in [Functions -> Nat]
      /\ job_duration \in [Functions -> Nat] /\ errors \in [Functions -> Nat]
      /\ timeouts \in [Functions -> Nat] /\ http_errors \in [Functions -> Nat]
      /\ completed \in [Functions -> Nat]
  BY DEF IInv, Types
<1> USE DEF Goto, onlyMoves, onlyGauges, onlyCounters, unchangedRest, unchangedMetrics,
        gauges, counters, gearmandVars, clientVars
<1>6. CASE Construct(t)
  <2>1. job[t] = NoJob /\ m_active_function[t] = <<>>
    BY <1>6 DEF Construct, IInv, StackInv
  <2>2. /\ client_pc[t] = "none" /\ client_pc'[t] = "out"
        /\ job' = job /\ m_active_function' = m_active_function
    BY <1>5, <1>6 DEF Construct, reportThreadStarted
  <2>3. SameMembers(t, f)
    BY <1>2, <2>1, <2>2 DEF Counted, SameMembers, Processing
  <2>4. SameReports(f)
    BY <1>6 DEF Construct, reportThreadStarted, SameReports
  <2> QED
    BY <1>3, <2>3, <2>4, CountStays
<1>7. CASE Moves(t)
  <2>1. /\ job' = job /\ m_active_function' = m_active_function /\ SameReports(f)
    BY <1>7 DEF Moves, CallRun, StopRequested, WaitTimeout, WaitThrows, WorkThrows,
       PerformAborted, PerformFails, SameReports
  <2>2. \/ /\ client_pc[t] \in {"out", "run", "answer"}
           /\ client_pc'[t] \in {"out", "run", "leaving"}
        \/ /\ client_pc[t] = "perform" /\ client_pc'[t] \in {"timeout", "http_error"}
        \/ /\ client_pc[t] = "perform" /\ client_pc'[t] = "error"
    BY <1>5, <1>7 DEF Moves, CallRun, StopRequested, WaitTimeout, WaitThrows, WorkThrows,
       PerformAborted, PerformFails
  <2>3. /\ t \in workingOn(f) <=> t \in workingOn(f)'
        /\ t \in processing(f) <=> t \in processing(f)'
        /\ t \in owed(f) <=> t \in owed(f)'
    BY <1>2, <2>1, <2>2 DEF Counted, Processing
  <2>4. t \notin failing(f)
    BY <1>2, <2>2 DEF Counted
  <2> QED
    BY <1>3, <1>4, <2>1, <2>3, <2>4 DEF CountOf, Delta, SameReports
<1>8. CASE Local(t)
  <2>1. /\ job' = job /\ m_active_function' = m_active_function /\ SameReports(f)
    BY <1>8 DEF Local, WaitSuccess, WorkNothing, JobOverruns, PerformTerminates, SameReports
  <2>2. \/ client_pc'[t] = client_pc[t]
        \/ client_pc[t] \in {"run", "answer"} /\ client_pc'[t] = "run"
    BY <1>5, <1>8 DEF Local, WaitSuccess, WorkNothing, JobOverruns, PerformTerminates
  <2>3. SameMembers(t, f)
    BY <1>2, <2>1, <2>2 DEF Counted, SameMembers, Processing
  <2> QED
    BY <1>3, <2>1, <2>3, CountStays
<1>9. CASE JobTimeout(t) \/ JobHttpError(t)
  <2>1. /\ client_pc[t] \in {"timeout", "http_error"} /\ client_pc'[t] = "error"
        /\ job' = job /\ m_active_function' = m_active_function
        /\ UNCHANGED <<working, jobs, completed, job_duration, errors>>
    BY <1>5, <1>9 DEF JobTimeout, JobHttpError, reportJobTimeout, reportJobHttpError
  <2>2. CASE job[t].function = f
    <3>1. timeouts'[f] + http_errors'[f] = timeouts[f] + http_errors[f] + 1
      BY <1>4, <1>5, <1>9, <2>2 DEF JobTimeout, JobHttpError, reportJobTimeout,
         reportJobHttpError, bumped
    <3>2. /\ t \in workingOn(f) <=> t \in workingOn(f)'
          /\ t \in processing(f) <=> t \in processing(f)'
          /\ t \in owed(f) <=> t \in owed(f)'
          /\ t \notin failing(f) /\ t \in failing(f)'
      BY <1>2, <2>1, <2>2 DEF Counted, Processing
    <3> QED
      BY <1>3, <1>4, <2>1, <3>1, <3>2 DEF CountOf, Delta
  <2>3. CASE job[t].function # f
    <3>1. SameMembers(t, f)
      BY <1>2, <2>1, <2>3 DEF Counted, SameMembers, Processing
    <3>2. timeouts'[f] = timeouts[f] /\ http_errors'[f] = http_errors[f]
      BY <1>5, <1>9, <2>3 DEF JobTimeout, JobHttpError, reportJobTimeout,
         reportJobHttpError, bumped
    <3> QED
      BY <1>3, <2>1, <3>1, <3>2, CountStays DEF SameReports
  <2> QED
    BY <2>2, <2>3
<1>10. CASE JobSuccess(t) \/ JobError(t)
  <2>1. /\ client_pc[t] \in {"success", "error"} /\ client_pc'[t] = "answer"
        /\ m_active_function' = m_active_function
        /\ UNCHANGED <<working, jobs, completed, timeouts, http_errors>>
    BY <1>5, <1>10 DEF JobSuccess, JobError, reportJobSuccess, reportJobError
  <2>2. job[t] \in Job
    BY <1>5, <2>1 DEF IInv, StackInv, Processing
  <2>3. job'[t].function = job[t].function
    BY <1>5, <1>10, <2>2 DEF JobSuccess, JobError, Job
  <2>4. t \in workingOn(f) <=> t \in workingOn(f)'
    BY <1>2, <2>1 DEF Counted
  <2>5. CASE job[t].function # f
    <3>1. SameMembers(t, f)
      BY <1>2, <2>1, <2>3, <2>4, <2>5 DEF Counted, SameMembers
    <3>2. job_duration'[f] = job_duration[f] /\ errors'[f] = errors[f]
      BY <1>5, <1>10, <2>5 DEF JobSuccess, JobError, reportJobSuccess, reportJobError, bumped
    <3> QED
      BY <1>3, <2>1, <3>1, <3>2, CountStays DEF SameReports
  <2>6. CASE job[t].function = f
    <3>1. t \in processing(f) /\ t \notin processing(f)' /\ t \notin owed(f)
          /\ t \notin failing(f)'
      BY <1>2, <2>1, <2>6 DEF Counted, Processing
    <3>2. CASE JobSuccess(t)
      <4>1. t \notin failing(f)
        BY <1>2, <1>5, <3>2 DEF Counted, JobSuccess
      <4>2. job_duration'[f] = job_duration[f] + 1 /\ errors'[f] = errors[f]
        BY <1>5, <2>6, <3>2 DEF JobSuccess, reportJobSuccess, bumped
      <4> QED
        BY <1>3, <1>4, <2>1, <2>4, <3>1, <4>1, <4>2 DEF CountOf, Delta
    <3>3. CASE JobError(t)
      <4>1. t \in failing(f)
        BY <1>2, <2>6, <3>3 DEF Counted, JobError
      <4>2. job'[t].gearman_ret = "WORK_FAIL"
        BY <1>5, <2>2, <3>3 DEF JobError, Job
      <4>3. t \notin owed(f)'
        BY <1>2, <4>2 DEF Counted
      <4>4. errors'[f] = errors[f] + 1 /\ job_duration'[f] = job_duration[f]
        BY <1>5, <2>6, <3>3 DEF JobError, reportJobError, bumped
      <4> QED
        BY <1>3, <1>4, <2>1, <2>4, <3>1, <4>1, <4>3, <4>4 DEF CountOf, Delta
    <3> QED
      BY <1>10, <3>2, <3>3
  <2> QED
    BY <2>5, <2>6
<1>11. CASE Destroy(t)
  <2>1. /\ client_pc[t] = "leaving" /\ client_pc'[t] \in {"none", "ending"}
        /\ job'[t] = NoJob /\ m_active_function' = m_active_function
        /\ UNCHANGED <<gearmandVars, counters>>
    BY <1>5, <1>11 DEF Destroy, threadEndedIdle, workCompleteActive
  <2>2. m_active_function[t] = unanswered(t)
    BY <2>1 DEF IInv, StackInv
  <2>3. /\ t \notin processing(f) /\ t \notin processing(f)'
        /\ t \notin failing(f) /\ t \notin failing(f)' /\ t \notin owed(f)'
    BY <1>2, <2>1 DEF Counted, Processing
  <2>4. /\ Cardinality(owed(f)) \in Nat /\ Cardinality(owed(f))' \in Nat
        /\ Cardinality(owed(f))' <= Cardinality(owed(f))
    BY <1>3, <2>3 DEF Delta
  <2>5. CASE job[t] = NoJob
    <3>1. m_active_function[t] = <<>> /\ ~active(t)
      BY <2>2, <2>5 DEF unanswered, active
    <3>2. <<>> # <<f>>
      OBVIOUS
    <3>3. t \notin workingOn(f) /\ t \notin workingOn(f)'
      BY <1>2, <2>1, <3>1, <3>2 DEF Counted
    <3>4. working' = working
      BY <1>11, <3>1 DEF Destroy, threadEndedIdle
    <3>5. /\ Cardinality(workingOn(f))' = Cardinality(workingOn(f))
          /\ Cardinality(processing(f))' = Cardinality(processing(f))
          /\ Cardinality(failing(f))' = Cardinality(failing(f))
      BY <1>3, <2>3, <3>3 DEF Delta
    <3> QED
      BY <1>3, <1>4, <2>1, <2>4, <3>4, <3>5 DEF CountOf
  <2>6. CASE job[t] # NoJob
    <3>1. PICK g \in Functions : m_active_function[t] = <<g>>
      BY <2>2, <2>6, JobFields DEF unanswered, IInv
    <3>2. active(t) /\ top(t) = g
      BY <3>1, OneFunction DEF IInv
    <3>3. m_active_function[t] = <<f>> <=> f = g
      BY <3>1
    <3>4. workCompleteActive(t) /\ client_pc'[t] = "ending"
      BY <1>5, <1>11, <3>2 DEF Destroy
    <3>5. (t \in workingOn(f) <=> f = g) /\ t \notin workingOn(f)'
      BY <1>2, <2>1, <3>3, <3>4 DEF Counted
    <3>6. working'[f] = IF f = g THEN working[f] - 1 ELSE working[f]
      BY <1>5, <3>1, <3>2, <3>4 DEF workCompleteActive
    <3>7. CASE f = g
      <4>1. t \in workingOn(f) /\ working'[f] = working[f] - 1
        BY <3>5, <3>6, <3>7
      <4>2. /\ Cardinality(workingOn(f))' \in Nat
            /\ Cardinality(workingOn(f)) = Cardinality(workingOn(f))' + 1
            /\ Cardinality(processing(f))' = Cardinality(processing(f))
            /\ Cardinality(failing(f))' = Cardinality(failing(f))
        BY <1>3, <2>3, <3>5, <4>1 DEF Delta
      <4> QED
        BY <1>3, <1>4, <2>1, <2>4, <4>1, <4>2 DEF CountOf
    <3>8. CASE f # g
      <4>1. t \notin workingOn(f) /\ working'[f] = working[f]
        BY <3>5, <3>6, <3>8
      <4>2. /\ Cardinality(workingOn(f))' = Cardinality(workingOn(f))
            /\ Cardinality(processing(f))' = Cardinality(processing(f))
            /\ Cardinality(failing(f))' = Cardinality(failing(f))
        BY <1>3, <2>3, <3>5, <4>1 DEF Delta
      <4> QED
        BY <1>3, <1>4, <2>1, <2>4, <4>1, <4>2 DEF CountOf
    <3> QED
      BY <3>7, <3>8
  <2> QED
    BY <2>5, <2>6
<1>12. CASE DestroyEnds(t) \/ WorkCompleteEnds(t)
  <2>1. <<>> # <<f>>
    OBVIOUS
  <2>2. /\ client_pc[t] \in {"ending", "completing"} /\ client_pc'[t] \in {"none", "out"}
        /\ job' = job /\ SameReports(f)
    BY <1>5, <1>12 DEF DestroyEnds, WorkCompleteEnds, workCompleteIdle, SameReports
  <2>3. job[t] = NoJob
    BY <2>2 DEF IInv, StackInv
  <2>4. m_active_function'[t] # <<f>>
    BY <1>1, <2>1, <2>2, <2>3 DEF StackInv, unanswered
  <2>5. SameMembers(t, f)
    BY <1>2, <2>2, <2>3, <2>4 DEF Counted, SameMembers, Processing
  <2> QED
    BY <1>3, <2>2, <2>5, CountStays
<1>13. CASE WorkAnswered(t)
  <2>1. /\ client_pc[t] \in {"run", "answer"} /\ client_pc'[t] = "complete"
        /\ job[t] # NoJob /\ m_active_function' = m_active_function
        /\ UNCHANGED <<working, jobs, counters>>
    BY <1>5, <1>13 DEF WorkAnswered
  <2>2. /\ t \in workingOn(f) <=> t \in workingOn(f)'
        /\ t \notin processing(f) /\ t \notin processing(f)'
        /\ t \notin failing(f) /\ t \notin failing(f)' /\ t \notin owed(f)'
        /\ t \in owed(f) <=> job[t].function = f /\ job[t].gearman_ret = "SUCCESS"
    BY <1>2, <2>1 DEF Counted, Processing
  <2>3. completed'[f] = IF t \in owed(f) THEN completed[f] + 1 ELSE completed[f]
    BY <1>5, <1>13, <2>2 DEF WorkAnswered, bumped
  <2>4. /\ Cardinality(workingOn(f))' = Cardinality(workingOn(f))
        /\ Cardinality(processing(f))' = Cardinality(processing(f))
        /\ Cardinality(failing(f))' = Cardinality(failing(f))
    BY <1>3, <2>2 DEF Delta
  <2>5. completed'[f] + Cardinality(owed(f))' = completed[f] + Cardinality(owed(f))
    <3>1. completed[f] \in Nat /\ Cardinality(owed(f)) \in Nat /\ Cardinality(owed(f))' \in Nat
      BY <1>3, <1>4 DEF Delta
    <3>2. CASE t \in owed(f)
      <4>1. completed'[f] = completed[f] + 1 /\ Cardinality(owed(f)) = Cardinality(owed(f))' + 1
        BY <1>3, <2>2, <2>3, <3>2 DEF Delta
      <4> QED
        BY <3>1, <4>1
    <3>3. CASE t \notin owed(f)
      <4>1. completed'[f] = completed[f] /\ Cardinality(owed(f))' = Cardinality(owed(f))
        BY <1>3, <2>2, <2>3, <3>3 DEF Delta
      <4> QED
        BY <4>1
    <3> QED
      BY <3>2, <3>3
  <2> QED
    BY <1>3, <2>1, <2>4, <2>5 DEF CountOf
<1>14. CASE WorkComplete(t)
  <2>1. client_pc[t] = "complete" /\ UNCHANGED <<job, gearmandVars, counters>>
    BY <1>14 DEF WorkComplete
  <2>2. PICK g \in Functions : m_active_function[t] = <<g>>
    BY <2>1 DEF IInv, StackInv
  <2>3. active(t) /\ top(t) = g
    BY <2>2, OneFunction DEF IInv
  <2>4. m_active_function[t] = <<f>> <=> f = g
    BY <2>2
  <2>5. workCompleteActive(t) /\ client_pc'[t] = "completing"
    BY <1>5, <1>14, <2>3 DEF WorkComplete
  <2>6. /\ (t \in workingOn(f) <=> f = g) /\ t \notin workingOn(f)'
        /\ t \notin processing(f) /\ t \notin processing(f)'
        /\ t \notin failing(f) /\ t \notin failing(f)'
        /\ t \notin owed(f) /\ t \notin owed(f)'
    BY <1>2, <2>1, <2>4, <2>5 DEF Counted, Processing
  <2>7. working'[f] = IF f = g THEN working[f] - 1 ELSE working[f]
    BY <1>5, <2>2, <2>3, <2>5 DEF workCompleteActive
  <2>8. CASE f = g
    <3>1. t \in workingOn(f) /\ working'[f] = working[f] - 1
      BY <2>6, <2>7, <2>8
    <3>2. /\ Cardinality(workingOn(f))' \in Nat
          /\ Cardinality(workingOn(f)) = Cardinality(workingOn(f))' + 1
          /\ Cardinality(processing(f))' = Cardinality(processing(f))
          /\ Cardinality(failing(f))' = Cardinality(failing(f))
          /\ Cardinality(owed(f))' = Cardinality(owed(f))
      BY <1>3, <2>6, <3>1 DEF Delta
    <3>3. working'[f] = Cardinality(workingOn(f))'
      <4>1. working[f] = Cardinality(workingOn(f))
        BY <1>3 DEF CountOf
      <4> QED
        BY <3>1, <3>2, <4>1
    <3>4. (jobs[f] = job_duration[f] + errors[f] + Cardinality(processing(f)))'
      BY <1>3, <2>1, <3>2 DEF CountOf
    <3>5. (timeouts[f] + http_errors[f] <= errors[f] + Cardinality(failing(f)))'
      BY <1>3, <2>1, <3>2 DEF CountOf
    <3>6. (completed[f] + Cardinality(owed(f)) <= job_duration[f])'
      BY <1>3, <2>1, <3>2 DEF CountOf
    <3> QED
      BY <3>3, <3>4, <3>5, <3>6 DEF CountOf
  <2>9. CASE f # g
    <3>1. SameMembers(t, f) /\ SameReports(f)
      BY <2>1, <2>6, <2>7, <2>9 DEF SameMembers, SameReports
    <3> QED
      BY <1>3, <3>1, CountStays
  <2> QED
    BY <2>8, <2>9
<1>15. CASE JobStarted(t)
  <2>1. /\ client_pc[t] = "starting" /\ client_pc'[t] = "perform"
        /\ job' = job /\ SameReports(f)
    BY <1>5, <1>15 DEF JobStarted, startingWorkIdle, SameReports
  <2>2. m_active_function[t] = <<>>
    BY <2>1 DEF IInv, StackInv
  <2>3. m_active_function'[t] = Append(<<>>, job[t].function)
    BY <1>15, <2>2 DEF JobStarted, startingWorkIdle, IInv, Types
  <2>4. \A g : Append(<<>>, g) = <<g>>
    OBVIOUS
  <2>5. \A g : <<>> # <<f>> /\ (<<g>> = <<f>> <=> g = f)
    OBVIOUS
  <2>6. /\ m_active_function[t] # <<f>>
        /\ m_active_function'[t] = <<f>> <=> job[t].function = f
    BY <2>2, <2>3, <2>4, <2>5
  <2>7. SameMembers(t, f)
    BY <1>2, <2>1, <2>6 DEF Counted, SameMembers, Processing
  <2> QED
    BY <1>3, <2>1, <2>7, CountStays
<1>16. CASE PerformSucceeds(t)
  <2>1. /\ client_pc[t] = "perform" /\ client_pc'[t] = "success"
        /\ m_active_function' = m_active_function /\ SameReports(f)
    BY <1>5, <1>16 DEF PerformSucceeds, SameReports
  <2>2. job[t] \in Job
    BY <1>5, <2>1 DEF IInv, StackInv, Processing
  <2>3. job'[t].function = job[t].function
    BY <1>5, <1>16, <2>2 DEF PerformSucceeds, Job
  <2>4. SameMembers(t, f)
    BY <1>2, <2>1, <2>3 DEF Counted, SameMembers, Processing
  <2> QED
    BY <1>3, <2>1, <2>4, CountStays
<1>17. CASE \E g \in Functions : WorkCallback(t, g)
  <2>1. PICK g \in Functions : WorkCallback(t, g)
    BY <1>17
  <2>2. /\ client_pc[t] = "run" /\ client_pc'[t] = "starting"
        /\ job[t] = NoJob /\ job'[t].function = g
        /\ UNCHANGED <<completed, counters, m_active_function>>
    BY <1>5, <2>1 DEF WorkCallback, startingWorkActive
  <2>3. <<>> # <<f>>
    OBVIOUS
  <2>4. m_active_function[t] # <<f>> /\ m_active_function'[t] # <<f>>
    BY <2>2, <2>3 DEF IInv, StackInv, unanswered
  <2>5. /\ t \notin workingOn(f) /\ (t \in workingOn(f)' <=> f = g)
        /\ t \notin processing(f) /\ (t \in processing(f)' <=> f = g)
        /\ t \notin failing(f) /\ t \notin failing(f)'
        /\ t \notin owed(f) /\ t \notin owed(f)'
    BY <1>2, <2>2, <2>4 DEF Counted, Processing
  <2>6. /\ working'[f] = IF f = g THEN working[f] + 1 ELSE working[f]
        /\ jobs'[f] = IF f = g THEN jobs[f] + 1 ELSE jobs[f]
    BY <1>5, <2>1 DEF WorkCallback, startingWorkActive, bumped
  <2>7. CASE f = g
    <3>1. /\ t \in workingOn(f)' /\ working'[f] = working[f] + 1
          /\ t \in processing(f)' /\ jobs'[f] = jobs[f] + 1
      BY <2>5, <2>6, <2>7
    <3>2. /\ Cardinality(workingOn(f))' = Cardinality(workingOn(f)) + 1
          /\ Cardinality(processing(f)) \in Nat
          /\ Cardinality(processing(f))' = Cardinality(processing(f)) + 1
          /\ Cardinality(failing(f))' = Cardinality(failing(f))
          /\ Cardinality(owed(f))' = Cardinality(owed(f))
      BY <1>3, <2>5, <3>1 DEF Delta
    <3>3. (working[f] = Cardinality(workingOn(f)))'
      BY <1>3, <3>1, <3>2 DEF CountOf
    <3>4. (jobs[f] = job_duration[f] + errors[f] + Cardinality(processing(f)))'
      <4>1. jobs[f] = job_duration[f] + errors[f] + Cardinality(processing(f))
        BY <1>3 DEF CountOf
      <4> QED
        BY <1>4, <2>2, <3>1, <3>2, <4>1
    <3>5. (timeouts[f] + http_errors[f] <= errors[f] + Cardinality(failing(f)))'
      BY <1>3, <2>2, <3>2 DEF CountOf
    <3>6. (completed[f] + Cardinality(owed(f)) <= job_duration[f])'
      BY <1>3, <2>2, <3>2 DEF CountOf
    <3> QED
      BY <3>3, <3>4, <3>5, <3>6 DEF CountOf
  <2>8. CASE f # g
    <3>1. SameMembers(t, f) /\ SameReports(f)
      BY <2>2, <2>5, <2>6, <2>8 DEF SameMembers, SameReports
    <3> QED
      BY <1>3, <3>1, CountStays
  <2> QED
    BY <2>7, <2>8
<1> QED
  BY <1>6, <1>7, <1>8, <1>9, <1>10, <1>11, <1>12, <1>13, <1>14, <1>15, <1>16, <1>17, Acts
     DEF Reports

IdleCount == idle >= Cardinality(idleThreads)

LEMMA ActIdle ==
    ASSUME IInv, NEW t \in Clients, Act(t)
    PROVE  IdleCount'
<1>1. Types' /\ StackInv'
  BY ActTypes, ActStack DEF IInv
<1>2. /\ t \in idleThreads <=> client_pc[t] # "none" /\ m_active_function[t] = <<>>
      /\ t \in idleThreads' <=> client_pc'[t] # "none" /\ m_active_function'[t] = <<>>
  <2>1. MembersOK'
    BY Members, PTL
  <2> QED
    BY <2>1, Members DEF MembersOK
<1>3. /\ Cardinality(idleThreads) \in Nat /\ Cardinality(idleThreads') \in Nat
      /\ (t \in idleThreads <=> t \in idleThreads') =>
           Cardinality(idleThreads') = Cardinality(idleThreads)
      /\ t \notin idleThreads /\ t \in idleThreads' =>
           Cardinality(idleThreads') = Cardinality(idleThreads) + 1
      /\ t \in idleThreads /\ t \notin idleThreads' =>
           Cardinality(idleThreads) = Cardinality(idleThreads') + 1
  BY RecountsIdle, Recount DEF IInv
<1>4. idle \in Int /\ idle >= Cardinality(idleThreads)
  BY DEF IInv, Types, CountInv
<1>5. SUFFICES idle' >= Cardinality(idleThreads')
  BY DEF IdleCount
<1> USE DEF Goto, onlyMoves, onlyGauges, onlyCounters, unchangedRest,
        unchangedMetrics, gauges, counters, gearmandVars, clientVars, Processing
<1>6. client_pc \in [Clients -> ClientPlaces] /\ m_active_function \in [Clients -> Seq(Functions)]
  BY DEF IInv, Types
<1>7. CASE Construct(t)
  <2>1. client_pc[t] = "none" /\ idle' = idle + 1
    BY <1>7 DEF Construct, reportThreadStarted
  <2>2. t \notin idleThreads
    BY <1>2, <2>1
  <2> QED
    BY <1>3, <1>4, <2>1, <2>2
<1>8. CASE \/ Moves(t) \/ Local(t) \/ Reports(t) \/ JobError(t) \/ WorkAnswered(t)
           \/ WorkComplete(t) \/ PerformSucceeds(t) \/ \E f \in Functions : WorkCallback(t, f)
  <2>1. UNCHANGED <<idle, m_active_function>>
    BY <1>8 DEF Moves, CallRun, StopRequested, WaitTimeout, WaitThrows, WorkThrows,
       PerformAborted, PerformFails, Local, WaitSuccess, WorkNothing, JobOverruns,
       PerformTerminates, Reports, JobTimeout, JobHttpError, JobSuccess, JobError, WorkAnswered,
       WorkComplete, workCompleteActive, PerformSucceeds, WorkCallback, startingWorkActive
  <2>2. client_pc[t] # "none" /\ client_pc'[t] # "none"
    BY <1>6, <1>8 DEF Moves, CallRun, StopRequested, WaitTimeout, WaitThrows, WorkThrows,
       PerformAborted, PerformFails, Local, WaitSuccess, WorkNothing, JobOverruns,
       PerformTerminates, Reports, JobTimeout, JobHttpError, JobSuccess, JobError, WorkAnswered,
       WorkComplete, PerformSucceeds, WorkCallback
  <2> QED
    BY <1>2, <1>3, <1>4, <2>1, <2>2
<1>9. CASE Destroy(t)
  <2>1. CASE active(t)
    <3>1. m_active_function[t] # <<>> /\ UNCHANGED <<idle, m_active_function>>
      BY <1>9, <2>1 DEF Destroy, workCompleteActive, active
    <3> QED
      BY <1>2, <1>3, <1>4, <3>1
  <2>2. CASE ~active(t)
    <3>1. /\ m_active_function[t] = <<>> /\ idle' = idle - 1
          /\ client_pc[t] = "leaving" /\ client_pc'[t] = "none"
      BY <1>6, <1>9, <2>2 DEF Destroy, threadEndedIdle, active
    <3> QED
      BY <1>2, <1>3, <1>4, <3>1
  <2> QED
    BY <2>1, <2>2
<1>10. CASE DestroyEnds(t) \/ WorkCompleteEnds(t)
  <2>1. idle' = idle + 1
    BY <1>10 DEF DestroyEnds, WorkCompleteEnds, workCompleteIdle
  <2>2. t \notin idleThreads
    <3>1. PICK g \in Functions : m_active_function[t] = <<g>>
      BY <1>10 DEF DestroyEnds, WorkCompleteEnds, IInv, StackInv
    <3>2. <<g>> # <<>>
      OBVIOUS
    <3> QED
      BY <1>2, <3>1, <3>2
  <2> QED
    BY <1>3, <1>4, <2>1, <2>2
<1>11. CASE JobStarted(t)
  <2>1. idle' = idle - 1 /\ client_pc[t] = "starting" /\ client_pc'[t] = "perform"
    BY <1>6, <1>11 DEF JobStarted, startingWorkIdle
  <2>2. m_active_function[t] = <<>>
    BY <2>1 DEF IInv, StackInv
  <2>3. m_active_function'[t] # <<>>
    <3>1. m_active_function'[t] = <<job'[t].function>>
      BY <1>1, <2>1 DEF StackInv, unanswered
    <3>2. <<job'[t].function>> # <<>>
      OBVIOUS
    <3> QED
      BY <3>1, <3>2
  <2> QED
    BY <1>2, <1>3, <1>4, <2>1, <2>2, <2>3
<1> QED
  BY <1>7, <1>8, <1>9, <1>10, <1>11, Acts

LEMMA NextIInv == IInv /\ [Next]_vars => IInv'
<1> SUFFICES ASSUME IInv, [Next]_vars
             PROVE  IInv'
  OBVIOUS
<1>1. ASSUME NEW t \in Clients, Act(t)
      PROVE  IInv'
  <2>1. \A f \in Functions : CountOf(f)'
    BY <1>1, ActCountOf
  <2>2. IdleCount'
    BY <1>1, ActIdle
  <2>3. CountInv'
    BY <2>1, <2>2 DEF CountInv, CountOf, IdleCount
  <2> QED
    BY <1>1, <2>3, ActTypes, ActStack DEF IInv
<1>2. CASE ForceShutdown \/ UNCHANGED vars
  <2>1. UNCHANGED <<client_pc, job, m_active_function, idle, working, jobs, completed,
                    job_duration, errors, timeouts, http_errors>>
    BY <1>2 DEF ForceShutdown, unchangedMetrics, vars, gauges, counters, clientVars,
       gearmandVars
  <2>2. CountInv'
    BY <2>1 DEF IInv, CountInv, workingOn, busyOn, active, top, processing, failing, inHand,
       owed, idleThreads
  <2> QED
    BY <2>2, NextClientInv DEF IInv, ClientInv
<1> QED
  BY <1>1, <1>2 DEF Next, Act, Ended

LEMMA AlwaysIInv == Spec => []IInv
<1>1. Init => IInv
  BY InitTypes, InitCounts DEF IInv
<1> QED
  BY <1>1, NextIInv, PTL DEF Spec

-----------------------------------------------------------------------------
(***************************************************************************)
(* The theorems.                                                           *)
(***************************************************************************)

\* The gauge of working threads is exact between any two steps of any threads,
\* in the middle of a report too (MetricProxy::reportThreadWorkStarted).
THEOREM WorkingGaugeCorrect == Spec => []WorkingGaugeExact
<1>1. IInv => WorkingGaugeExact
  BY DEF IInv, CountInv, WorkingGaugeExact, workingOn
<1> QED
  BY <1>1, AlwaysIInv, PTL

\* The gauge of idle threads is never below their number, although a report
\* changes it and the other gauge one after the other.
THEOREM IdleGaugeCorrect == Spec => []IdleGaugeNeverLow
<1>1. IInv => IdleGaugeNeverLow
  BY DEF IInv, CountInv, IdleGaugeNeverLow
<1> QED
  BY <1>1, AlwaysIInv, PTL

\* Every variable of the clients keeps its type; so no gauge is ever negative.
THEOREM ClientTypesCorrect == Spec => []ClientTypeOK
<1>1. IInv => ClientTypeOK
  <2> SUFFICES ASSUME IInv
               PROVE  ClientTypeOK
    OBVIOUS
  <2>1. \A S \in SUBSET Clients : Cardinality(S) \in Nat
    BY ClientsAssumption, FS_Subset, FS_CardinalityType
  <2>2. idle \in Nat
    <3>1. idleThreads \in SUBSET Clients
      BY DEF idleThreads
    <3>2. idle \in Int /\ idle >= Cardinality(idleThreads) /\ Cardinality(idleThreads) \in Nat
      BY <2>1, <3>1 DEF IInv, CountInv, Types
    <3> QED
      BY <3>2
  <2>3. working \in [Functions -> Nat]
    <3>1. \A f \in Functions : workingOn(f) \in SUBSET Clients
      BY DEF workingOn
    <3>2. \A f \in Functions : working[f] \in Nat
      BY <2>1, <3>1 DEF IInv, CountInv
    <3> QED
      BY <3>2 DEF IInv, Types
  <2>4. \A c \in {job_duration, http_errors, timeouts, errors} : c \in [Functions -> Nat]
    BY DEF IInv, Types
  <2>5. MetricTypeOK
    BY <2>2, <2>3, <2>4 DEF MetricTypeOK, IInv, Types
  <2> QED
    BY <2>5 DEF ClientTypeOK, IInv, Types
<1> QED
  BY <1>1, AlwaysIInv, PTL

\* A job is counted once, as a success or an error, on every path through
\* processJob.
THEOREM JobsCountedCorrect == Spec => []JobsCountedOnce
<1>1. IInv => JobsCountedOnce
  BY DEF IInv, CountInv, JobsCountedOnce, processing
<1> QED
  BY <1>1, AlwaysIInv, PTL

\* A timeout or an HTTP error of processJob is counted as an error too.
THEOREM ErrorsCorrect == Spec => []ErrorsIncludeTimeouts
<1>1. IInv => ErrorsIncludeTimeouts
  BY DEF IInv, CountInv, ErrorsIncludeTimeouts, failing
<1> QED
  BY <1>1, AlwaysIInv, PTL

\* gearmand is told of a success only for a job whose endpoint answered
\* (processJob, and the answer that run() sends later).
THEOREM CompletedCorrect == Spec => []CompletedJobsSucceeded
<1>1. IInv => CompletedJobsSucceeded
  <2> SUFFICES ASSUME IInv, NEW f \in Functions
               PROVE  completed[f] <= job_duration[f]
    BY DEF CompletedJobsSucceeded
  <2>1. Cardinality(owed(f)) \in Nat
    <3>1. owed(f) \in SUBSET Clients
      BY DEF owed
    <3> QED
      BY <3>1, ClientsAssumption, FS_Subset, FS_CardinalityType
  <2>2. /\ completed[f] \in Nat /\ job_duration[f] \in Nat
        /\ completed[f] + Cardinality(owed(f)) <= job_duration[f]
    BY DEF IInv, Types, CountInv
  <2> QED
    BY <2>1, <2>2
<1> QED
  BY <1>1, AlwaysIInv, PTL
=============================================================================
