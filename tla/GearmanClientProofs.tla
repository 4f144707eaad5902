------------------------ MODULE GearmanClientProofs ------------------------
(***************************************************************************)
(* The types of the clients and the stacks of their wrappers, for any      *)
(* number of clients, functions and jobs, and how a step of one client     *)
(* changes what is counted of all.                                         *)
(***************************************************************************)
EXTENDS GearmanClient, FiniteSetTheorems, TLAPS

\* The types, but for the sign of the gauges.
Types ==
    /\ idle \in Int
    /\ working \in [Functions -> Int]
    /\ job_duration \in [Functions -> Nat] /\ http_errors \in [Functions -> Nat]
    /\ timeouts \in [Functions -> Nat] /\ errors \in [Functions -> Nat]
    /\ m_active_function \in [Clients -> Seq(Functions)]
    /\ client_pc \in [Clients -> ClientPlaces]
    /\ m_state \in [Clients -> {"INIT", "GRAB_JOB", "POLL"}]
    /\ job \in [Clients -> Job \cup {NoJob}]
    /\ overran \in [Clients -> BOOLEAN]
    /\ jobs \in [Functions -> Nat] /\ completed \in [Functions -> Nat]
    /\ g_force_shutdown \in BOOLEAN
    /\ process \in {"running", "uncaught"}

\* What one client may do.
Act(t) == Construct(t) \/ ThreadStep(t) \/ EndpointStep(t)

\* The steps of a client by what they change.
Moves(t) ==
    \/ CallRun(t) \/ StopRequested(t) \/ WaitTimeout(t) \/ WaitThrows(t)
    \/ WorkThrows(t) \/ PerformAborted(t) \/ PerformFails(t)

Local(t) ==
    \/ WaitSuccess(t) \/ WorkNothing(t) \/ JobOverruns(t) \/ PerformTerminates(t)

Reports(t) == JobTimeout(t) \/ JobHttpError(t) \/ JobSuccess(t)

LEMMA Acts ==
    ASSUME NEW t \in Clients, Act(t)
    PROVE  \/ Construct(t) \/ Moves(t) \/ Local(t) \/ Reports(t) \/ JobError(t)
           \/ Destroy(t) \/ DestroyEnds(t) \/ WorkAnswered(t) \/ WorkComplete(t)
           \/ WorkCompleteEnds(t) \/ JobStarted(t) \/ PerformSucceeds(t)
           \/ \E f \in Functions : WorkCallback(t, f)
BY DEF Act, ThreadStep, EndpointStep, Moves, Local, Reports

LEMMA InitTypes == Init => Types /\ StackInv
<1> SUFFICES ASSUME Init
             PROVE  Types /\ StackInv
  OBVIOUS
<1>1. Types
  <2>1. <<>> \in Seq(Functions)
    OBVIOUS
  <2>2. m_active_function \in [Clients -> Seq(Functions)]
    BY <2>1 DEF Init, MetricInit
  <2>3. overran \in [Clients -> BOOLEAN] /\ client_pc \in [Clients -> ClientPlaces]
    BY DEF Init, ClientPlaces
  <2>4. /\ idle \in Int /\ working \in [Functions -> Int]
        /\ job_duration \in [Functions -> Nat] /\ http_errors \in [Functions -> Nat]
        /\ timeouts \in [Functions -> Nat] /\ errors \in [Functions -> Nat]
        /\ jobs \in [Functions -> Nat] /\ completed \in [Functions -> Nat]
    BY DEF Init, MetricInit
  <2>5. /\ m_state \in [Clients -> {"INIT", "GRAB_JOB", "POLL"}]
        /\ job \in [Clients -> Job \cup {NoJob}]
        /\ g_force_shutdown \in BOOLEAN /\ process \in {"running", "uncaught"}
    BY DEF Init
  <2> QED
    BY <2>2, <2>3, <2>4, <2>5 DEF Types
<1>2. StackInv
  BY DEF Init, MetricInit, StackInv, Processing
<1> QED
  BY <1>1, <1>2

-----------------------------------------------------------------------------
(***************************************************************************)
(* Types and stacks.                                                       *)
(***************************************************************************)

\* A client with one function on its stack.
LEMMA OneFunction ==
    ASSUME Types, NEW t \in Clients, NEW f \in Functions, m_active_function[t] = <<f>>
    PROVE  active(t) /\ top(t) = f /\ SubSeq(m_active_function[t], 1,
                                             Len(m_active_function[t]) - 1) = <<>>
BY DEF active, top

LEMMA NoFunction ==
    ASSUME NEW t \in Clients, m_active_function[t] = <<>>
    PROVE  ~active(t)
BY DEF active

LEMMA JobFields ==
    ASSUME Types, NEW t \in Clients, job[t] # NoJob
    PROVE  job[t].function \in Functions /\ job[t].gearman_ret \in GearmanReturns
BY DEF Types, Job

\* A client changes nothing of another one.
LEMMA Frame ==
    ASSUME Types, NEW t \in Clients, Act(t), NEW u \in Clients, u # t
    PROVE  /\ client_pc'[u] = client_pc[u] /\ job'[u] = job[u]
           /\ m_active_function'[u] = m_active_function[u]
<1> USE DEF Types, Goto, onlyMoves, onlyGauges, onlyCounters, unchangedRest, unchangedMetrics,
        gauges, counters, gearmandVars, clientVars
<1>1. CASE Construct(t)
  BY <1>1 DEF Construct, reportThreadStarted
<1>2. CASE Moves(t)
  BY <1>2 DEF Moves, CallRun, StopRequested, WaitTimeout, WaitThrows, WorkThrows,
     PerformAborted, PerformFails
<1>3. CASE Local(t)
  BY <1>3 DEF Local, WaitSuccess, WorkNothing, JobOverruns, PerformTerminates
<1>4. CASE Reports(t) \/ JobError(t)
  BY <1>4 DEF Reports, JobTimeout, JobHttpError, JobSuccess, JobError
<1>5. CASE Destroy(t)
  BY <1>5 DEF Destroy, threadEndedIdle, workCompleteActive
<1>6. CASE DestroyEnds(t) \/ WorkCompleteEnds(t)
  BY <1>6 DEF DestroyEnds, WorkCompleteEnds, workCompleteIdle, pop
<1>7. CASE WorkAnswered(t)
  BY <1>7 DEF WorkAnswered
<1>8. CASE WorkComplete(t)
  BY <1>8 DEF WorkComplete, workCompleteActive
<1>9. CASE JobStarted(t)
  BY <1>9 DEF JobStarted, startingWorkIdle
<1>10. CASE PerformSucceeds(t)
  BY <1>10 DEF PerformSucceeds
<1>11. CASE \E f \in Functions : WorkCallback(t, f)
  BY <1>11 DEF WorkCallback, startingWorkActive
<1> QED
  BY <1>1, <1>2, <1>3, <1>4, <1>5, <1>6, <1>7, <1>8, <1>9, <1>10, <1>11, Acts

LEMMA ActTypes ==
    ASSUME Types, StackInv, NEW t \in Clients, Act(t)
    PROVE  Types'
<1> USE DEF Types, Goto, onlyMoves, onlyGauges, onlyCounters, unchangedRest, unchangedMetrics,
        gauges, counters, gearmandVars, clientVars, ClientPlaces, Processing
<1>1. CASE Construct(t)
  BY <1>1 DEF Construct, reportThreadStarted
<1>2. CASE Moves(t)
  BY <1>2 DEF Moves, CallRun, StopRequested, WaitTimeout, WaitThrows, WorkThrows,
     PerformAborted, PerformFails
<1>3. CASE Local(t)
  <2>1. overran' \in [Clients -> BOOLEAN]
    BY <1>3 DEF Local, WaitSuccess, WorkNothing, JobOverruns, PerformTerminates
  <2> QED
    BY <1>3, <2>1 DEF Local, WaitSuccess, WorkNothing, JobOverruns, PerformTerminates
<1>4. CASE Reports(t) \/ JobError(t)
  <2>1. job[t].function \in Functions /\ job[t] \in Job
    BY <1>4, JobFields DEF Reports, JobTimeout, JobHttpError, JobSuccess, JobError, StackInv
  <2>2. [job[t] EXCEPT !.gearman_ret = "WORK_FAIL"] \in Job
    BY <2>1 DEF Job, GearmanReturns
  <2>3. CASE JobTimeout(t)
    <3>1. timeouts' \in [Functions -> Nat]
      BY <2>1, <2>3 DEF JobTimeout, reportJobTimeout, bumped
    <3> QED
      BY <2>3, <3>1 DEF JobTimeout, reportJobTimeout
  <2>4. CASE JobHttpError(t)
    <3>1. http_errors' \in [Functions -> Nat]
      BY <2>1, <2>4 DEF JobHttpError, reportJobHttpError, bumped
    <3> QED
      BY <2>4, <3>1 DEF JobHttpError, reportJobHttpError
  <2>5. CASE JobSuccess(t)
    <3>1. job_duration' \in [Functions -> Nat]
      BY <2>1, <2>5 DEF JobSuccess, reportJobSuccess, bumped
    <3> QED
      BY <2>5, <3>1 DEF JobSuccess, reportJobSuccess
  <2>6. CASE JobError(t)
    <3>1. errors' \in [Functions -> Nat]
      BY <2>1, <2>6 DEF JobError, reportJobError, bumped
    <3>2. job' \in [Clients -> Job \cup {NoJob}]
      BY <2>2, <2>6 DEF JobError
    <3> QED
      BY <2>6, <3>1, <3>2 DEF JobError, reportJobError
  <2> QED
    BY <1>4, <2>3, <2>4, <2>5, <2>6 DEF Reports
<1>5. CASE Destroy(t)
  <2>1. working' \in [Functions -> Int] /\ idle' \in Int /\ UNCHANGED m_active_function
    BY <1>5 DEF Destroy, threadEndedIdle, workCompleteActive
  <2> QED
    BY <1>5, <2>1 DEF Destroy
<1>6. CASE DestroyEnds(t) \/ WorkCompleteEnds(t)
  <2>1. m_active_function' \in [Clients -> Seq(Functions)]
    <3>1. PICK f \in Functions : m_active_function[t] = <<f>>
      BY <1>6 DEF DestroyEnds, WorkCompleteEnds, StackInv
    <3>2. m_active_function' = [m_active_function EXCEPT ![t] = <<>>]
      BY <1>6, <3>1, OneFunction DEF DestroyEnds, WorkCompleteEnds, workCompleteIdle, pop
    <3>3. <<>> \in Seq(Functions)
      OBVIOUS
    <3> QED
      BY <3>2, <3>3
  <2>2. idle' \in Int /\ UNCHANGED working
    BY <1>6 DEF DestroyEnds, WorkCompleteEnds, workCompleteIdle
  <2>3. client_pc' \in [Clients -> ClientPlaces]
    BY <1>6 DEF DestroyEnds, WorkCompleteEnds
  <2>4. onlyGauges
    BY <1>6 DEF DestroyEnds, WorkCompleteEnds
  <2> QED
    BY <2>1, <2>2, <2>3, <2>4
<1>7. CASE WorkAnswered(t)
  <2>1. job[t].function \in Functions
    BY <1>7, JobFields DEF WorkAnswered
  <2>2. completed' \in [Functions -> Nat]
    BY <1>7, <2>1 DEF WorkAnswered, bumped
  <2> QED
    BY <1>7, <2>2 DEF WorkAnswered
<1>8. CASE WorkComplete(t)
  <2>1. working' \in [Functions -> Int] /\ UNCHANGED <<idle, m_active_function>>
    BY <1>8 DEF WorkComplete, workCompleteActive
  <2> QED
    BY <1>8, <2>1 DEF WorkComplete
<1>9. CASE JobStarted(t)
  <2>1. job[t].function \in Functions
    BY <1>9, JobFields DEF JobStarted, StackInv
  <2>2. Append(m_active_function[t], job[t].function) \in Seq(Functions)
    BY <2>1
  <2> QED
    BY <1>9, <2>2 DEF JobStarted, startingWorkIdle
<1>10. CASE PerformSucceeds(t)
  <2>1. job[t] \in Job
    BY <1>10 DEF PerformSucceeds, StackInv
  <2>2. \A ret \in GearmanReturns : [job[t] EXCEPT !.gearman_ret = ret] \in Job
    BY <2>1 DEF Job
  <2> QED
    BY <1>10, <2>2 DEF PerformSucceeds
<1>11. CASE \E f \in Functions : WorkCallback(t, f)
  <2>1. PICK f \in Functions : WorkCallback(t, f)
    BY <1>11
  <2>2. [function |-> f, gearman_ret |-> "SUCCESS"] \in Job
    BY DEF Job, GearmanReturns
  <2>3. overran' \in [Clients -> BOOLEAN]
    BY <2>1 DEF WorkCallback
  <2>4. client_pc' \in [Clients -> ClientPlaces] /\ job' \in [Clients -> Job \cup {NoJob}]
    BY <2>1, <2>2 DEF WorkCallback
  <2>5. working' \in [Functions -> Int] /\ jobs' \in [Functions -> Nat]
    BY <2>1 DEF WorkCallback, startingWorkActive, bumped
  <2>6. UNCHANGED <<idle, m_active_function, counters, m_state, completed, g_force_shutdown,
                    process>>
    BY <2>1 DEF WorkCallback, startingWorkActive
  <2> QED
    BY <2>3, <2>4, <2>5, <2>6
<1> QED
  BY <1>1, <1>2, <1>3, <1>4, <1>5, <1>6, <1>7, <1>8, <1>9, <1>10, <1>11, Acts

LEMMA ActStack ==
    ASSUME Types, StackInv, NEW t \in Clients, Act(t)
    PROVE  StackInv'
<1> SUFFICES ASSUME NEW u \in Clients
             PROVE  /\ client_pc'[u] \in {"none", "complete", "completing", "ending"} =>
                         job'[u] = NoJob
                    /\ client_pc'[u] \in Processing \cup {"answer"} => job'[u] # NoJob
                    /\ client_pc'[u] \in {"none", "starting"} => m_active_function'[u] = <<>>
                    /\ client_pc'[u] \in {"complete", "completing", "ending"} =>
                         \E f \in Functions : m_active_function'[u] = <<f>>
                    /\ client_pc'[u] \notin
                         {"none", "starting", "complete", "completing", "ending"} =>
                         m_active_function'[u] = unanswered(u)'
  BY DEF StackInv
<1>1. CASE u # t
  BY <1>1, Frame DEF StackInv, unanswered
<1> SUFFICES ASSUME u = t
             PROVE  /\ client_pc'[t] \in {"none", "complete", "completing", "ending"} =>
                         job'[t] = NoJob
                    /\ client_pc'[t] \in Processing \cup {"answer"} => job'[t] # NoJob
                    /\ client_pc'[t] \in {"none", "starting"} => m_active_function'[t] = <<>>
                    /\ client_pc'[t] \in {"complete", "completing", "ending"} =>
                         \E f \in Functions : m_active_function'[t] = <<f>>
                    /\ client_pc'[t] \notin
                         {"none", "starting", "complete", "completing", "ending"} =>
                         m_active_function'[t] = unanswered(t)'
  BY <1>1
<1> USE DEF Types, StackInv, Goto, onlyMoves, onlyGauges, onlyCounters, unchangedRest,
        unchangedMetrics, gauges, counters, gearmandVars, clientVars, Processing, unanswered
<1>2. CASE Construct(t)
  BY <1>2 DEF Construct, reportThreadStarted
<1>3. CASE Moves(t)
  BY <1>3 DEF Moves, CallRun, StopRequested, WaitTimeout, WaitThrows, WorkThrows,
     PerformAborted, PerformFails
<1>4. CASE Local(t)
  BY <1>4 DEF Local, WaitSuccess, WorkNothing, JobOverruns, PerformTerminates
<1>5. CASE Reports(t)
  BY <1>5 DEF Reports, JobTimeout, JobHttpError, JobSuccess
<1>6. CASE JobError(t)
  <2>1. job[t] \in Job
    BY <1>6 DEF JobError
  <2>2. /\ job'[t] \in Job /\ job'[t].function = job[t].function
    BY <1>6, <2>1 DEF JobError, Job, GearmanReturns
  <2> QED
    BY <1>6, <2>1, <2>2, NoJobAssumption DEF JobError
<1>7. CASE Destroy(t)
  <2>1. active(t) => \E f \in Functions : m_active_function[t] = <<f>>
    BY <1>7, JobFields DEF Destroy, active
  <2> QED
    BY <1>7, <2>1 DEF Destroy, threadEndedIdle, workCompleteActive, active
<1>8. CASE DestroyEnds(t) \/ WorkCompleteEnds(t)
  <2>1. PICK f \in Functions : m_active_function[t] = <<f>>
    BY <1>8 DEF DestroyEnds, WorkCompleteEnds
  <2>2. m_active_function'[t] = <<>>
    BY <1>8, <2>1, OneFunction DEF DestroyEnds, WorkCompleteEnds, workCompleteIdle, pop
  <2> QED
    BY <1>8, <2>2 DEF DestroyEnds, WorkCompleteEnds
<1>9. CASE WorkAnswered(t)
  <2>1. m_active_function[t] = <<job[t].function>> /\ job[t].function \in Functions
    BY <1>9, JobFields DEF WorkAnswered
  <2> QED
    BY <1>9, <2>1 DEF WorkAnswered
<1>10. CASE WorkComplete(t)
  <2>1. active(t)
    BY <1>10, OneFunction DEF WorkComplete
  <2> QED
    BY <1>10, <2>1 DEF WorkComplete, workCompleteActive
<1>11. CASE JobStarted(t)
  <2>1. m_active_function'[t] = <<job[t].function>>
    <3>1. m_active_function'[t] = Append(<<>>, job[t].function)
      BY <1>11 DEF JobStarted, startingWorkIdle
    <3> QED
      BY <3>1
  <2> QED
    BY <1>11, <2>1 DEF JobStarted
<1>12. CASE PerformSucceeds(t)
  <2>1. job[t] \in Job
    BY <1>12 DEF PerformSucceeds
  <2>2. /\ job'[t] \in Job /\ job'[t].function = job[t].function
    <3>1. PICK ret \in GearmanReturns : job' = [job EXCEPT ![t].gearman_ret = ret]
      BY <1>12 DEF PerformSucceeds
    <3> QED
      BY <2>1, <3>1 DEF Job
  <2> QED
    BY <1>12, <2>1, <2>2, NoJobAssumption DEF PerformSucceeds
<1>13. CASE \E f \in Functions : WorkCallback(t, f)
  <2>1. PICK f \in Functions : WorkCallback(t, f)
    BY <1>13
  <2>2. job'[t] \in Job
    BY <2>1 DEF WorkCallback, Job, GearmanReturns
  <2> QED
    BY <2>1, <2>2, NoJobAssumption DEF WorkCallback, startingWorkActive
<1> QED
  BY <1>2, <1>3, <1>4, <1>5, <1>6, <1>7, <1>8, <1>9, <1>10, <1>11, <1>12, <1>13, Acts

\* The invariant of a client, and that every step keeps it.
ClientInv == Types /\ StackInv

LEMMA NextClientInv == ClientInv /\ [Next]_vars => ClientInv'
<1> SUFFICES ASSUME ClientInv, [Next]_vars
             PROVE  ClientInv'
  OBVIOUS
<1>1. ASSUME NEW t \in Clients, Act(t)
      PROVE  ClientInv'
  BY <1>1, ActTypes, ActStack DEF ClientInv
<1>2. CASE ForceShutdown
  <2>1. UNCHANGED <<client_pc, job, m_active_function, idle, working, jobs, completed,
                    job_duration, errors, timeouts, http_errors>>
    BY <1>2 DEF ForceShutdown, unchangedMetrics, gauges, counters, clientVars, gearmandVars
  <2> QED
    BY <1>2, <2>1 DEF ForceShutdown, ClientInv, Types, clientVars, StackInv, unanswered
<1>3. CASE UNCHANGED vars
  <2>1. UNCHANGED <<client_pc, job, m_active_function, idle, working, jobs, completed,
                    job_duration, errors, timeouts, http_errors, m_state, overran,
                    g_force_shutdown, process>>
    BY <1>3 DEF vars, gauges, counters, clientVars, gearmandVars
  <2> QED
    BY <2>1 DEF ClientInv, Types, StackInv, unanswered
<1> QED
  BY <1>1, <1>2, <1>3 DEF Next, Act, Ended

LEMMA AlwaysClientInv == Spec => []ClientInv
<1>1. Init => ClientInv
  BY InitTypes DEF ClientInv
<1> QED
  BY <1>1, NextClientInv, PTL DEF Spec

\* The wrapper's stack is empty or holds the function of the job the client
\* still owes an answer, wherever run() may return, time out or throw.
THEOREM StackCorrect == Spec => []StackIsUnansweredJob
<1>1. ClientInv => StackIsUnansweredJob
  BY DEF ClientInv, StackInv, StackIsUnansweredJob
<1> QED
  BY <1>1, AlwaysClientInv, PTL

-----------------------------------------------------------------------------
(***************************************************************************)
(* Counting clients: a step changes the part of one of them.               *)
(***************************************************************************)
LEMMA Recount ==
    ASSUME NEW S \in SUBSET Clients, NEW R \in SUBSET Clients, NEW t \in Clients,
           S \ {t} = R \ {t}
    PROVE  /\ Cardinality(S) \in Nat /\ Cardinality(R) \in Nat
           /\ (t \in S <=> t \in R) => Cardinality(R) = Cardinality(S)
           /\ t \notin S /\ t \in R => Cardinality(R) = Cardinality(S) + 1
           /\ t \in S /\ t \notin R => Cardinality(S) = Cardinality(R) + 1
<1>1. IsFiniteSet(S) /\ IsFiniteSet(R)
  BY ClientsAssumption, FS_Subset
<1>2. Cardinality(S) \in Nat /\ Cardinality(R) \in Nat
  BY <1>1, FS_CardinalityType
<1>3. ASSUME t \in S <=> t \in R
      PROVE  Cardinality(R) = Cardinality(S)
  <2>1. R = S
    BY <1>3
  <2> QED
    BY <2>1
<1>4. ASSUME t \notin S, t \in R
      PROVE  Cardinality(R) = Cardinality(S) + 1
  <2>1. R = S \cup {t}
    BY <1>4
  <2> QED
    BY <1>1, <1>4, <2>1, FS_AddElement
<1>5. ASSUME t \in S, t \notin R
      PROVE  Cardinality(S) = Cardinality(R) + 1
  <2>1. S = R \cup {t}
    BY <1>5
  <2> QED
    BY <1>1, <1>5, <2>1, FS_AddElement
<1> QED
  BY <1>2, <1>3, <1>4, <1>5

\* Who is counted for f.
workingOn(f) == {t \in Clients : busyOn(t, f)}

processing(f) == inHand(f, Processing)

failing(f) == inHand(f, {"error"})

\* Only the part of the client that moves changes.
LEMMA Recounts ==
    ASSUME Types, NEW t \in Clients, Act(t), NEW f \in Functions
    PROVE  /\ workingOn(f) \in SUBSET Clients /\ workingOn(f)' \in SUBSET Clients
           /\ workingOn(f) \ {t} = workingOn(f)' \ {t}
           /\ processing(f) \in SUBSET Clients /\ processing(f)' \in SUBSET Clients
           /\ processing(f) \ {t} = processing(f)' \ {t}
           /\ failing(f) \in SUBSET Clients /\ failing(f)' \in SUBSET Clients
           /\ failing(f) \ {t} = failing(f)' \ {t}
           /\ owed(f) \in SUBSET Clients /\ owed(f)' \in SUBSET Clients
           /\ owed(f) \ {t} = owed(f)' \ {t}
<1>1. \A u \in Clients \ {t} :
        /\ client_pc'[u] = client_pc[u] /\ job'[u] = job[u]
        /\ m_active_function'[u] = m_active_function[u]
  BY Frame
<1>2. workingOn(f) \ {t} = workingOn(f)' \ {t}
  BY <1>1 DEF workingOn, busyOn, active, top
<1>3. processing(f) \ {t} = processing(f)' \ {t}
  BY <1>1 DEF processing, inHand
<1>4. failing(f) \ {t} = failing(f)' \ {t}
  BY <1>1 DEF failing, inHand
<1>5. owed(f) \ {t} = owed(f)' \ {t}
  BY <1>1 DEF owed
<1> QED
  BY <1>2, <1>3, <1>4, <1>5 DEF workingOn, processing, failing, inHand, owed

LEMMA RecountsIdle ==
    ASSUME Types, NEW t \in Clients, Act(t)
    PROVE  /\ idleThreads \in SUBSET Clients /\ idleThreads' \in SUBSET Clients
           /\ idleThreads \ {t} = idleThreads' \ {t}
<1>1. \A u \in Clients \ {t} :
        /\ client_pc'[u] = client_pc[u]
        /\ m_active_function'[u] = m_active_function[u]
  BY Frame
<1> QED
  BY <1>1 DEF idleThreads, active

\* What is counted of a client.
MembersOK ==
    \A t \in Clients :
        /\ t \in idleThreads <=> client_pc[t] # "none" /\ m_active_function[t] = <<>>
        /\ \A f \in Functions :
             /\ t \in workingOn(f) <=> busyOn(t, f)
             /\ t \in processing(f) <=> client_pc[t] \in Processing /\ job[t].function = f
             /\ t \in failing(f) <=> client_pc[t] = "error" /\ job[t].function = f
             /\ t \in owed(f) <=>
                  /\ client_pc[t] \in {"out", "run", "answer", "leaving"}
                  /\ job[t] # NoJob
                  /\ job[t].function = f /\ job[t].gearman_ret = "SUCCESS"

LEMMA Members == MembersOK
BY DEF MembersOK, workingOn, processing, failing, inHand, owed, idleThreads, active

\* With at most one function on the stack, that is the one worked on.
BusyOK ==
    \A t \in Clients, f \in Functions :
        busyOn(t, f) <=>
          \/ client_pc[t] = "starting" /\ job[t].function = f
          \/ m_active_function[t] = <<f>> /\ client_pc[t] \notin {"completing", "ending"}

LEMMA Busy == Types /\ StackInv => BusyOK
<1> SUFFICES ASSUME Types, StackInv, NEW t \in Clients, NEW f \in Functions
             PROVE  busyOn(t, f) <=>
                      \/ client_pc[t] = "starting" /\ job[t].function = f
                      \/ /\ m_active_function[t] = <<f>>
                         /\ client_pc[t] \notin {"completing", "ending"}
  BY DEF BusyOK
<1>1. m_active_function[t] = <<>> \/ \E g \in Functions : m_active_function[t] = <<g>>
  BY JobFields DEF StackInv, Types, ClientPlaces, unanswered
<1>2. CASE m_active_function[t] = <<>>
  BY <1>2, NoFunction DEF busyOn
<1>3. CASE \E g \in Functions : m_active_function[t] = <<g>>
  <2>1. PICK g \in Functions : m_active_function[t] = <<g>>
    BY <1>3
  <2>2. active(t) /\ top(t) = g
    BY <2>1, OneFunction
  <2>3. m_active_function[t] = <<f>> <=> g = f
    BY <2>1
  <2> QED
    BY <2>2, <2>3 DEF busyOn
<1> QED
  BY <1>1, <1>2, <1>3

\* One function: how the counts of it change.
Delta(t, f) ==
    /\ Cardinality(workingOn(f)) \in Nat /\ Cardinality(workingOn(f))' \in Nat
    /\ (t \in workingOn(f) <=> t \in workingOn(f)') =>
         Cardinality(workingOn(f))' = Cardinality(workingOn(f))
    /\ t \notin workingOn(f) /\ t \in workingOn(f)' =>
         Cardinality(workingOn(f))' = Cardinality(workingOn(f)) + 1
    /\ t \in workingOn(f) /\ t \notin workingOn(f)' =>
         Cardinality(workingOn(f)) = Cardinality(workingOn(f))' + 1
    /\ Cardinality(processing(f)) \in Nat /\ Cardinality(processing(f))' \in Nat
    /\ (t \in processing(f) <=> t \in processing(f)') =>
         Cardinality(processing(f))' = Cardinality(processing(f))
    /\ t \notin processing(f) /\ t \in processing(f)' =>
         Cardinality(processing(f))' = Cardinality(processing(f)) + 1
    /\ t \in processing(f) /\ t \notin processing(f)' =>
         Cardinality(processing(f)) = Cardinality(processing(f))' + 1
    /\ Cardinality(failing(f)) \in Nat /\ Cardinality(failing(f))' \in Nat
    /\ (t \in failing(f) <=> t \in failing(f)') =>
         Cardinality(failing(f))' = Cardinality(failing(f))
    /\ t \notin failing(f) /\ t \in failing(f)' =>
         Cardinality(failing(f))' = Cardinality(failing(f)) + 1
    /\ t \in failing(f) /\ t \notin failing(f)' =>
         Cardinality(failing(f)) = Cardinality(failing(f))' + 1
    /\ Cardinality(owed(f)) \in Nat /\ Cardinality(owed(f))' \in Nat
    /\ (t \in owed(f) <=> t \in owed(f)') =>
         Cardinality(owed(f))' = Cardinality(owed(f))
    /\ t \notin owed(f) /\ t \in owed(f)' =>
         Cardinality(owed(f))' = Cardinality(owed(f)) + 1
    /\ t \in owed(f) /\ t \notin owed(f)' =>
         Cardinality(owed(f)) = Cardinality(owed(f))' + 1

LEMMA Deltas ==
    ASSUME Types, NEW t \in Clients, Act(t), NEW f \in Functions
    PROVE  Delta(t, f)
BY Recounts, Recount DEF Delta
=============================================================================
