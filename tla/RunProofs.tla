----------------------------- MODULE RunProofs -----------------------------
(***************************************************************************)
(* Proof that ThreadLoop allows what a client does inside run(), for any   *)
(* number of clients.                                                      *)
(***************************************************************************)
EXTENDS ClientRefinement, GearmanClientProofs

places == [u \in Clients |-> place(u)]

labels == [u \in Clients |-> [state |-> label(u)]]

\* How a step of a client looks to ThreadLoop.
LEMMA Seen ==
    ASSUME Types, NEW t \in Clients, Act(t)
    PROVE  /\ \A u \in Clients \ {t} : place(u)' = place(u) /\ label(u)' = label(u)
           /\ places' = [places EXCEPT ![t] = place(t)']
           /\ labels' = [u \in DOMAIN labels |->
                           IF u = t THEN [labels[u] EXCEPT !.state = label(t)']
                                    ELSE labels[u]]
           /\ label(t)' = label(t) => labels' = labels
<1>1. \A u \in Clients \ {t} : place(u)' = place(u) /\ label(u)' = label(u)
  <2>1. \A u \in Clients \ {t} : client_pc'[u] = client_pc[u] /\ job'[u] = job[u]
    BY Frame
  <2> QED
    BY <2>1 DEF place, label
<1> QED
  BY <1>1 DEF places, labels

LEMMA ActRefines ==
    ASSUME ClientInv, NEW t \in Clients, Act(t), inRun(t)
    PROVE  Loop!ClientStep(t) \/ (place(t) = place(t)' /\ label(t) = label(t)')
<1>1. /\ places' = [places EXCEPT ![t] = place(t)']
      /\ labels' = [u \in DOMAIN labels |->
                      IF u = t THEN [labels[u] EXCEPT !.state = label(t)']
                               ELSE labels[u]]
      /\ label(t)' = label(t) => labels' = labels
      /\ DOMAIN labels = Clients /\ places[t] = place(t) /\ labels[t].state = label(t)
  BY Seen DEF ClientInv, places, labels
<1>2. client_pc \in [Clients -> ClientPlaces] /\ job \in [Clients -> Job \cup {NoJob}]
  BY DEF ClientInv, Types
<1>3. client_pc[t] \in Processing \cup {"run", "answer", "complete", "completing"}
  BY <1>2 DEF inRun, place, Processing, ClientPlaces
<1> USE <1>2 DEF Goto, onlyMoves, onlyGauges, onlyCounters, unchangedRest,
        unchangedMetrics, gauges, counters, gearmandVars, clientVars, Processing, place, label
<1>4. CASE \/ WaitSuccess(t) \/ WorkNothing(t) \/ WorkAnswered(t) \/ JobStarted(t)
           \/ PerformAborted(t) \/ PerformFails(t) \/ JobOverruns(t) \/ JobTimeout(t)
           \/ JobHttpError(t)
  BY <1>4 DEF WaitSuccess, WorkNothing, WorkAnswered, JobStarted, PerformAborted, PerformFails,
     JobOverruns, JobTimeout, JobHttpError
<1>5. CASE WorkComplete(t)
  <2>1. active(t)
    BY <1>5, OneFunction DEF WorkComplete, ClientInv, StackInv
  <2> QED
    BY <1>5, <2>1 DEF WorkComplete
<1>6. CASE PerformSucceeds(t)
  <2>1. job[t] # NoJob /\ job'[t] # NoJob
    BY <1>6, ActStack DEF PerformSucceeds, ClientInv, StackInv
  <2> QED
    BY <1>6, <2>1 DEF PerformSucceeds
<1>7. CASE WaitTimeout(t)
  <2>1. /\ process = "running" /\ place(t) = "client" /\ place(t)' = "check_force"
        /\ label(t)' = label(t) /\ UNCHANGED <<process, g_force_shutdown>>
    BY <1>7 DEF WaitTimeout
  <2>2. Loop!ClientIdles(t)
    BY <1>1, <2>1 DEF Loop!ClientIdles, Loop!Goto, Loop!registryVars, Loop!startVars, places,
       labels
  <2> QED
    BY <2>2 DEF Loop!ClientStep
<1>8. CASE WaitThrows(t) \/ WorkThrows(t)
  <2>1. /\ process = "running" /\ place(t) = "client" /\ place(t)' = "leaving"
        /\ label(t)' = label(t) /\ UNCHANGED <<process, g_force_shutdown>>
    BY <1>8 DEF WaitThrows, WorkThrows
  <2>2. Loop!ClientThrows(t)
    BY <1>1, <2>1 DEF Loop!ClientThrows, Loop!Goto, Loop!registryVars, Loop!startVars, places,
       labels
  <2> QED
    BY <2>2 DEF Loop!ClientStep
<1>9. CASE \E f \in Functions : WorkCallback(t, f)
  <2>1. job[t] = NoJob /\ job'[t] # NoJob
    BY <1>9, ActStack DEF WorkCallback, ClientInv, StackInv
  <2>2. /\ process = "running" /\ place(t) = "client" /\ place(t)' = "job"
        /\ label(t) = "Waiting for work" /\ label(t)' = "job"
        /\ UNCHANGED <<process, g_force_shutdown>>
    BY <1>9, <2>1 DEF WorkCallback
  <2>3. Loop!ClientTakesJob(t)
    <3>1. Loop!Goto(t, "client", "job")
      BY <1>1, <2>2 DEF Loop!Goto, places
    <3>2. ~Loop!answerPending(t)
      BY <1>1, <2>2 DEF Loop!answerPending, labels
    <3>3. labels' = [u \in DOMAIN labels |->
                       IF u = t THEN [labels[u] EXCEPT !.state = "job"] ELSE labels[u]]
      BY <1>1, <2>2
    <3>4. Loop!setThreadState(t, "job")
      BY <1>1, <2>2, <3>3 DEF Loop!setThreadState, Loop!DS_ASSERT, labels
    <3> QED
      BY <2>2, <3>1, <3>2, <3>4 DEF Loop!ClientTakesJob, Loop!startVars
  <2> QED
    BY <2>3 DEF Loop!ClientStep
<1>10. CASE WorkCompleteEnds(t)
  <2>1. job[t] = NoJob
    BY <1>10 DEF WorkCompleteEnds, ClientInv, StackInv
  <2>2. /\ process = "running" /\ place(t) = "client" /\ place(t)' = "check_force"
        /\ label(t) = "job" /\ label(t)' = "Waiting for work"
        /\ UNCHANGED <<process, g_force_shutdown>>
    BY <1>10, <2>1 DEF WorkCompleteEnds
  <2>3. Loop!ClientEndsJob(t)
    <3>1. Loop!Goto(t, "client", "check_force")
      BY <1>1, <2>2 DEF Loop!Goto, places
    <3>2. Loop!answerPending(t)
      BY <1>1, <2>2 DEF Loop!answerPending, labels
    <3>3. labels' = [u \in DOMAIN labels |->
                       IF u = t THEN [labels[u] EXCEPT !.state = "Waiting for work"] ELSE labels[u]]
      BY <1>1, <2>2
    <3>4. Loop!setThreadState(t, "Waiting for work")
      BY <1>1, <2>2, <3>3 DEF Loop!setThreadState, Loop!DS_ASSERT, labels
    <3> QED
      BY <2>2, <3>1, <3>2, <3>4 DEF Loop!ClientEndsJob, Loop!startVars
  <2> QED
    BY <2>3 DEF Loop!ClientStep
<1>11. CASE JobError(t) \/ JobSuccess(t)
  <2>1. job[t] # NoJob /\ job'[t] # NoJob
    BY <1>11, ActStack DEF JobError, JobSuccess, ClientInv, StackInv
  <2>2. /\ process = "running" /\ place(t) = "job" /\ place(t)' = "client"
        /\ label(t)' = label(t) /\ UNCHANGED <<process, g_force_shutdown>>
    BY <1>11, <2>1 DEF JobError, JobSuccess
  <2>3. Loop!ClientJobDone(t)
    BY <1>1, <2>2 DEF Loop!ClientJobDone, Loop!Goto, Loop!registryVars, Loop!startVars, places,
       labels
  <2> QED
    BY <2>3 DEF Loop!ClientStep
<1>12. CASE PerformTerminates(t)
  BY <1>12 DEF PerformTerminates
<1>13. ~(\/ Construct(t) \/ CallRun(t) \/ StopRequested(t) \/ Destroy(t) \/ DestroyEnds(t))
  BY <1>3 DEF Construct, CallRun, StopRequested, Destroy, DestroyEnds
<1> QED
  BY <1>4, <1>5, <1>6, <1>7, <1>8, <1>9, <1>10, <1>11, <1>12, <1>13 DEF Act, ThreadStep,
     EndpointStep

\* A client ends the process only inside processJob.
LEMMA ActTerminates ==
    ASSUME ClientInv, NEW t \in Clients, Act(t), process' # process
    PROVE  Loop!ClientTerminates(t)
<1>1. PerformTerminates(t)
  BY DEF Act, ThreadStep, EndpointStep, Construct, CallRun, StopRequested, Destroy, DestroyEnds,
     WaitSuccess, WaitTimeout, WaitThrows, WorkNothing, WorkThrows, WorkCallback, WorkAnswered,
     WorkComplete, WorkCompleteEnds, JobStarted, PerformAborted, JobTimeout, JobHttpError,
     JobError, JobSuccess, JobOverruns, PerformFails, PerformSucceeds, onlyMoves, onlyGauges,
     onlyCounters, unchangedRest
<1>2. /\ process = "running" /\ process' = "uncaught" /\ client_pc[t] = "perform"
      /\ client_pc' = client_pc /\ job' = job /\ g_force_shutdown' = g_force_shutdown
  BY <1>1 DEF PerformTerminates, clientVars
<1>3. places' = places /\ labels' = labels /\ places[t] = "job"
  BY <1>2 DEF places, labels, place, label, Processing
<1> QED
  BY <1>2, <1>3 DEF Loop!ClientTerminates, Loop!registryVars, Loop!threadVars, Loop!startVars,
     places, labels

\* Every step a client takes inside run() is one that ThreadLoop allows it, or
\* one it does not see: the two modules agree on m_client->run().
THEOREM RunCorrect == Spec => RunRefinesThreadLoop
<1> DEFINE Step ==
        /\ \A t \in Clients :
             inRun(t) => Loop!ClientStep(t) \/ (place(t) = place(t)' /\ label(t) = label(t)')
        /\ process' # process => \E t \in Clients : Loop!ClientTerminates(t)
<1>1. ClientInv /\ [Next]_vars => [Step]_vars
  <2> SUFFICES ASSUME ClientInv, Next
               PROVE  Step
    OBVIOUS
  <2>1. ASSUME NEW t \in Clients, Act(t)
        PROVE  Step
    <3>1. \A u \in Clients \ {t} : place(u)' = place(u) /\ label(u)' = label(u)
      BY <2>1, Seen DEF ClientInv
    <3>2. inRun(t) => Loop!ClientStep(t) \/ (place(t) = place(t)' /\ label(t) = label(t)')
      BY <2>1, ActRefines
    <3>3. process' # process => Loop!ClientTerminates(t)
      BY <2>1, ActTerminates
    <3> QED
      BY <3>1, <3>2, <3>3
  <2>2. CASE ForceShutdown \/ Ended
    <3>1. client_pc' = client_pc /\ job' = job /\ process' = process
      BY <2>2 DEF ForceShutdown, Ended, vars, clientVars
    <3>2. \A u \in Clients : place(u)' = place(u) /\ label(u)' = label(u)
      BY <3>1 DEF place, label
    <3> QED
      BY <3>1, <3>2
  <2> QED
    BY <2>1, <2>2 DEF Next, Act
<1> HIDE DEF Step
<1>2. Spec => [][Step]_vars
  BY <1>1, AlwaysClientInv, PTL DEF Spec
<1> QED
  BY <1>2 DEF Step, RunRefinesThreadLoop
=============================================================================
