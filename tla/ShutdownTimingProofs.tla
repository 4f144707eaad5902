------------------------ MODULE ShutdownTimingProofs ------------------------
(***************************************************************************)
(* How the timeouts fit one another, for every number of threads and every *)
(* response timeout; where the 32 bits of a product matter the theorem     *)
(* says so.                                                                *)
(***************************************************************************)
EXTENDS ShutdownTiming, TLAPS

IInv == TimingTypeOK /\ RoundInv /\ PollsInv /\ SinceInv /\ JobInv

T == GEARMAND_RESPONSE_TIMEOUT

LEMMA ModSmall == ASSUME NEW a \in Nat, NEW m \in Nat, a < m
                  PROVE  a % m = a
OBVIOUS

LEMMA ModBound == ASSUME NEW a \in Nat, NEW m \in Nat \ {0}
                  PROVE  a % m \in Nat /\ a % m <= a
OBVIOUS

\* What main() and the client compute from the response timeout, wrapped or
\* not: no wait is longer than four times it.
LEMMA Durations ==
    ASSUME TimingTypeOK
    PROVE  /\ T \in Nat /\ T > 0
           /\ pollTimeout \in Nat
           /\ shutdownWait \in Nat /\ shutdownWait <= 8 * T
           /\ LOOP_SLEEP_DURATION \in Nat
<1>1. T \in Nat /\ T > 0 /\ Modulus \in Nat \ {0}
  BY TimingAssumption DEF TimingTypeOK, T
<1>2. HARD_SHUTDOWN_WAIT_DURATION \in Nat /\ HARD_SHUTDOWN_WAIT_DURATION <= 2 * T
  BY <1>1, ModBound DEF HARD_SHUTDOWN_WAIT_DURATION, T
<1>3. /\ GRACEFUL_SHUTDOWN_WAIT_DURATION \in Nat
      /\ GRACEFUL_SHUTDOWN_WAIT_DURATION <= HARD_SHUTDOWN_WAIT_DURATION * 2
  BY <1>1, <1>2, ModBound DEF GRACEFUL_SHUTDOWN_WAIT_DURATION
<1>4. shutdownWait \in Nat /\ shutdownWait <= 8 * T
  BY <1>1, <1>2, <1>3 DEF shutdownWait, seconds, TicksPerSecond
<1>5. pollMillis \in Nat
  BY <1>1, ModBound DEF pollMillis, T
<1>6. pollTimeout \in Nat
  BY <1>5 DEF pollTimeout, TicksPerSecond
<1>7. LOOP_SLEEP_DURATION \in Nat
  BY <1>1 DEF LOOP_SLEEP_DURATION, T
<1> QED
  BY <1>1, <1>4, <1>6, <1>7

\* A timeout whose milliseconds fit an int wraps nowhere: a poll lasts as long
\* as it says, and the wait is the documented one.
LEMMA NothingWraps ==
    ASSUME TimingTypeOK, T * 1000 < Modulus \div 2
    PROVE  pollEnds /\ pollTimeout = 2 * T /\ shutdownWait = documentedWait
<1>1. T \in Nat /\ T > 0 /\ Modulus \in Nat
  BY TimingAssumption DEF TimingTypeOK, T
<1>2. T * 2 < Modulus /\ (2 * T) * 2 < Modulus /\ T * 1000 < Modulus
  BY <1>1
<1>3. HARD_SHUTDOWN_WAIT_DURATION = 2 * T
  BY <1>1, <1>2, ModSmall DEF HARD_SHUTDOWN_WAIT_DURATION, T
<1>4. GRACEFUL_SHUTDOWN_WAIT_DURATION = 4 * T
  BY <1>1, <1>2, <1>3, ModSmall DEF GRACEFUL_SHUTDOWN_WAIT_DURATION, T
<1>5. pollMillis = T * 1000
  BY <1>1, <1>2, ModSmall DEF pollMillis, T
<1>6. pollEnds /\ pollTimeout = 2 * T
  BY <1>1, <1>5 DEF pollEnds, pollTimeout, TicksPerSecond
<1>7. shutdownWait = documentedWait
  BY <1>1, <1>3, <1>4 DEF shutdownWait, documentedWait, seconds, TicksPerSecond, T
<1> QED
  BY <1>6, <1>7

LEMMA OneMore == ASSUME NEW n \in Nat, NEW p \in Nat
                 PROVE  n * p \in Nat /\ (n + 1) * p = n * p + p
OBVIOUS

\* What a thread may have spent since doShutdown, at most.
allowed(t) ==
    polls[t] * pollTimeout
      + (IF thread_pc[t] = "poll" /\ ~pending[t] THEN 0 ELSE CallbackPeriod)

spent(t) == main_age + (IF busy(t) THEN left[t] ELSE 0)

\* The part of PollsInv and JobInv that is about one thread.
ThreadOK(t) ==
    /\ thread_pc[t] = "poll" => left[t] <= pollTimeout
    /\ thread_pc[t] = "job" => left[t] <= CallbackPeriod
    /\ g_force_shutdown /\ pollEnds /\ thread_pc[t] # "gone" => spent(t) <= allowed(t)
    /\ thread_pc[t] = "job" =>
         phase[t] + age[t] + left[t] < seconds(MAX_JOB_RUNNING_TIME + 1) + CallbackPeriod

\* The part that is about the main thread.
MainOK == RoundInv /\ SinceInv

LEMMA Parts == IInv <=> TimingTypeOK /\ MainOK /\ \A t \in Threads : ThreadOK(t)
BY DEF IInv, PollsInv, JobInv, ThreadOK, MainOK, spent, allowed

LEMMA InitIInv == Init => IInv
<1> SUFFICES ASSUME Init
             PROVE  IInv
  OBVIOUS
<1>1. TimingTypeOK
  BY DEF Init, TimingTypeOK, TicksPerSecond
<1>2. MainOK
  BY <1>1, Durations, TimingAssumption DEF Init, MainOK, RoundInv, SinceInv,
     g_force_shutdown, seconds, TicksPerSecond
<1>3. \A t \in Threads : ThreadOK(t)
  BY DEF Init, ThreadOK, g_force_shutdown
<1> QED
  BY <1>1, <1>2, <1>3, Parts

-----------------------------------------------------------------------------
(***************************************************************************)
(* The steps of a thread.                                                  *)
(***************************************************************************)
LEMMA ThreadTypes ==
    ASSUME IInv, NEW t \in Threads, ThreadStep(t)
    PROVE  TimingTypeOK'
<1> USE DEF IInv, TimingTypeOK, Goto, mainVars
<1>1. pollTimeout \in Nat /\ CallbackPeriod \in Nat
  BY Durations, TimingAssumption
<1>2. CASE LoopLeaves(t)
  BY <1>2 DEF LoopLeaves
<1>3. CASE LoopRuns(t) \/ PollAgain(t)
  BY <1>1, <1>3 DEF LoopRuns, PollAgain, beginPoll
<1>4. CASE PollTimesOut(t) \/ PollSendsAnswer(t)
  <2>1. pending' \in [Threads -> BOOLEAN]
    BY <1>4 DEF PollTimesOut, PollSendsAnswer
  <2> QED
    BY <1>4, <2>1 DEF PollTimesOut, PollSendsAnswer, returns, TicksPerSecond
<1>5. CASE PollTakesJob(t)
  BY <1>1, <1>5 DEF PollTakesJob
<1>6. CASE JobGoesOn(t)
  BY <1>1, <1>6 DEF JobGoesOn
<1>7. CASE transferOver(t)
  <2>1. pending' \in [Threads -> BOOLEAN]
    BY <1>7 DEF transferOver
  <2> QED
    BY <1>1, <1>7, <2>1 DEF transferOver, returns, beginPoll, TicksPerSecond
<1> QED
  BY <1>2, <1>3, <1>4, <1>5, <1>6, <1>7 DEF ThreadStep, JobAborted, JobDone

\* A step of a thread changes nothing of the main thread nor of the others.
LEMMA ThreadFrame ==
    ASSUME IInv, NEW t \in Threads, ThreadStep(t)
    PROVE  /\ UNCHANGED mainVars
           /\ \A u \in Threads \ {t} :
                /\ thread_pc'[u] = thread_pc[u] /\ age'[u] = age[u] /\ left'[u] = left[u]
                /\ phase'[u] = phase[u] /\ pending'[u] = pending[u] /\ polls'[u] = polls[u]
BY DEF IInv, TimingTypeOK, ThreadStep, Goto, LoopLeaves, LoopRuns, PollAgain, beginPoll,
   PollTimesOut, PollSendsAnswer, returns, PollTakesJob, JobGoesOn, transferOver,
   JobAborted, JobDone

LEMMA OtherThreads ==
    ASSUME IInv, NEW t \in Threads, ThreadStep(t), NEW u \in Threads, u # t
    PROVE  ThreadOK(u)'
<1>1. ThreadOK(u)
  BY Parts
<1>2. UNCHANGED mainVars
  BY ThreadFrame
<1>3. /\ thread_pc'[u] = thread_pc[u] /\ age'[u] = age[u] /\ left'[u] = left[u]
      /\ phase'[u] = phase[u] /\ pending'[u] = pending[u] /\ polls'[u] = polls[u]
  BY ThreadFrame
<1>4. spent(u)' = spent(u) /\ allowed(u)' = allowed(u)
  BY <1>2, <1>3 DEF spent, allowed, busy, mainVars, pollTimeout, pollMillis, pollEnds
<1>5. pollTimeout' = pollTimeout /\ pollEnds' = pollEnds
      /\ g_force_shutdown' = g_force_shutdown
  BY <1>2 DEF mainVars, pollTimeout, pollMillis, pollEnds, g_force_shutdown
<1> QED
  BY <1>1, <1>3, <1>4, <1>5 DEF ThreadOK, seconds

\* What the thread that moves may have spent grows by no more than it is
\* allowed: a poll that begins counts for itself.
LEMMA MovingThread ==
    ASSUME IInv, NEW t \in Threads, ThreadStep(t)
    PROVE  ThreadOK(t)'
<1>1. ThreadOK(t) /\ MainOK
  BY Parts
<1>2. UNCHANGED mainVars
  BY ThreadFrame
<1>3. /\ pollTimeout' = pollTimeout /\ pollEnds' = pollEnds
      /\ g_force_shutdown' = g_force_shutdown /\ main_age' = main_age
  BY <1>2 DEF mainVars, pollTimeout, pollMillis, pollEnds, g_force_shutdown
<1>4. /\ pollTimeout \in Nat /\ CallbackPeriod \in Nat /\ CallbackPeriod > 0
      /\ MAX_JOB_RUNNING_TIME \in Nat
  BY Durations, TimingAssumption DEF IInv
<1>5. /\ thread_pc \in [Threads -> {"loop", "poll", "job", "gone"}]
      /\ age \in [Threads -> Nat] /\ left \in [Threads -> Nat]
      /\ phase \in [Threads -> 0..1] /\ pending \in [Threads -> BOOLEAN]
      /\ polls \in [Threads -> Nat] /\ main_age \in Nat
  BY DEF IInv, TimingTypeOK, TicksPerSecond
<1>6. /\ polls[t] * pollTimeout \in Nat
      /\ (polls[t] + 1) * pollTimeout = polls[t] * pollTimeout + pollTimeout
  BY <1>4, <1>5, OneMore
<1> USE <1>1, <1>3, <1>4, <1>5, <1>6
    DEF Goto, ThreadOK, seconds, TicksPerSecond, spent, allowed, busy
<1>7. CASE LoopLeaves(t)
  BY <1>7 DEF LoopLeaves
<1>8. CASE LoopRuns(t)
  BY <1>8 DEF LoopRuns, beginPoll
<1>9. CASE PollAgain(t)
  BY <1>9 DEF PollAgain, beginPoll
<1>10. CASE PollTimesOut(t) \/ PollSendsAnswer(t)
  BY <1>10 DEF PollTimesOut, PollSendsAnswer, returns
<1>11. CASE PollTakesJob(t)
  BY <1>11 DEF PollTakesJob
<1>12. CASE JobGoesOn(t)
  BY <1>12 DEF JobGoesOn, curl_progress_func, elapsed
<1>13. CASE transferOver(t)
  BY <1>13 DEF transferOver, returns, beginPoll
<1> QED
  BY <1>7, <1>8, <1>9, <1>10, <1>11, <1>12, <1>13 DEF ThreadStep, JobAborted, JobDone

LEMMA ThreadIInv ==
    ASSUME IInv, NEW t \in Threads, ThreadStep(t)
    PROVE  IInv'
<1>1. MainOK'
  <2>1. MainOK /\ UNCHANGED mainVars
    BY Parts, ThreadFrame
  <2> QED
    BY <2>1 DEF MainOK, RoundInv, SinceInv, mainVars, g_force_shutdown, shutdownWait, seconds,
       HARD_SHUTDOWN_WAIT_DURATION, GRACEFUL_SHUTDOWN_WAIT_DURATION, LOOP_SLEEP_DURATION
<1>2. \A u \in Threads : ThreadOK(u)'
  BY OtherThreads, MovingThread
<1> QED
  BY <1>1, <1>2, ThreadTypes DEF IInv, PollsInv, JobInv, ThreadOK, MainOK, spent, allowed

-----------------------------------------------------------------------------
(***************************************************************************)
(* The steps of the main thread, signals and time.                         *)
(***************************************************************************)
LEMMA DurationsNext == ASSUME TimingTypeOK' PROVE (shutdownWait \in Nat)'
BY Durations, PTL

MainStep == shutdown_handler \/ SleepDone \/ Reload \/ doShutdown \/ WaitDone

LEMMA MainIInv ==
    ASSUME IInv, MainStep
    PROVE  IInv'
<1>1. MainOK /\ \A t \in Threads : ThreadOK(t)
  BY Parts
<1>2. TimingTypeOK'
  BY DEF IInv, TimingTypeOK, MainStep, shutdown_handler, SleepDone, Reload, doShutdown,
     WaitDone, threadVars
<1>3. /\ LOOP_SLEEP_DURATION \in Nat /\ LOOP_SLEEP_DURATION' = LOOP_SLEEP_DURATION
      /\ pollTimeout \in Nat /\ pollTimeout' = pollTimeout /\ pollEnds' = pollEnds
      /\ shutdownWait' \in Nat
      /\ CallbackPeriod \in Nat /\ RoundTime \in Nat
  BY <1>2, Durations, DurationsNext, TimingAssumption DEF IInv, MainStep, shutdown_handler,
     SleepDone, Reload, doShutdown, WaitDone, LOOP_SLEEP_DURATION, pollTimeout, pollMillis,
     pollEnds
<1>4. WaitDone => shutdownWait' = shutdownWait
  BY DEF WaitDone, shutdownWait, HARD_SHUTDOWN_WAIT_DURATION,
     GRACEFUL_SHUTDOWN_WAIT_DURATION
<1> USE <1>1, <1>3, <1>4 DEF IInv, TimingTypeOK
<1>5. MainOK'
  BY DEF MainOK, RoundInv, SinceInv, MainStep, shutdown_handler, SleepDone, sleepOver,
     Reload, doShutdown, WaitDone, g_force_shutdown, seconds, TicksPerSecond, threadVars
<1>6. ASSUME NEW t \in Threads
      PROVE  ThreadOK(t)'
  <2>1. CASE shutdown_handler \/ SleepDone \/ Reload
    BY <2>1 DEF ThreadOK, shutdown_handler, SleepDone, Reload, g_force_shutdown,
       sleepOver, threadVars
  <2>2. CASE doShutdown
    <3>1. polls'[t] = IF thread_pc[t] = "poll" THEN 1 ELSE 0
      BY <2>2 DEF doShutdown
    <3>2. /\ thread_pc' = thread_pc /\ left' = left /\ age' = age /\ phase' = phase
          /\ pending' = pending /\ main_age' = 0
      BY <2>2 DEF doShutdown
    <3>3. polls'[t] * pollTimeout = IF thread_pc[t] = "poll" THEN pollTimeout ELSE 0
      BY <3>1
    <3>4. spent(t)' <= allowed(t)'
      BY <3>2, <3>3 DEF spent, allowed, busy, ThreadOK
    <3> QED
      BY <3>2, <3>4 DEF ThreadOK, seconds, TicksPerSecond
  <2>3. CASE WaitDone
    <3>1. spent(t)' = spent(t) /\ allowed(t)' = allowed(t)
      BY <2>3 DEF WaitDone, spent, allowed, busy, threadVars
    <3> QED
      BY <2>3, <3>1 DEF WaitDone, ThreadOK, g_force_shutdown, threadVars
  <2> QED
    BY <2>1, <2>2, <2>3 DEF MainStep
<1> QED
  BY <1>2, <1>5, <1>6 DEF IInv, PollsInv, JobInv, ThreadOK, MainOK, spent, allowed

\* A tick adds one to the time of the wait and takes one from what is left of
\* the poll or the job of every thread.
LEMMA TickIInv ==
    ASSUME IInv, Tick
    PROVE  IInv'
<1>1. MainOK /\ \A t \in Threads : ThreadOK(t)
  BY Parts
<1>2. TimingTypeOK'
  BY DEF IInv, TimingTypeOK, Tick, busy
<1>3. /\ LOOP_SLEEP_DURATION \in Nat /\ LOOP_SLEEP_DURATION' = LOOP_SLEEP_DURATION
      /\ pollTimeout \in Nat /\ pollTimeout' = pollTimeout /\ pollEnds' = pollEnds
      /\ shutdownWait \in Nat /\ shutdownWait' = shutdownWait
      /\ CallbackPeriod \in Nat /\ MAX_JOB_RUNNING_TIME \in Nat /\ RoundTime \in Nat
      /\ g_force_shutdown' = g_force_shutdown
  BY Durations, TimingAssumption DEF IInv, Tick, LOOP_SLEEP_DURATION, pollTimeout,
     pollMillis, pollEnds, shutdownWait, HARD_SHUTDOWN_WAIT_DURATION,
     GRACEFUL_SHUTDOWN_WAIT_DURATION, g_force_shutdown
<1> USE <1>1, <1>3 DEF IInv, TimingTypeOK
<1>4. MainOK'
  BY DEF MainOK, RoundInv, SinceInv, Tick, roundOver, g_force_shutdown, seconds,
     TicksPerSecond
<1>5. ASSUME NEW t \in Threads
      PROVE  ThreadOK(t)'
  <2>1. /\ thread_pc' = thread_pc /\ pending' = pending /\ polls' = polls /\ phase' = phase
        /\ main_age' = main_age + 1
    BY DEF Tick
  <2>2. allowed(t)' = allowed(t)
    BY <2>1 DEF allowed
  <2>3. CASE thread_pc[t] = "gone"
    BY <2>1, <2>3 DEF ThreadOK
  <2>4. CASE thread_pc[t] = "poll"
    <3>1. left'[t] \in Nat /\ left'[t] <= left[t]
      BY <2>4 DEF Tick, busy
    <3>2. pollEnds => left'[t] = left[t] - 1
      BY <2>4 DEF Tick, busy, due
    <3>3. pollEnds => spent(t)' = spent(t)
      BY <2>1, <2>4, <3>2 DEF spent, busy
    <3> QED
      BY <2>1, <2>2, <2>4, <3>1, <3>3 DEF ThreadOK
  <2>5. CASE thread_pc[t] = "job"
    <3>1. left'[t] = left[t] - 1 /\ age'[t] = age[t] + 1
      BY <2>5 DEF Tick, busy, due
    <3>2. spent(t)' = spent(t)
      BY <2>1, <2>5, <3>1 DEF spent, busy
    <3> QED
      BY <2>1, <2>2, <2>5, <3>1, <3>2 DEF ThreadOK, seconds, TicksPerSecond
  <2> QED
    BY <2>3, <2>4, <2>5 DEF Tick, due
<1> QED
  BY <1>2, <1>4, <1>5 DEF IInv, PollsInv, JobInv, ThreadOK, MainOK, spent, allowed

LEMMA NextIInv == IInv /\ [Next]_vars => IInv'
<1> SUFFICES ASSUME IInv, [Next]_vars
             PROVE  IInv'
  OBVIOUS
<1>1. CASE UNCHANGED vars
  BY <1>1 DEF vars, mainVars, threadVars, IInv, TimingTypeOK, RoundInv, PollsInv, SinceInv,
     JobInv, g_force_shutdown, busy, shutdownWait, pollTimeout, pollMillis, pollEnds,
     LOOP_SLEEP_DURATION, HARD_SHUTDOWN_WAIT_DURATION, GRACEFUL_SHUTDOWN_WAIT_DURATION
<1>2. CASE MainStep
  BY <1>2, MainIInv
<1>3. CASE \E t \in Threads : ThreadStep(t)
  BY <1>3, ThreadIInv
<1>4. CASE Tick
  BY <1>4, TickIInv
<1> QED
  BY <1>1, <1>2, <1>3, <1>4 DEF Next, MainStep, Gone

LEMMA AlwaysIInv == Spec => []IInv
BY InitIInv, NextIInv, PTL DEF Spec

-----------------------------------------------------------------------------
\* A thread that the end of doShutdown's wait cuts off had spent it in polls:
\* they and one callback of its job add up to the documented wait.  How often
\* gearmand wakes a poll for nothing or takes no answer is not assumed.
THEOREM LateCorrect == Spec => []LateOnlyByPolling
<1>1. IInv => LateOnlyByPolling
  <2> SUFFICES ASSUME IInv, main_pc = "gone", T * 1000 < Modulus \div 2,
                      NEW t \in Threads, thread_pc[t] # "gone"
               PROVE  documentedWait <= polls[t] * seconds(T) + CallbackPeriod
    BY DEF LateOnlyByPolling, T
  <2>1. pollEnds /\ pollTimeout = seconds(T) /\ main_age = documentedWait
    BY NothingWraps, Durations DEF IInv, RoundInv, seconds, TicksPerSecond
  <2>2. spent(t) <= allowed(t)
    BY <2>1, Parts DEF ThreadOK, g_force_shutdown
  <2>3. /\ polls[t] * pollTimeout \in Nat /\ left[t] \in Nat /\ main_age \in Nat
        /\ CallbackPeriod \in Nat
    BY OneMore, Durations, TimingAssumption DEF IInv, TimingTypeOK
  <2>4. main_age <= polls[t] * pollTimeout + CallbackPeriod
    BY <2>2, <2>3 DEF spent, allowed
  <2> QED
    BY <2>1, <2>4
<1> QED
  BY <1>1, AlwaysIInv, PTL

\* So a thread is cut off only in its second poll since doShutdown or a later
\* one, and after a graceful signal in its fourth or a later one, if
\* curl_progress_func is called more often than once per response timeout.
THEOREM LateNeedsPolls ==
    Spec => [](/\ main_pc = "gone"
               /\ GEARMAND_RESPONSE_TIMEOUT * 1000 < Modulus \div 2
               /\ CallbackPeriod < seconds(GEARMAND_RESPONSE_TIMEOUT)
               => \A t \in Threads :
                    thread_pc[t] # "gone" =>
                        polls[t] >= (IF shutdown_type = "HARD" THEN 2 ELSE 4))
<1> DEFINE needed == IF shutdown_type = "HARD" THEN 2 ELSE 4
<1>1. ASSUME IInv, LateOnlyByPolling, main_pc = "gone", T * 1000 < Modulus \div 2,
             CallbackPeriod < seconds(T), NEW t \in Threads, thread_pc[t] # "gone"
      PROVE  polls[t] >= needed
  <2>1. documentedWait <= polls[t] * seconds(T) + CallbackPeriod
    BY <1>1 DEF LateOnlyByPolling, T
  <2>2. seconds(T) \in Nat /\ seconds(T) > 0 /\ polls[t] \in Nat /\ CallbackPeriod \in Nat
    BY <1>1, Durations, TimingAssumption DEF IInv, TimingTypeOK, seconds, TicksPerSecond
  <2>3. documentedWait = seconds(T) * needed
    BY DEF documentedWait, T
  <2> HIDE DEF needed
  <2>4. needed \in {2, 4}
    BY DEF needed
  <2>5. ASSUME polls[t] < needed
        PROVE  FALSE
    <3>1. CASE needed = 2 /\ polls[t] \in {0, 1}
      BY <1>1, <2>1, <2>2, <2>3, <3>1
    <3>2. CASE needed = 4 /\ polls[t] \in {0, 1, 2, 3}
      BY <1>1, <2>1, <2>2, <2>3, <3>2
    <3> QED
      BY <2>2, <2>4, <2>5, <3>1, <3>2
  <2> QED
    BY <2>2, <2>4, <2>5
<1>2. IInv /\ LateOnlyByPolling =>
        (/\ main_pc = "gone"
         /\ GEARMAND_RESPONSE_TIMEOUT * 1000 < Modulus \div 2
         /\ CallbackPeriod < seconds(GEARMAND_RESPONSE_TIMEOUT)
         => \A t \in Threads :
              thread_pc[t] # "gone" =>
                  polls[t] >= (IF shutdown_type = "HARD" THEN 2 ELSE 4))
  BY <1>1 DEF T
<1> QED
  BY <1>2, AlwaysIInv, LateCorrect, PTL

\* The process is gone within a round of the main loop and four response
\* timeouts of the first signal, for every timeout: a wait that wraps is shorter.
THEOREM ExitCorrect == Spec => []ExitsInTime
<1>1. IInv => ExitsInTime
  BY Durations, TimingAssumption DEF IInv, TimingTypeOK, RoundInv, SinceInv, ExitsInTime,
     g_force_shutdown, seconds, TicksPerSecond, T
<1> QED
  BY <1>1, AlwaysIInv, PTL

\* curl_progress_func gives every job max_running_time, although time() cuts
\* both ends of its run to whole seconds.
THEOREM JobWindowCorrect == Spec => []JobGetsItsWindow
<1>1. IInv => JobGetsItsWindow
  BY TimingAssumption DEF IInv, TimingTypeOK, JobGetsItsWindow, curl_progress_func, elapsed,
     seconds, TicksPerSecond
<1> QED
  BY <1>1, AlwaysIInv, PTL

\* It aborts a job at most a second and a callback after max_running_time.
THEOREM JobEndCorrect == Spec => []JobEndsInTime
<1>1. IInv => JobEndsInTime
  BY TimingAssumption DEF IInv, TimingTypeOK, JobInv, JobEndsInTime, seconds, TicksPerSecond
<1> QED
  BY <1>1, AlwaysIInv, PTL

\* Every variable keeps its type: no clock passes the end of a poll, so that
\* what is left of one is never negative, for every timeout.
THEOREM TimingTypesCorrect == Spec => []TimingTypeOK
<1>1. IInv => TimingTypeOK
  BY DEF IInv
<1> QED
  BY <1>1, AlwaysIInv, PTL
=============================================================================
