--------------------------- MODULE ShutdownTiming ---------------------------
(***************************************************************************)
(* The timeouts of the daemon, and whether they fit one another: the sleep *)
(* of MainLoop::run, the wait of doShutdown, the poll of GearmanClient and *)
(* the window that curl_progress_func gives a job.                         *)
(*                                                                         *)
(* Time passes in half seconds, so that time(nullptr), which truncates to  *)
(* seconds, differs from it.  Only the rounds of the main loop, polling    *)
(* and the endpoint take time: a step that is due happens before the next  *)
(* tick.                                                                   *)
(***************************************************************************)
EXTENDS Integers

CONSTANTS Threads,
          Timeouts,               \* values of --loop_timeout
          MAX_JOB_RUNNING_TIME,
          CallbackPeriod,         \* ticks between two calls of curl_progress_func, at most
          RoundTime,              \* ticks a round of MainLoop::run takes beside its sleep, at most
          Modulus                 \* of uint32_t

VARIABLES
    GEARMAND_RESPONSE_TIMEOUT,
    shutdown_type,
    main_pc,
    main_age,       \* ticks the main thread has been at its place
    since,          \* ticks since the first signal
    thread_pc,
    age,            \* ticks since the job began
    left,           \* ticks until the poll times out, if it does, or the next callback is due
    phase,          \* ticks into a second at which the job began
    pending,        \* is the answer of a job still to be sent?
    polls           \* history: polls in which the thread was since doShutdown

threadVars == <<thread_pc, age, left, phase, pending, polls>>
mainVars == <<GEARMAND_RESPONSE_TIMEOUT, shutdown_type, main_pc, main_age, since>>
vars == <<mainVars, threadVars>>

TicksPerSecond == 2

seconds(n) == n * TicksPerSecond

ASSUME TimingAssumption ==
    /\ MAX_JOB_RUNNING_TIME \in Nat
    /\ CallbackPeriod \in Nat \ {0}
    /\ RoundTime \in Nat \ {0}
    /\ Modulus \in Nat \ {0}
    /\ Timeouts \subseteq Nat \ {0}

LOOP_SLEEP_DURATION == GEARMAND_RESPONSE_TIMEOUT \div 2
HARD_SHUTDOWN_WAIT_DURATION == (GEARMAND_RESPONSE_TIMEOUT * 2) % Modulus

\* Mutant: waits as long as a hard shutdown.
GracefulAsHard == HARD_SHUTDOWN_WAIT_DURATION

GRACEFUL_SHUTDOWN_WAIT_DURATION == (HARD_SHUTDOWN_WAIT_DURATION * 2) % Modulus

(***************************************************************************)
(* gearman_worker_set_timeout takes an int of milliseconds: a product that *)
(* does not fit becomes negative, which means no timeout, or small.        *)
(***************************************************************************)
pollMillis == (GEARMAND_RESPONSE_TIMEOUT * 1000) % Modulus

pollEnds == pollMillis < Modulus \div 2

\* Ticks after which gearman_worker_wait gives up, if it does.
pollTimeout == IF pollEnds THEN (pollMillis * TicksPerSecond + 999) \div 1000 ELSE 0

shutdownWait ==
    seconds(IF shutdown_type = "HARD" THEN HARD_SHUTDOWN_WAIT_DURATION
                              ELSE GRACEFUL_SHUTDOWN_WAIT_DURATION)

g_force_shutdown == main_pc \in {"wait", "gone"}

TimingTypeOK ==
    /\ GEARMAND_RESPONSE_TIMEOUT \in Timeouts
    /\ shutdown_type \in {"NO", "GRACEFUL", "HARD"}
    /\ main_pc \in {"switch", "sleep", "wait", "gone"}
    /\ main_age \in Nat /\ since \in Nat
    /\ thread_pc \in [Threads -> {"loop", "poll", "job", "gone"}]
    /\ age \in [Threads -> Nat]
    /\ left \in [Threads -> Nat]
    /\ phase \in [Threads -> 0..(TicksPerSecond - 1)]
    /\ pending \in [Threads -> BOOLEAN]
    /\ polls \in [Threads -> Nat]

Init ==
    /\ GEARMAND_RESPONSE_TIMEOUT \in Timeouts
    /\ shutdown_type = "NO"
    /\ main_pc = "switch" /\ main_age = 0 /\ since = 0
    /\ thread_pc = [t \in Threads |-> "loop"]
    /\ age = [t \in Threads |-> 0]
    /\ left = [t \in Threads |-> 0]
    /\ phase = [t \in Threads |-> 0]
    /\ pending = [t \in Threads |-> FALSE]
    /\ polls = [t \in Threads |-> 0]

-----------------------------------------------------------------------------
(***************************************************************************)
(* MainLoop::run                                                           *)
(***************************************************************************)
\* Later signals set a type that nobody reads.
shutdown_handler ==
    /\ ~g_force_shutdown
    /\ \E type \in {"GRACEFUL", "HARD"} : shutdown_type' = type
    /\ UNCHANGED <<GEARMAND_RESPONSE_TIMEOUT, main_pc, main_age, since, threadVars>>

\* A timeout of 1 has no sleep: then only the round itself takes time.
sleepOver == main_pc = "sleep" /\ main_age >= seconds(LOOP_SLEEP_DURATION)

roundOver == main_age >= seconds(LOOP_SLEEP_DURATION) + RoundTime

SleepDone ==
    /\ sleepOver
    /\ main_pc' = "switch"
    /\ UNCHANGED <<GEARMAND_RESPONSE_TIMEOUT, shutdown_type, main_age, since, threadVars>>

\* Mutant: the configuration is read again whatever the type is.
ReloadAnyway ==
    /\ main_pc = "switch"
    /\ main_pc' = "sleep"
    /\ main_age' = 0
    /\ UNCHANGED <<GEARMAND_RESPONSE_TIMEOUT, shutdown_type, since, threadVars>>

\* The configuration is read, the pools are brought up to date and the sleep
\* begins.
Reload ==
    /\ main_pc = "switch"
    /\ shutdown_type = "NO"
    /\ main_pc' = "sleep"
    /\ main_age' = 0
    /\ UNCHANGED <<GEARMAND_RESPONSE_TIMEOUT, shutdown_type, since, threadVars>>

\* The flag is set and every pool is informed; then the wait begins.
doShutdown ==
    /\ main_pc = "switch"
    /\ shutdown_type # "NO"
    /\ main_pc' = "wait"
    /\ main_age' = 0
    /\ polls' = [t \in Threads |-> IF thread_pc[t] = "poll" THEN 1 ELSE 0]
    /\ UNCHANGED <<GEARMAND_RESPONSE_TIMEOUT, shutdown_type, since, thread_pc, age, left,
                   phase, pending>>

\* The wait is over; main() returns and takes every thread that is left with it.
WaitDone ==
    /\ main_pc = "wait"
    /\ main_age = shutdownWait
    /\ main_pc' = "gone"
    /\ UNCHANGED <<GEARMAND_RESPONSE_TIMEOUT, shutdown_type, main_age, since, threadVars>>

-----------------------------------------------------------------------------
(***************************************************************************)
(* ThreadLoop::run and GearmanClient::run                                  *)
(***************************************************************************)
Goto(t, from, to) ==
    /\ main_pc # "gone"
    /\ thread_pc[t] = from
    /\ thread_pc' = [thread_pc EXCEPT ![t] = to]

LoopLeaves(t) ==
    /\ g_force_shutdown
    /\ Goto(t, "loop", "gone")
    /\ UNCHANGED <<mainVars, age, left, phase, pending, polls>>

\* run() returns to the loop.
returns(t) ==
    /\ age' = [age EXCEPT ![t] = 0]
    /\ left' = [left EXCEPT ![t] = 0]
    /\ phase' = [phase EXCEPT ![t] = 0]
    /\ UNCHANGED <<mainVars, polls>>

\* Mutant: the time a job took is deducted from the poll for its answer.
beginPollDeducting(t) ==
    /\ left' = [left EXCEPT ![t] = pollTimeout - age[t]]
    /\ polls' = [polls EXCEPT ![t] = IF g_force_shutdown THEN @ + 1 ELSE 0]
    /\ UNCHANGED mainVars

beginPoll(t) ==
    /\ left' = [left EXCEPT ![t] = pollTimeout]
    /\ polls' = [polls EXCEPT ![t] = IF g_force_shutdown THEN @ + 1 ELSE 0]
    /\ UNCHANGED mainVars

LoopRuns(t) ==
    /\ ~g_force_shutdown
    /\ Goto(t, "loop", "poll")
    /\ beginPoll(t)
    /\ UNCHANGED <<age, phase, pending>>

\* gearman_worker_wait times out.
PollTimesOut(t) ==
    /\ pollEnds /\ left[t] = 0
    /\ Goto(t, "poll", "loop")
    /\ returns(t)
    /\ UNCHANGED pending

\* It returns because there is something to read or to write, but work() has
\* no job to run, or the answer would block again: run() waits once more, and
\* nothing bounds how often.  A poll that returns within its first tick, or
\* that has no timeout, begins as it was: such a step is left out.
PollAgain(t) ==
    /\ left[t] < pollTimeout
    /\ Goto(t, "poll", "poll")
    /\ beginPoll(t)
    /\ UNCHANGED <<age, phase, pending>>

\* work() runs processJob, which notes the time the job begins.
PollTakesJob(t) ==
    /\ ~pending[t]
    /\ Goto(t, "poll", "job")
    /\ age' = [age EXCEPT ![t] = 0]
    /\ left' = [left EXCEPT ![t] = CallbackPeriod]
    /\ \E f \in 0..(TicksPerSecond - 1) : phase' = [phase EXCEPT ![t] = f]
    /\ UNCHANGED <<mainVars, pending, polls>>

\* work() sends the answer of a job that is done.
PollSendsAnswer(t) ==
    /\ pending[t]
    /\ Goto(t, "poll", "loop")
    /\ returns(t)
    /\ pending' = [pending EXCEPT ![t] = FALSE]

(***************************************************************************)
(* The time that time(nullptr) says has passed since the job began, and    *)
(* curl_progress_func.  Mutants: a second early, a second late.            *)
(***************************************************************************)
elapsed(t) == (phase[t] + age[t]) \div TicksPerSecond

progressEarly(t) == g_force_shutdown \/ MAX_JOB_RUNNING_TIME <= elapsed(t)

progressLate(t) == g_force_shutdown \/ MAX_JOB_RUNNING_TIME + 1 < elapsed(t)

curl_progress_func(t) == g_force_shutdown \/ MAX_JOB_RUNNING_TIME < elapsed(t)

JobGoesOn(t) ==
    /\ ~curl_progress_func(t)
    /\ left[t] < CallbackPeriod
    /\ Goto(t, "job", "job")
    /\ left' = [left EXCEPT ![t] = CallbackPeriod]
    /\ UNCHANGED <<mainVars, age, phase, pending, polls>>

\* The transfer is over: its answer is sent, or would block.
transferOver(t) ==
    \/ /\ Goto(t, "job", "loop")
       /\ returns(t)
       /\ UNCHANGED pending
    \/ /\ Goto(t, "job", "poll")
       /\ beginPoll(t)
       /\ age' = [age EXCEPT ![t] = 0]
       /\ phase' = [phase EXCEPT ![t] = 0]
       /\ pending' = [pending EXCEPT ![t] = TRUE]

JobAborted(t) ==
    /\ curl_progress_func(t)
    /\ transferOver(t)

\* The endpoint answers or the connection fails, at any time.
JobDone(t) == transferOver(t)

-----------------------------------------------------------------------------
busy(t) == thread_pc[t] \in {"poll", "job"}

\* The thread has a step to take at this very time.
due(t) ==
    \/ thread_pc[t] = "loop"
    \/ thread_pc[t] = "poll" /\ pollEnds /\ left[t] = 0
    \/ thread_pc[t] = "job" /\ left[t] = 0

Tick ==
    /\ \/ main_pc = "sleep" /\ ~roundOver
       \/ main_pc = "wait" /\ main_age < shutdownWait
    /\ \A t \in Threads : ~due(t)
    /\ main_age' = main_age + 1
    /\ since' = IF shutdown_type = "NO" THEN 0 ELSE since + 1
    /\ age' = [t \in Threads |-> IF thread_pc[t] = "job" THEN age[t] + 1 ELSE age[t]]
    /\ left' = [t \in Threads |-> IF busy(t) /\ left[t] > 0 THEN left[t] - 1 ELSE left[t]]
    /\ UNCHANGED <<GEARMAND_RESPONSE_TIMEOUT, shutdown_type, main_pc, thread_pc, phase,
                   pending, polls>>

ThreadStep(t) ==
    \/ LoopLeaves(t)
    \/ LoopRuns(t)
    \/ PollTimesOut(t)
    \/ PollAgain(t)
    \/ PollTakesJob(t)
    \/ PollSendsAnswer(t)
    \/ JobGoesOn(t)
    \/ JobAborted(t)
    \/ JobDone(t)

Gone == main_pc = "gone" /\ UNCHANGED vars

Next ==
    \/ shutdown_handler
    \/ SleepDone
    \/ Reload
    \/ doShutdown
    \/ WaitDone
    \/ \E t \in Threads : ThreadStep(t)
    \/ Tick
    \/ Gone

Spec == Init /\ [][Next]_vars

-----------------------------------------------------------------------------
(***************************************************************************)
(* Safety.                                                                 *)
(***************************************************************************)

\* The wait that README.md gives the kind of shutdown ("hard shutdown is 2x,
\* and graceful is 4x this value").
documentedWait ==
    seconds(GEARMAND_RESPONSE_TIMEOUT) * (IF shutdown_type = "HARD" THEN 2 ELSE 4)

\* A thread that is still there when the wait of doShutdown is over, and is
\* cut off, was kept by gearmand: its polls since doShutdown, of one response
\* timeout each, and one callback of its job add up to the documented wait.
\* With callbacks more frequent than the response timeout these are two polls
\* or more in a hard shutdown, four or more in a graceful one.  The poll that
\* doShutdown found and the job it may still take never cost a thread its end.
\* The timeout must fit the int that gearman_worker_set_timeout takes.
LateOnlyByPolling ==
    main_pc = "gone" /\ GEARMAND_RESPONSE_TIMEOUT * 1000 < Modulus \div 2 =>
        \A t \in Threads :
            thread_pc[t] # "gone" =>
                documentedWait <=
                    polls[t] * seconds(GEARMAND_RESPONSE_TIMEOUT) + CallbackPeriod

\* The process is gone within one round of the main loop and four response
\* timeouts of the first signal, a second signal or not, also when the sleep is
\* 0 or a product wraps (README.md: "graceful is 4x this value").
ExitsInTime ==
    since <= seconds(LOOP_SLEEP_DURATION) + RoundTime + seconds(4 * GEARMAND_RESPONSE_TIMEOUT)

\* A job is not aborted before it ran for max_running_time, although the
\* seconds in which it began and is looked at are cut off.
JobGetsItsWindow ==
    \A t \in Threads :
        thread_pc[t] = "job" /\ curl_progress_func(t) /\ ~g_force_shutdown =>
            age[t] > seconds(MAX_JOB_RUNNING_TIME)

\* A job is over at most one second and one callback after its window.
JobEndsInTime ==
    \A t \in Threads :
        thread_pc[t] = "job" =>
            age[t] < seconds(MAX_JOB_RUNNING_TIME + 1) + CallbackPeriod

\* How long the main thread is at its place.
RoundInv ==
    /\ ~g_force_shutdown => main_age <= seconds(LOOP_SLEEP_DURATION) + RoundTime
    /\ g_force_shutdown => shutdown_type # "NO" /\ main_age <= shutdownWait
    /\ main_pc = "gone" => main_age = shutdownWait

\* Why a thread that is late was polling: since doShutdown a thread has spent
\* and may still spend in its poll or job no more than its polls and one
\* callback last.  The callback counts from the time the thread takes its job.
PollsInv ==
    \A t \in Threads :
        /\ thread_pc[t] = "poll" => left[t] <= pollTimeout
        /\ thread_pc[t] = "job" => left[t] <= CallbackPeriod
        /\ g_force_shutdown /\ pollEnds /\ thread_pc[t] # "gone" =>
             main_age + (IF busy(t) THEN left[t] ELSE 0) <=
                 polls[t] * pollTimeout
                   + (IF thread_pc[t] = "poll" /\ ~pending[t] THEN 0 ELSE CallbackPeriod)

\* The signal came in this round or in the last.
SinceInv ==
    /\ shutdown_type = "NO" => since = 0
    /\ ~g_force_shutdown => since <= main_age
    /\ g_force_shutdown => since <= seconds(LOOP_SLEEP_DURATION) + RoundTime + main_age

\* A job is looked at once per callback.
JobInv ==
    \A t \in Threads :
        thread_pc[t] = "job" =>
            phase[t] + age[t] + left[t] < seconds(MAX_JOB_RUNNING_TIME + 1) + CallbackPeriod
=============================================================================
