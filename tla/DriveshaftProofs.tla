-------------------------- MODULE DriveshaftProofs --------------------------
(***************************************************************************)
(* Proofs about Driveshaft for every set of pools, threads and files: its  *)
(* types and assertions, the sizes of its pools, and that a reload leaves  *)
(* no outdated thread at work and a shutdown reaches every thread.         *)
(***************************************************************************)
EXTENDS CoreProofs, FiniteSetTheorems

\* A pool has finitely many threads.
LEMMA PoolFinite ==
  ASSUME RegistryTypeOK, NEW p \in Pools
  PROVE  IsFiniteSet(m_registry_store[p]) /\ poolCount(p) \in Nat
  BY TidsAssumption, FS_Subset, FS_CardinalityType DEF poolCount, RegistryTypeOK

LEMMA CoreCounts == CoreInv => CountsNat
  BY PoolFinite DEF CoreInv, TypeOK, CountsNat

\* Every step of the daemon preserves the core invariant.
LEMMA CoreNext == CoreInv /\ [Next]_vars => CoreInv'
  BY CoreCounts, CoreStep

\* The core invariant holds of every reachable state of the daemon.
THEOREM CoreInvariant == Spec => []CoreInv
  BY CoreInit, CoreNext, PTL DEF Spec

\* Every variable of the daemon keeps its type.
THEOREM TypeCorrect == Spec => []TypeOK
  <1>1. CoreInv => TypeOK
    BY DEF CoreInv
  <1> QED
    BY <1>1, CoreInvariant, PTL

\* No DS_ASSERT of thread-registry.cpp fails, whatever threads, pools and
\* configurations the daemon meets.
THEOREM AssertionsAlwaysHold == Spec => []AssertionsHold
  <1>1. CoreInv => AssertionsHold
    BY DEF CoreInv
  <1> QED
    BY <1>1, CoreInvariant, PTL

\* At most one thread is between its creation and SUCCESS, and while it is
\* the main thread waits for it (ThreadPoolWatcher::inform).
THEOREM OneThreadStarts == Spec => []HandshakeInv
  <1>1. CoreInv => HandshakeInv
    BY DEF CoreInv
  <1> QED
    BY <1>1, CoreInvariant, PTL

\* supersede restarts exactly the pools that the new configuration changes
\* (DriveshaftConfig::compare), whatever two files were loaded.
THEOREM CompareAlwaysExact == Spec => []CompareIsExact
  <1>1. CoreInv => CompareIsExact
    BY CompareExact DEF CoreInv, TypeOK, MainTypeOK, CompareIsExact
  <1> QED
    BY <1>1, CoreInvariant, PTL

-----------------------------------------------------------------------------
(***************************************************************************)
(* Nobody waits in vain: what the liveness properties rest on.             *)
(***************************************************************************)
AdvanceInv == CoreInv /\ WakeupInv /\ PromiseInv

\* The statics of the start handshake, the flags and the labels agree with
\* the places of all threads, in every reachable state.
THEOREM AdvanceInvariant == Spec => []AdvanceInv
  <1>1. Init => AdvanceInv
    BY CoreInit, WakeupInit DEF AdvanceInv, PromiseInv, Init, ThreadInit
  <1>2. AdvanceInv /\ [Next]_vars => AdvanceInv'
    <2>1. ASSUME AdvanceInv, Next PROVE AdvanceInv'
      BY <2>1, CoreCounts, CoreStep, WakeupStep, PromiseStep DEF AdvanceInv
    <2>2. ASSUME AdvanceInv, UNCHANGED vars PROVE AdvanceInv'
      <3>1. CoreInv'
        BY <2>2, CoreNext DEF AdvanceInv
      <3>2. WakeupInv' /\ PromiseInv'
        BY <2>2 DEF vars, workerVars, registryVars, threadVars, startVars, mainVars,
           AdvanceInv, WakeupInv, PromiseInv
      <3> QED
        BY <3>1, <3>2 DEF AdvanceInv
    <2> QED
      BY <2>1, <2>2
  <1> QED
    BY <1>1, <1>2, PTL DEF Spec

\* The main thread and the thread it starts never wait for each other, and no
\* notification is lost (ThreadPoolWatcher::inform, gearman_thread_delegate).
THEOREM HandshakeNeverDeadlocks == Spec => []HandshakeNeverStuck
  <1>1. AdvanceInv => HandshakeNeverStuck
    BY WakeupNeverStuck DEF AdvanceInv
  <1> QED
    BY <1>1, AdvanceInvariant, PTL

\* After a signal the main thread moves down an order without infinite
\* descent until the process ends (MainLoop::run, doShutdown, supersede).
THEOREM SignalBringsTheEndNearer == Spec => SignalledMainAdvances
  <1> DEFINE Step == shutdown_type # "NO" /\ process' = "running" =>
                       \/ nearer
                       \/ /\ ~MainStep /\ ~AwaitSpurious
                          /\ UNCHANGED <<stage, todo, informLeft, toNotify, s_new_thread_cond>>
  <1>1. AdvanceInv /\ [Next]_vars => [Step]_vars
    <2> SUFFICES ASSUME AdvanceInv, Next, shutdown_type # "NO", process' = "running",
                        ~UNCHANGED vars
                 PROVE  Step
      OBVIOUS
    <2>1. CoreInv /\ CountsNat
      BY CoreCounts DEF AdvanceInv
    <2>2. ~Ended
      BY DEF Ended
    <2> HIDE DEF Step
    <2>3. CASE MainStep \/ AwaitSpurious
      BY <2>1, <2>3, SignalledMain DEF Step
    <2>4. CASE Signal \/ \E t \in Tids : Worker(t)
      BY <2>1, <2>4, SignalledOthers DEF Step
    <2> QED
      BY <2>2, <2>3, <2>4 DEF Next
  <1> QED
    BY <1>1, AdvanceInvariant, PTL DEF Spec, SignalledMainAdvances

\* A thread that was told to stop takes at most six more steps before it
\* unregisters, and nobody takes it back (ThreadLoop::run, sendShutdown).
THEOREM FlaggedThreadsLeaveInTime == Spec => FlaggedThreadAdvances
  <1> DEFINE Step == \A t \in Tids :
                       registered(t) /\ ~mayTakeWork(t) /\ process' = "running" =>
                         \/ ~registered(t)'
                         \/ /\ ~mayTakeWork(t)'
                            /\ stepsLeft(t)' <= stepsLeft(t)
                            /\ WorkerStep(t) => stepsLeft(t)' < stepsLeft(t)
  <1>1. AdvanceInv /\ [Next]_vars => [Step]_vars
    BY FlaggedStep DEF AdvanceInv, flaggedOn
  <1> QED
    BY <1>1, AdvanceInvariant, PTL DEF Spec, FlaggedThreadAdvances

-----------------------------------------------------------------------------
(***************************************************************************)
(* A pool never grows beyond its worker_count.                             *)
(***************************************************************************)

\* Of all steps, only registerThread makes a pool larger, and by one.
LEMMA PoolGrows ==
  ASSUME CoreInv, Next, NEW p \in Pools
  PROVE  \/ poolCount(p)' <= poolCount(p)
         \/ \E t \in Tids : /\ ThreadLoopRegister(t)
                            /\ UNCHANGED mainVars
                            /\ thread_args[t].pool = p
                            /\ poolCount(p)' = poolCount(p) + 1
  <1>0. /\ IsFiniteSet(m_registry_store[p]) /\ poolCount(p) \in Nat
        /\ m_registry_store \in [Pools -> SUBSET Tids]
    BY PoolFinite DEF CoreInv, TypeOK, RegistryTypeOK
  <1>1. ASSUME m_registry_store' = m_registry_store
        PROVE  poolCount(p)' <= poolCount(p)
    BY <1>0, <1>1 DEF poolCount
  <1>2. CASE MainStep \/ AwaitSpurious \/ Signal \/ Ended
    <2>1. m_registry_store' = m_registry_store
      BY <1>2 DEF MainStep, AwaitSpurious, Signal, Ended, SwitchShutdown, LoadConfig,
         LoadConfigThrows, BeginTurnOn, FinishSupersede, SleepDone, FinishClearAll,
         DrainDone, InformPool, InformStop, sendShutdown, InformSpawn, InformSpawnThrows,
         AwaitNotified, AwaitAgain, WaitReturns, vars, workerVars, registryVars
    <2> QED
      BY <1>1, <2>1
  <1>3. ASSUME NEW t \in Tids, Worker(t), ~ThreadLoopRegister(t), ~ThreadLoopUnregister(t)
        PROVE  poolCount(p)' <= poolCount(p)
    <2>1. m_registry_store' = m_registry_store
      BY <1>3 DEF Worker, WorkerStep, ClientStep, DelegateConstruct, DelegateConstructThrows,
         ThreadLoopReady, DelegateNotify, RunCheckForce, RunCheckFlag, ClientIdles,
         ClientTakesJob, ClientEndsJob, ClientJobDone, ClientThrows,
         ClientTerminates, ThreadEnd,
         setThreadState, registryVars
    <2> QED
      BY <1>1, <2>1
  <1>4. ASSUME NEW t \in Tids, ThreadLoopUnregister(t)
        PROVE  poolCount(p)' <= poolCount(p)
    <2>1. \/ m_registry_store'[p] = m_registry_store[p] \ {t}
          \/ m_registry_store'[p] = m_registry_store[p]
      BY <1>0, <1>4 DEF ThreadLoopUnregister, unregisterThread
    <2>2. /\ Cardinality(m_registry_store[p]) \in Nat
          /\ Cardinality(m_registry_store[p] \ {t}) <= Cardinality(m_registry_store[p])
      <3>1. Cardinality(m_registry_store[p] \ {t}) =
              IF t \in m_registry_store[p]
              THEN Cardinality(m_registry_store[p]) - 1 ELSE Cardinality(m_registry_store[p])
        BY <1>0, FS_RemoveElement
      <3> QED
        BY <1>0, <3>1 DEF poolCount
    <2>3. Cardinality(m_registry_store'[p]) <= Cardinality(m_registry_store[p])
      BY <2>1, <2>2
    <2> QED
      BY <2>3 DEF poolCount
  <1>5. ASSUME NEW t \in Tids, Worker(t), ThreadLoopRegister(t)
        PROVE  \/ poolCount(p)' <= poolCount(p)
               \/ /\ UNCHANGED mainVars
                  /\ thread_args[t].pool = p
                  /\ poolCount(p)' = poolCount(p) + 1
    <2>1. m_registry_store' = [m_registry_store EXCEPT ![thread_args[t].pool] = @ \cup {t}]
      BY <1>5 DEF ThreadLoopRegister, registerThread
    <2>2. CASE thread_args[t].pool = p
      <3>1. m_registry_store'[p] = m_registry_store[p] \cup {t}
        BY <1>0, <2>1, <2>2
      <3>2. poolCount(p)' = poolCount(p) \/ poolCount(p)' = poolCount(p) + 1
        BY <1>0, <3>1, FS_AddElement DEF poolCount
      <3> QED
        BY <1>0, <1>5, <2>2, <3>2 DEF Worker
    <2>3. CASE thread_args[t].pool # p
      <3>1. m_registry_store'[p] = m_registry_store[p]
        BY <1>0, <2>1, <2>3
      <3> QED
        BY <1>0, <3>1 DEF poolCount
    <2> QED
      BY <2>2, <2>3
  <1> QED
    BY <1>2, <1>3, <1>4, <1>5 DEF Next

\* The daemon starts no thread before it has counted its pool.
LEMMA StartCountInit == Init => StartCountInv
  BY DEF Init, MainInit, StartCountInv

\* While inform starts threads, those it has yet to start fit in the pool.
LEMMA StartCountNext ==
  ASSUME CoreInv, CoreInv', StartCountInv, Next
  PROVE  StartCountInv'
  <1> DEFINE p == inform.args.pool
             unregistered == \E t \in Tids : thread_pc[t] \in {"spawned", "constructed"}
  <1>0. /\ inform.num_workers \in Nat
        /\ inform.config_worker_count \in Nat
        /\ main_pc \in {"start", "await"} => p \in Pools /\ inform.num_workers > 0
        /\ thread_pc \in [Tids -> ThreadPlaces]
    BY DEF CoreInv, TypeOK, MainTypeOK, ThreadTypeOK, InformInv, ThreadArgs
  <1>1. ASSUME p \in Pools
        PROVE  poolCount(p) \in Nat /\ Cardinality(m_registry_store'[p]) \in Nat
    BY <1>1, TidsAssumption, FS_Subset, FS_CardinalityType
    DEF CoreInv, TypeOK, RegistryTypeOK, poolCount
  <1>2. ASSUME UNCHANGED mainVars, unregistered' <=> unregistered, p \in Pools,
               poolCount(p)' <= poolCount(p)
        PROVE  StartCountInv'
    BY <1>0, <1>1, <1>2 DEF StartCountInv, mainVars, poolCount
  <1>3. CASE main_pc' \notin {"start", "await"}
    BY <1>3 DEF StartCountInv
  <1>4. ASSUME NEW t \in Tids, Worker(t), main_pc' \in {"start", "await"}
        PROVE  StartCountInv'
    <2>0. UNCHANGED mainVars /\ p \in Pools
      BY <1>0, <1>4 DEF Worker, mainVars
    <2>00. IsFiniteSet(m_registry_store[p]) /\ Cardinality(m_registry_store[p]) \in Nat
      BY <2>0, PoolFinite DEF CoreInv, TypeOK, poolCount
    <2>1. CASE ThreadLoopRegister(t)
      <3>1. /\ thread_pc[t] = "constructed"
            /\ thread_pc' = [thread_pc EXCEPT ![t] = "registered"]
        BY <2>1 DEF ThreadLoopRegister, Goto
      <3>2. /\ main_pc = "await" /\ unregistered
            /\ thread_args[t].pool = p
            /\ \A u \in Tids : u # t => thread_pc[u] \notin {"spawned", "constructed"}
        BY <3>1 DEF CoreInv, HandshakeInv, Starting
      <3>3. ~unregistered'
        BY <1>0, <3>1, <3>2
      <3>4. m_registry_store'[p] = m_registry_store[p] \cup {t}
        BY <2>0, <2>1, <3>2 DEF ThreadLoopRegister, registerThread, CoreInv, TypeOK,
           RegistryTypeOK
      <3>5. Cardinality(m_registry_store'[p]) <= poolCount(p) + 1
        <4>1. \/ Cardinality(m_registry_store[p] \cup {t}) = Cardinality(m_registry_store[p])
              \/ Cardinality(m_registry_store[p] \cup {t}) = Cardinality(m_registry_store[p]) + 1
          BY <2>00, FS_AddElement
        <4> QED
          BY <2>00, <3>4, <4>1 DEF poolCount
      <3>6. poolCount(p) + inform.num_workers <= inform.config_worker_count
        BY <3>2 DEF StartCountInv
      <3> QED
        BY <1>0, <1>1, <2>0, <3>2, <3>3, <3>5, <3>6 DEF StartCountInv, mainVars, poolCount
    <2>2. CASE ~ThreadLoopRegister(t)
      <3>1. poolCount(p)' <= poolCount(p)
        <4>1. UNCHANGED m_registry_store \/ ThreadLoopUnregister(t)
          BY <1>4, <2>2 DEF Worker, WorkerStep, ClientStep, DelegateConstruct, DelegateConstructThrows,
             ThreadLoopReady, DelegateNotify, RunCheckForce, RunCheckFlag, ClientIdles,
             ClientTakesJob, ClientEndsJob, ClientJobDone, ClientThrows,
         ClientTerminates, ThreadEnd,
             setThreadState, registryVars
        <4>2. p' = p
          BY <2>0 DEF mainVars
        <4>3. \/ m_registry_store'[p] = m_registry_store[p] \ {t}
              \/ m_registry_store'[p] = m_registry_store[p]
          BY <2>0, <4>1 DEF ThreadLoopUnregister, unregisterThread, CoreInv, TypeOK,
             RegistryTypeOK
        <4>4. \/ Cardinality(m_registry_store[p] \ {t}) = Cardinality(m_registry_store[p])
              \/ Cardinality(m_registry_store[p] \ {t}) = Cardinality(m_registry_store[p]) - 1
          BY <2>00, FS_RemoveElement
        <4>5. \/ Cardinality(m_registry_store'[p]) = Cardinality(m_registry_store[p] \ {t})
              \/ Cardinality(m_registry_store'[p]) = Cardinality(m_registry_store[p])
          BY <4>3, Zenon
        <4>6. Cardinality(m_registry_store'[p]) <= Cardinality(m_registry_store[p])
          BY <2>00, <4>4, <4>5
        <4> QED
          BY <4>2, <4>6 DEF poolCount
      <3>2. unregistered' <=> unregistered
        BY <1>0, <1>4, <2>2 DEF Worker, WorkerStep, ClientStep, DelegateConstruct,
           DelegateConstructThrows, ThreadLoopReady, DelegateNotify, RunCheckForce,
           RunCheckFlag, ClientIdles, ClientTakesJob, ClientEndsJob, ClientJobDone,
           ClientThrows, ClientTerminates, ThreadLoopUnregister, ThreadEnd, Goto, threadVars
      <3> QED
        BY <1>2, <2>0, <3>1, <3>2
    <2> QED
      BY <2>1, <2>2
  <1>5. ASSUME Signal \/ AwaitAgain \/ Ended \/ LoadConfigThrows \/ InformSpawnThrows
                 \/ DrainDone,
               main_pc' \in {"start", "await"}
        PROVE  StartCountInv'
    BY <1>5 DEF Signal, AwaitAgain, Ended, LoadConfigThrows, InformSpawnThrows, DrainDone,
       vars, workerVars, registryVars, threadVars, mainVars, StartCountInv, poolCount
  <1>6. ASSUME NEW q \in Pools, InformPool(q), main_pc' \in {"start", "await"}
        PROVE  StartCountInv'
    <2>1. q \in PoolNames(IF loop = "turn_on" THEN new_config ELSE m_config)
      BY <1>6 DEF InformPool, CoreInv, InformInv
    <2>2. informedArgs(q).pool = q /\ informedCount(q) \in Nat
      BY <2>1, ThreadArgsType DEF informedArgs, informedCount, CoreInv, TypeOK, MainTypeOK
    <2>3. /\ main_pc' = "start"
          /\ inform' = [args |-> informedArgs(q), config_worker_count |-> informedCount(q),
                        num_workers |-> informedCount(q) - poolCount(q)]
          /\ m_registry_store' = m_registry_store
      BY <1>6 DEF InformPool, At, workerVars, registryVars
    <2>4. poolCount(q) \in Nat
      BY PoolFinite DEF CoreInv, TypeOK
    <2>5. /\ inform'.args.pool = q
          /\ inform'.config_worker_count = informedCount(q)
          /\ inform'.num_workers = informedCount(q) - poolCount(q)
      BY <2>2, <2>3
    <2>6. poolCount(q) + inform'.num_workers <= inform'.config_worker_count
      BY <2>2, <2>4, <2>5
    <2>7. poolCount(inform.args.pool)' = poolCount(q)
      BY <2>3, <2>5 DEF poolCount
    <2> QED
      BY <2>3, <2>6, <2>7 DEF StartCountInv
  <1>7. CASE InformSpawn
    <2>1. main_pc = "start" /\ main_pc' = "await" /\ UNCHANGED <<inform, m_registry_store>>
      BY <1>7 DEF InformSpawn, At, registryVars
    <2>2. unregistered'
      BY <1>0, <1>7 DEF InformSpawn
    <2> QED
      BY <2>1, <2>2 DEF StartCountInv, poolCount
  <1>8. ASSUME AwaitNotified \/ AwaitSpurious, main_pc' \in {"start", "await"}
        PROVE  StartCountInv'
    <2>1. /\ main_pc = "await" /\ main_pc' = "start"
          /\ inform' = [inform EXCEPT !.num_workers = @ - 1]
          /\ UNCHANGED m_registry_store
          /\ s_new_thread_wakeup # "INIT"
      BY <1>8 DEF AwaitNotified, AwaitSpurious, At, WaitReturns, registryVars
    <2>2. ~unregistered
      BY <2>1 DEF CoreInv, HandshakeInv, Starting
    <2>3. poolCount(p) + inform.num_workers <= inform.config_worker_count + 1
      BY <2>1, <2>2 DEF StartCountInv
    <2>4. /\ inform'.args = inform.args
          /\ inform'.config_worker_count = inform.config_worker_count
          /\ inform'.num_workers = inform.num_workers - 1
      BY <2>1 DEF CoreInv, TypeOK, MainTypeOK
    <2> QED
      BY <1>0, <1>1, <2>1, <2>3, <2>4 DEF StartCountInv, poolCount
  <1>9. CASE SwitchShutdown \/ LoadConfig \/ BeginTurnOn \/ FinishSupersede \/ SleepDone
               \/ FinishClearAll \/ InformStop
    BY <1>3, <1>9 DEF SwitchShutdown, LoadConfig, BeginTurnOn, FinishSupersede, SleepDone,
       FinishClearAll, InformStop, At
  <1> QED
    BY <1>3, <1>4, <1>5, <1>6, <1>7, <1>8, <1>9 DEF Next, MainStep

\* Registering takes a pool at most to its worker_count in the configuration
\* being put in force (ThreadPoolWatcher::inform, ThreadLoop::ThreadLoop).
THEOREM PoolsStartWithinCount == Spec => StartsWithinWorkerCount
  <1> DEFINE Inv == CoreInv /\ StartCountInv
             Step == \A p \in Pools :
                       poolCount(p)' > poolCount(p) =>
                         /\ p \in PoolNames(new_config)
                         /\ poolCount(p)' <= new_config.m_pool_map[p].worker_count
  <1>1. Init => Inv
    BY CoreInit, StartCountInit
  <1>2. Inv /\ [Next]_vars => Inv'
    <2>1. ASSUME Inv, Next PROVE Inv'
      BY <2>1, CoreNext, StartCountNext
    <2>2. ASSUME Inv, UNCHANGED vars PROVE Inv'
      <3>1. CoreInv'
        BY <2>2, CoreNext
      <3>2. StartCountInv'
        BY <2>2 DEF vars, workerVars, registryVars, threadVars, mainVars, StartCountInv,
           poolCount
      <3> QED
        BY <3>1, <3>2
    <2> QED
      BY <2>1, <2>2
  <1>3. Inv /\ [Next]_vars => [Step]_vars
    <2> SUFFICES ASSUME Inv, Next, NEW p \in Pools, poolCount(p)' > poolCount(p)
                 PROVE  /\ p \in PoolNames(new_config)
                        /\ poolCount(p)' <= new_config.m_pool_map[p].worker_count
      OBVIOUS
    <2>1. poolCount(p) \in Nat /\ Cardinality(m_registry_store'[p]) \in Nat
      BY CoreNext, TidsAssumption, FS_Subset, FS_CardinalityType
      DEF CoreInv, TypeOK, RegistryTypeOK, poolCount
    <2>2. PICK t \in Tids : /\ ThreadLoopRegister(t)
                            /\ thread_args[t].pool = p
                            /\ poolCount(p)' = poolCount(p) + 1
      BY <2>1, PoolGrows DEF poolCount
    <2>3. thread_pc[t] = "constructed"
      BY <2>2 DEF ThreadLoopRegister, Goto
    <2>4. /\ main_pc = "await"
          /\ inform.args.pool = p
      BY <2>2, <2>3 DEF CoreInv, HandshakeInv, Starting
    <2>5. poolCount(p) + inform.num_workers <= inform.config_worker_count
      BY <2>3, <2>4 DEF StartCountInv
    <2>6. /\ p \in PoolNames(new_config)
          /\ inform.config_worker_count = new_config.m_pool_map[p].worker_count
          /\ inform.num_workers \in Nat /\ inform.num_workers > 0
          /\ inform.config_worker_count \in Nat
      BY <2>4 DEF CoreInv, InformInv, TypeOK, MainTypeOK
    <2> QED
      BY <2>1, <2>2, <2>5, <2>6
  <1> QED
    BY <1>1, <1>2, <1>3, PTL DEF Spec, StartsWithinWorkerCount

-----------------------------------------------------------------------------
(***************************************************************************)
(* A reload leaves no outdated thread at work.                             *)
(***************************************************************************)

\* When inform stops as many threads as the pool had when it was counted,
\* sendShutdown leaves no thread of the pool unflagged.
LEMMA SendShutdownAll ==
  ASSUME RegistryTypeOK, NEW p \in Pools, NEW n \in Nat, sendShutdown(p, n),
         poolCount(p) <= n,
         NEW u \in m_registry_store[p], u \in DOMAIN m_thread_map
  PROVE  m_thread_map'[u].should_shutdown
  <1>1. PICK S \in SUBSET unflagged(p) :
          /\ Cardinality(S) = messagesSent(n, Cardinality(unflagged(p)))
          /\ \A v \in DOMAIN m_thread_map :
               m_thread_map'[v].should_shutdown =
                 IF v \in S THEN TRUE ELSE m_thread_map[v].should_shutdown
    BY SendShutdown
  <1>2. unflagged(p) \in SUBSET m_registry_store[p]
    BY DEF unflagged
  <1>3. IsFiniteSet(m_registry_store[p]) /\ poolCount(p) \in Nat
    BY PoolFinite
  <1>4. /\ IsFiniteSet(unflagged(p))
        /\ Cardinality(unflagged(p)) <= poolCount(p)
        /\ Cardinality(unflagged(p)) \in Nat
    BY <1>2, <1>3, FS_Subset, FS_CardinalityType DEF poolCount
  <1>5. Cardinality(S) = Cardinality(unflagged(p))
    BY <1>1, <1>3, <1>4 DEF messagesSent
  <1>6. S = unflagged(p)
    BY <1>1, <1>4, <1>5, FS_Subset
  <1>7. m_thread_map[u].should_shutdown \in BOOLEAN
    BY DEF RegistryTypeOK, ThreadData
  <1> QED
    BY <1>1, <1>6, <1>7 DEF unflagged

\* The daemon starts without threads.
LEMMA ReloadInit == Init => ReloadInv
  BY DEF Init, RegistryInit, MainInit, ReloadInv, mayTakeWork, registered

\* A step of a worker preserves the reload invariant.
LEMMA ReloadWorker ==
  ASSUME CoreInv, ReloadInv, NEW t \in Tids, Worker(t)
  PROVE  ReloadInv'
  <1>1. UNCHANGED mainVars
    BY DEF Worker
  <1>2. ASSUME NEW u \in Tids, mayTakeWork(u)'
        PROVE  /\ betweenReloads => upToDate(u, m_config)'
               /\ ~betweenReloads /\ loop = "turn_off" =>
                    upToDate(u, m_config)' /\ (upToDate(u, new_config)' \/ stillToStop(u)')
               /\ ~betweenReloads /\ loop = "turn_on" => upToDate(u, new_config)'
               /\ ~betweenReloads /\ loop = "clear_all" =>
                    upToDate(u, m_config)' /\ stillToStop(u)'
    <2>1. CASE mayTakeWork(u) /\ thread_args'[u] = thread_args[u]
      BY <1>1, <2>1 DEF mainVars, ReloadInv, upToDate, stillToStop
    <2>2. CASE main_pc = "await" /\ thread_args'[u] = inform.args
      BY <1>1, <2>2 DEF mainVars, upToDate, CoreInv, InformInv, betweenReloads
    <2> QED
      BY <1>2, <2>1, <2>2, WorkerKeepsFlags
  <1>3. ASSUME main_pc = "stop", loop # "turn_on"
        PROVE  poolCount(inform.args.pool)' <= inform.num_workers
    <2> DEFINE p == inform.args.pool
    <2>1. p \in Pools /\ p' = p /\ inform.num_workers \in Nat
      BY <1>1, <1>3 DEF mainVars, CoreInv, InformInv, ThreadArgs, TypeOK, MainTypeOK
    <2>2. \A v \in Tids : ~ThreadLoopRegister(v)
      BY <1>3 DEF ThreadLoopRegister, Goto, CoreInv, HandshakeInv, Starting
    <2>3. Next
      BY DEF Next
    <2>4. Cardinality(m_registry_store'[p]) <= Cardinality(m_registry_store[p])
      BY <2>1, <2>2, <2>3, PoolGrows DEF poolCount
    <2>5. Cardinality(m_registry_store[p]) <= inform.num_workers
      BY <1>3 DEF ReloadInv, poolCount
    <2>6. /\ Cardinality(m_registry_store[p]) \in Nat
          /\ Cardinality(m_registry_store'[p]) \in Nat
      BY <2>1, CoreWorker, TidsAssumption, FS_Subset, FS_CardinalityType
      DEF CoreInv, TypeOK, RegistryTypeOK
    <2>7. Cardinality(m_registry_store'[p]) <= inform.num_workers
      BY <2>1, <2>4, <2>5, <2>6
    <2> QED
      BY <2>1, <2>7 DEF poolCount
  <1> QED
    BY <1>1, <1>2, <1>3 DEF ReloadInv, mainVars, betweenReloads

\* So does a step of the main thread.
LEMMA ReloadMain ==
  ASSUME CoreInv, ReloadInv, MainStep \/ AwaitSpurious \/ Signal \/ Ended
  PROVE  ReloadInv'
  <1> USE DEF At, betweenReloads
  <1>1. CASE \/ Signal \/ Ended \/ AwaitAgain \/ LoadConfigThrows \/ InformSpawnThrows
             \/ DrainDone \/ SleepDone
    BY <1>1 DEF Signal, Ended, AwaitAgain, LoadConfigThrows, InformSpawnThrows, DrainDone,
       SleepDone, vars, workerVars, registryVars, threadVars, mainVars, ReloadInv,
       mayTakeWork, registered, upToDate, stillToStop, poolCount
  <1>2. CASE SwitchShutdown
    BY <1>2 DEF SwitchShutdown, registryVars, threadVars, ReloadInv, mayTakeWork,
       registered, upToDate, stillToStop
  <1>3. CASE LoadConfig
    <2>1. PICK f \in Files :
            /\ ~loadThrows(f)
            /\ new_config' = load(f)
            /\ todo' = compare(m_config, load(f)).turn_off
      BY <1>3 DEF LoadConfig
    <2>2. IsConfig(new_config') /\ IsConfig(m_config)
      BY <2>1, LoadYieldsConfig DEF CoreInv, TypeOK, MainTypeOK
    <2>3. /\ main_pc = "switch" /\ main_pc' = "pools" /\ loop' = "turn_off"
          /\ UNCHANGED <<m_thread_map, thread_args, m_config>>
      BY <1>3 DEF LoadConfig, workerVars, registryVars, threadVars
    <2>4. ASSUME NEW u \in Tids, mayTakeWork(u)
          PROVE  /\ upToDate(u, m_config)
                 /\ \/ thread_args[u].pool \in todo'
                    \/ upToDate(u, new_config')
      <3>1. upToDate(u, m_config)
        BY <2>3, <2>4 DEF ReloadInv
      <3>2. thread_args[u].pool \notin todo' =>
              /\ thread_args[u].pool \in PoolNames(new_config')
              /\ threadArgs(m_config, thread_args[u].pool)
                   = threadArgs(new_config', thread_args[u].pool)
        BY <2>1, <2>2, <3>1, CompareTurnsOff DEF upToDate
      <3> QED
        BY <3>1, <3>2 DEF upToDate
    <2> QED
      BY <2>3, <2>4 DEF ReloadInv, mayTakeWork, registered, upToDate, stillToStop
  <1>4. CASE BeginTurnOn \/ FinishSupersede \/ FinishClearAll
    BY <1>4 DEF BeginTurnOn, FinishSupersede, FinishClearAll, workerVars, registryVars,
       threadVars, ReloadInv, mayTakeWork, registered, upToDate, stillToStop
  <1>5. ASSUME NEW p \in Pools, InformPool(p)
        PROVE  ReloadInv'
    <2>1. /\ main_pc = "pools" /\ main_pc' \in {"pools", "stop", "start"}
          /\ todo' = todo \ {p}
          /\ UNCHANGED <<m_thread_map, m_registry_store, thread_args, loop, new_config>>
      BY <1>5 DEF InformPool, workerVars, registryVars, threadVars
    <2>2. CASE loop = "turn_on"
      BY <2>1, <2>2 DEF ReloadInv, mayTakeWork, registered, upToDate
    <2>3. CASE loop # "turn_on"
      <3>1. p \in PoolNames(m_config) /\ IsConfig(m_config)
        BY <1>5, <2>3 DEF InformPool, CoreInv, InformInv, TypeOK, MainTypeOK
      <3>2. m_config' = zeroWorkerCount(m_config, p)
        BY <1>5, <2>3 DEF InformPool
      <3>3. \A u \in Tids : upToDate(u, m_config) => upToDate(u, m_config)'
        BY <2>1, <3>1, <3>2, ZeroWorkerCount DEF upToDate
      <3>4. IsFiniteSet(m_registry_store[p]) /\ poolCount(p) \in Nat
        BY PoolFinite DEF CoreInv, TypeOK
      <3>5. \/ /\ main_pc' = "stop"
               /\ inform' = [args |-> threadArgs(m_config, p), config_worker_count |-> 0,
                             num_workers |-> poolCount(p) - 0]
            \/ main_pc' = "pools" /\ poolCount(p) = 0
        BY <1>5, <2>3, <3>4 DEF InformPool, informedCount, informedArgs
      <3>6. main_pc' = "stop" => /\ inform'.args.pool = p
                                 /\ inform'.num_workers = poolCount(p)
        BY <3>1, <3>4, <3>5, ThreadArgsType
      <3>7. ASSUME NEW u \in Tids, mayTakeWork(u), thread_args[u].pool = p
            PROVE  main_pc' = "stop"
        <4>1. u \in m_registry_store[p]
          BY <3>7 DEF mayTakeWork, CoreInv, RegistryInv
        <4>2. poolCount(p) # 0
          BY <3>4, <4>1, FS_EmptySet DEF poolCount
        <4> QED
          BY <3>5, <4>2
      <3>8. \A u \in Tids : mayTakeWork(u) /\ stillToStop(u) => stillToStop(u)'
        BY <2>1, <3>6, <3>7 DEF stillToStop
      <3>9. main_pc' = "stop" => poolCount(inform.args.pool)' <= inform'.num_workers
        BY <2>1, <3>4, <3>6 DEF poolCount
      <3>10. \A u \in Tids : mayTakeWork(u)' => mayTakeWork(u)
        BY <2>1 DEF mayTakeWork, registered
      <3>11. \A u \in Tids : upToDate(u, new_config) => upToDate(u, new_config)'
        BY <2>1 DEF upToDate
      <3> QED
        BY <2>1, <2>3, <3>3, <3>8, <3>9, <3>10, <3>11 DEF ReloadInv
    <2> QED
      BY <2>2, <2>3
  <1>6. CASE InformStop
    <2> DEFINE p == inform.args.pool
    <2>1. /\ p \in Pools
          /\ inform.num_workers \in Nat
          /\ sendShutdown(p, inform.num_workers)
          /\ RegistryTypeOK
      BY <1>6 DEF InformStop, CoreInv, InformInv, ThreadArgs, TypeOK, MainTypeOK
    <2>2. /\ main_pc = "stop" /\ main_pc' = "pools"
          /\ UNCHANGED <<thread_args, loop, todo, m_config, new_config>>
      BY <1>6 DEF InformStop, threadVars
    <2>3. ASSUME NEW u \in Tids, mayTakeWork(u)'
          PROVE  mayTakeWork(u)
      <3>1. /\ DOMAIN m_thread_map' = DOMAIN m_thread_map
            /\ \E S \in SUBSET unflagged(p) : \A v \in DOMAIN m_thread_map :
                 m_thread_map'[v].should_shutdown =
                   IF v \in S THEN TRUE ELSE m_thread_map[v].should_shutdown
        BY <2>1, SendShutdown
      <3> QED
        BY <2>3, <3>1 DEF mayTakeWork, registered
    <2>4. ASSUME NEW u \in Tids, mayTakeWork(u)', loop # "turn_on"
          PROVE  thread_args[u].pool # p
      <3>1. SUFFICES ASSUME thread_args[u].pool = p PROVE FALSE
        OBVIOUS
      <3>2. mayTakeWork(u)
        BY <2>3, <2>4
      <3>3. u \in m_registry_store[p] /\ u \in DOMAIN m_thread_map
        BY <2>1, <3>1, <3>2 DEF mayTakeWork, registered, CoreInv, RegistryInv
      <3>4. poolCount(p) <= inform.num_workers
        BY <2>2, <2>4 DEF ReloadInv
      <3>5. m_thread_map'[u].should_shutdown
        BY <2>1, <3>3, <3>4, SendShutdownAll
      <3> QED
        BY <2>4, <3>5 DEF mayTakeWork
    <2> QED
      BY <2>2, <2>3, <2>4 DEF ReloadInv, upToDate, stillToStop
  <1>7. CASE InformSpawn
    <2>1. /\ main_pc = "start" /\ main_pc' = "await"
          /\ UNCHANGED <<m_thread_map, loop, new_config>>
      BY <1>7 DEF InformSpawn, registryVars
    <2>2. loop = "turn_on"
      BY <2>1 DEF CoreInv, InformInv
    <2>3. ASSUME NEW u \in Tids, mayTakeWork(u)
          PROVE  thread_args'[u] = thread_args[u]
      BY <1>7, <2>3 DEF InformSpawn, mayTakeWork, CoreInv, RegistryInv, RegisteredAt,
         TypeOK, ThreadTypeOK
    <2> QED
      BY <2>1, <2>2, <2>3 DEF ReloadInv, mayTakeWork, registered, upToDate
  <1>8. CASE AwaitNotified \/ AwaitSpurious
    BY <1>8 DEF AwaitNotified, AwaitSpurious, WaitReturns, registryVars, threadVars,
       ReloadInv, mayTakeWork, registered, upToDate, CoreInv, InformInv
  <1> QED
    BY <1>1, <1>2, <1>3, <1>4, <1>5, <1>6, <1>7, <1>8 DEF MainStep

\* In the middle of a reload every thread at work is up to date or about to
\* be told to stop.
THEOREM ReloadInvariant == Spec => [](CoreInv /\ ReloadInv)
  <1>1. Init => CoreInv /\ ReloadInv
    BY CoreInit, ReloadInit
  <1>2. CoreInv /\ ReloadInv /\ [Next]_vars => CoreInv' /\ ReloadInv'
    <2>1. ASSUME CoreInv, ReloadInv, Next PROVE ReloadInv'
      BY <2>1, ReloadWorker, ReloadMain DEF Next
    <2>2. ASSUME ReloadInv, UNCHANGED vars PROVE ReloadInv'
      BY <2>2 DEF vars, workerVars, registryVars, threadVars, mainVars, ReloadInv,
         mayTakeWork, registered, upToDate, stillToStop, poolCount, betweenReloads
    <2> QED
      BY <2>1, <2>2, CoreNext
  <1> QED
    BY <1>1, <1>2, PTL DEF Spec

\* Between two reloads no thread that may take work serves an outdated
\* configuration (DriveshaftConfig::supersede, ThreadPoolWatcher::inform).
THEOREM LiveThreadsAlwaysMatch == Spec => []LiveThreadsMatchConfig
  <1>1. CoreInv /\ ReloadInv => LiveThreadsMatchConfig
    BY DEF ReloadInv, LiveThreadsMatchConfig
  <1> QED
    BY <1>1, ReloadInvariant, PTL

\* When doShutdown starts to wait, every thread that is not past its loop was
\* told to stop (MainLoop::doShutdown, clearAllWorkerCounts).
THEOREM DrainAlwaysReaches == Spec => []DrainReachesEveryThread
  <1>1. CoreInv /\ ReloadInv => DrainReachesEveryThread
    <2> SUFFICES ASSUME CoreInv, ReloadInv, main_pc = "drain", NEW t \in Tids,
                        thread_pc[t] \notin {"none", "ending"}
                 PROVE  registered(t) /\ m_thread_map[t].should_shutdown
      BY DEF DrainReachesEveryThread
    <2>1. loop = "clear_all" /\ todo = {}
      BY DEF CoreInv, InformInv
    <2>2. thread_pc[t] \notin Starting
      BY DEF CoreInv, HandshakeInv
    <2>3. thread_pc[t] \in RegisteredAt
      BY <2>2 DEF CoreInv, TypeOK, ThreadTypeOK, ThreadPlaces, Starting, RegisteredAt
    <2>4. registered(t)
      BY <2>3 DEF CoreInv, RegistryInv
    <2>5. ~mayTakeWork(t)
      BY <2>1 DEF ReloadInv, betweenReloads, stillToStop
    <2> QED
      BY <2>4, <2>5 DEF mayTakeWork
  <1> QED
    BY <1>1, ReloadInvariant, PTL

-----------------------------------------------------------------------------
(***************************************************************************)
(* A reload stops no more threads than it must and leaves no pool with     *)
(* more live threads than worker_count.                                    *)
(***************************************************************************)

\* The live threads of a pool are counted by poolCount too.
LEMMA LiveFinite ==
  ASSUME RegistryTypeOK, NEW p \in Pools
  PROVE  /\ IsFiniteSet(unflagged(p)) /\ Cardinality(unflagged(p)) \in Nat
         /\ Cardinality(unflagged(p)) <= poolCount(p) /\ poolCount(p) \in Nat
  <1>1. IsFiniteSet(m_registry_store[p]) /\ poolCount(p) \in Nat
    BY PoolFinite
  <1>2. unflagged(p) \in SUBSET m_registry_store[p]
    BY DEF unflagged
  <1> QED
    BY <1>1, <1>2, FS_Subset, FS_CardinalityType DEF poolCount

\* A formula for it, to be used of the next state as well.
LiveBounded ==
    \A p \in Pools :
        /\ IsFiniteSet(unflagged(p)) /\ Cardinality(unflagged(p)) \in Nat
        /\ Cardinality(unflagged(p)) <= poolCount(p) /\ poolCount(p) \in Nat
        /\ unflagged(p) = {t \in Tids : mayTakeWork(t) /\ thread_args[t].pool = p}

LEMMA CoreLive == CoreInv => LiveBounded
  <1> SUFFICES ASSUME CoreInv, NEW p \in Pools
               PROVE  unflagged(p) = {t \in Tids : mayTakeWork(t) /\ thread_args[t].pool = p}
    BY LiveFinite DEF LiveBounded, CoreInv, TypeOK
  <1>1. \A t \in Tids : t \in m_registry_store[p] <=> registered(t) /\ thread_args[t].pool = p
    BY DEF CoreInv, RegistryInv
  <1>2. m_registry_store[p] \in SUBSET Tids
    BY DEF CoreInv, TypeOK, RegistryTypeOK
  <1> QED
    BY <1>1, <1>2 DEF unflagged, mayTakeWork, registered

\* What sendShutdown leaves of the live threads, given how many it was to
\* stop.
LEMMA SendShutdownCount ==
  ASSUME CoreInv, NEW p \in Pools, NEW n \in Nat, n > 0, sendShutdown(p, n)
  PROVE  /\ \A q \in Pools : unflagged(q)' \subseteq unflagged(q)
         /\ Cardinality(unflagged(p) \ unflagged(p)') <= n
         /\ \A k \in Nat : poolCount(p) <= k + n => Cardinality(unflagged(p)') <= k
  <1>0. RegistryTypeOK
    BY DEF CoreInv, TypeOK
  <1>1. PICK S \in SUBSET unflagged(p) :
          /\ Cardinality(S) = messagesSent(n, Cardinality(unflagged(p)))
          /\ \A u \in DOMAIN m_thread_map :
               m_thread_map'[u].should_shutdown =
                 IF u \in S THEN TRUE ELSE m_thread_map[u].should_shutdown
    BY <1>0, SendShutdown
  <1>2. DOMAIN m_thread_map' = DOMAIN m_thread_map /\ m_registry_store' = m_registry_store
    BY <1>0, SendShutdown
  <1>3. \A q \in Pools : unflagged(q)' \subseteq unflagged(q)
    BY <1>1, <1>2 DEF unflagged
  <1>4. unflagged(p)' = unflagged(p) \ S
    BY <1>1, <1>2 DEF unflagged
  <1>5. unflagged(p) \ unflagged(p)' = S
    BY <1>1, <1>4
  <1>6. /\ IsFiniteSet(unflagged(p)) /\ Cardinality(unflagged(p)) \in Nat
        /\ Cardinality(unflagged(p)) <= poolCount(p) /\ poolCount(p) \in Nat
    BY <1>0, LiveFinite
  <1>7. Cardinality(unflagged(p) \ S) = Cardinality(unflagged(p)) - Cardinality(S)
    <2>1. unflagged(p) \cap S = S
      BY <1>1
    <2>2. Cardinality(unflagged(p) \ S)
            = Cardinality(unflagged(p)) - Cardinality(unflagged(p) \cap S)
      BY <1>6, FS_Difference
    <2> QED
      BY <2>1, <2>2
  <1>8. \/ n > Cardinality(unflagged(p)) /\ Cardinality(S) = Cardinality(unflagged(p))
        \/ n <= Cardinality(unflagged(p)) /\ Cardinality(S) = n
    BY <1>1, <1>6 DEF messagesSent
  <1>9. Cardinality(S) <= n
    BY <1>6, <1>8
  <1>10. ASSUME NEW k \in Nat, poolCount(p) <= k + n
         PROVE  Cardinality(unflagged(p)') <= k
    BY <1>4, <1>6, <1>7, <1>8, <1>10
  <1> QED
    BY <1>3, <1>5, <1>9, <1>10

\* Never more threads are stopped than inform counted above worker_count
\* (ThreadPoolWatcher::inform, ThreadRegistry::sendShutdown).
THEOREM ExcessOnlyStopped == Spec => StopsOnlyTheExcess
  <1> DEFINE Step == \A p \in Pools :
                       /\ At("stop") /\ main_pc' = "pools"
                       /\ p = inform.args.pool
                       => Cardinality(unflagged(p) \ unflagged(p)') <= inform.num_workers
  <1>1. CoreInv /\ [Next]_vars => [Step]_vars
    <2> SUFFICES ASSUME CoreInv, Next, NEW p \in Pools, At("stop"), main_pc' = "pools",
                        p = inform.args.pool
                 PROVE  Cardinality(unflagged(p) \ unflagged(p)') <= inform.num_workers
      OBVIOUS
    <2>1. InformStop
      BY DEF Next, MainStep, AwaitSpurious, Signal, Worker, Ended, SwitchShutdown, LoadConfig,
         LoadConfigThrows, BeginTurnOn, FinishSupersede, SleepDone, FinishClearAll, DrainDone,
         InformPool, InformSpawn, InformSpawnThrows, AwaitNotified, AwaitAgain, At, vars, mainVars
    <2>2. inform.num_workers \in Nat /\ inform.num_workers > 0
      BY DEF At, CoreInv, InformInv, TypeOK, MainTypeOK
    <2>3. sendShutdown(p, inform.num_workers)
      BY <2>1 DEF InformStop
    <2> QED
      BY <2>2, <2>3, SendShutdownCount
  <1> QED
    BY <1>1, CoreInvariant, PTL DEF Spec, StopsOnlyTheExcess

\* A worker adds a live thread only to the pool inform is starting threads of,
\* which has room for it.
LEMMA LiveCountWorker ==
  ASSUME CoreInv, CoreInv', StartCountInv', LiveCountInv, NEW t \in Tids, Worker(t)
  PROVE  LiveCountInv'
  <1>1. UNCHANGED mainVars
    BY DEF Worker
  <1>2. LiveBounded /\ LiveBounded'
    BY CoreLive, PTL
  <1>3. ASSUME NEW p \in Pools
        PROVE  \/ Cardinality(unflagged(p)') <= Cardinality(unflagged(p))
               \/ main_pc = "await" /\ p = inform.args.pool
    <2>1. SUFFICES ASSUME ~(main_pc = "await" /\ p = inform.args.pool)
                   PROVE  unflagged(p)' \subseteq unflagged(p)
      BY <1>2, FS_Subset DEF LiveBounded
    <2>2. ASSUME NEW u \in Tids, mayTakeWork(u)', thread_args'[u].pool = p
          PROVE  mayTakeWork(u) /\ thread_args[u].pool = p
      BY <2>1, <2>2, WorkerKeepsFlags
    <2> QED
      BY <1>2, <2>2 DEF LiveBounded
  <1>4. ASSUME main_pc = "await", NEW p \in Pools, p = inform.args.pool
        PROVE  /\ Cardinality(unflagged(p)') <= new_config.m_pool_map[p].worker_count
               /\ p \in PoolNames(new_config)
    <2>1. /\ p \in PoolNames(new_config) /\ inform.num_workers \in Nat /\ inform.num_workers > 0
          /\ inform.config_worker_count = new_config.m_pool_map[p].worker_count
          /\ inform.config_worker_count \in Nat
      BY <1>4 DEF CoreInv, InformInv, TypeOK, MainTypeOK
    <2>2. poolCount(p)' + inform.num_workers <= inform.config_worker_count + 1
      <3>1. main_pc' = "await" /\ inform' = inform
        BY <1>1, <1>4 DEF mainVars
      <3>2. \/ poolCount(inform.args.pool)' + inform'.num_workers <= inform'.config_worker_count
            \/ poolCount(inform.args.pool)' + inform'.num_workers
                 <= inform'.config_worker_count + 1
        BY <3>1 DEF StartCountInv
      <3>3. poolCount(inform.args.pool)' = poolCount(p)'
        BY <1>4, <3>1 DEF poolCount
      <3>4. poolCount(p)' \in Nat
        BY <1>2 DEF LiveBounded
      <3> QED
        BY <2>1, <3>1, <3>2, <3>3, <3>4
    <2>3. /\ Cardinality(unflagged(p)') \in Nat /\ poolCount(p)' \in Nat
          /\ Cardinality(unflagged(p)') <= poolCount(p)'
      BY <1>2 DEF LiveBounded
    <2> QED
      BY <2>1, <2>2, <2>3
  <1>5. LiveThreadsWithinCount'
    <2> SUFFICES ASSUME betweenReloads, NEW p \in Pools
                 PROVE  Cardinality(unflagged(p)') <= configuredCount(p)
      BY <1>1 DEF LiveThreadsWithinCount, betweenReloads, configuredCount, mainVars
    <2>1. Cardinality(unflagged(p)) <= configuredCount(p)
      BY DEF LiveCountInv, LiveThreadsWithinCount
    <2>2. configuredCount(p) \in Nat
      BY DEF configuredCount, CoreInv, TypeOK, MainTypeOK, IsConfig, PoolNames, PoolData
    <2>3. Cardinality(unflagged(p)') <= Cardinality(unflagged(p))
      BY <1>3 DEF betweenReloads
    <2>4. Cardinality(unflagged(p)) \in Nat /\ Cardinality(unflagged(p)') \in Nat
      BY <1>2 DEF LiveBounded
    <2> QED
      BY <2>1, <2>2, <2>3, <2>4
  <1>6. ASSUME ~betweenReloads, loop = "turn_on", NEW p \in PoolNames(new_config) \ todo
        PROVE  \/ Cardinality(unflagged(p)') <= new_config.m_pool_map[p].worker_count
               \/ main_pc = "stop" /\ p = inform.args.pool
    <2>1. p \in Pools /\ new_config.m_pool_map[p].worker_count \in Nat
      BY <1>6 DEF CoreInv, TypeOK, MainTypeOK, IsConfig, PoolNames, PoolData
    <2>2. \/ Cardinality(unflagged(p)) <= new_config.m_pool_map[p].worker_count
          \/ main_pc = "stop" /\ p = inform.args.pool
      BY <1>6 DEF LiveCountInv
    <2>3. Cardinality(unflagged(p)) \in Nat /\ Cardinality(unflagged(p)') \in Nat
      BY <1>2, <2>1 DEF LiveBounded
    <2> QED
      BY <1>3, <1>4, <2>1, <2>2, <2>3
  <1>7. ASSUME main_pc = "stop", loop = "turn_on"
        PROVE  poolCount(inform.args.pool)' <= inform.config_worker_count + inform.num_workers
    <2> DEFINE p == inform.args.pool
    <2>1. p \in Pools /\ p' = p /\ inform.num_workers \in Nat /\ inform.config_worker_count \in Nat
      BY <1>1, <1>7 DEF mainVars, CoreInv, InformInv, ThreadArgs, TypeOK, MainTypeOK
    <2>2. \A v \in Tids : ~ThreadLoopRegister(v)
      BY <1>7 DEF ThreadLoopRegister, Goto, CoreInv, HandshakeInv, Starting
    <2>3. Next
      BY DEF Next
    <2>4. Cardinality(m_registry_store'[p]) <= Cardinality(m_registry_store[p])
      BY <2>1, <2>2, <2>3, PoolGrows DEF poolCount
    <2>5. Cardinality(m_registry_store[p]) <= inform.config_worker_count + inform.num_workers
      BY <1>7 DEF LiveCountInv, poolCount
    <2>6. /\ Cardinality(m_registry_store[p]) \in Nat
          /\ Cardinality(m_registry_store'[p]) \in Nat
      BY <2>1, TidsAssumption, FS_Subset, FS_CardinalityType DEF CoreInv, TypeOK, RegistryTypeOK
    <2>7. Cardinality(m_registry_store'[p]) <= inform.config_worker_count + inform.num_workers
      BY <2>1, <2>4, <2>5, <2>6
    <2> QED
      BY <2>1, <2>7 DEF poolCount
  <1> QED
    BY <1>1, <1>5, <1>6, <1>7 DEF LiveCountInv, mainVars, betweenReloads

LEMMA LiveCountMain ==
  ASSUME CoreInv, ReloadInv, LiveCountInv, MainStep \/ AwaitSpurious \/ Signal \/ Ended
  PROVE  LiveCountInv'
  <1> USE DEF At, betweenReloads
  <1>0. LiveBounded
    BY CoreLive
  <1>1. CASE \/ Signal \/ Ended \/ AwaitAgain \/ LoadConfigThrows \/ InformSpawnThrows
             \/ DrainDone \/ SleepDone
    BY <1>1 DEF Signal, Ended, AwaitAgain, LoadConfigThrows, InformSpawnThrows, DrainDone,
       SleepDone, vars, workerVars, registryVars, threadVars, mainVars, LiveCountInv,
       LiveThreadsWithinCount, configuredCount, unflagged, poolCount
  <1>2. CASE SwitchShutdown \/ LoadConfig \/ BeginTurnOn \/ FinishClearAll
    BY <1>2 DEF SwitchShutdown, LoadConfig, BeginTurnOn, FinishClearAll, LiveCountInv,
       LiveThreadsWithinCount
  <1>3. CASE FinishSupersede
    <2>1. /\ main_pc = "pools" /\ main_pc' = "sleep" /\ loop = "turn_on" /\ todo = {}
          /\ m_config' = new_config /\ UNCHANGED <<m_thread_map, m_registry_store>>
      BY <1>3 DEF FinishSupersede, workerVars, registryVars
    <2>2. ASSUME NEW p \in Pools
          PROVE  Cardinality(unflagged(p)) <= configuredCount(p)'
      <3>1. CASE p \in PoolNames(new_config)
        BY <2>1, <3>1 DEF LiveCountInv, configuredCount
      <3>2. CASE p \notin PoolNames(new_config)
        <4>1. \A t \in Tids : mayTakeWork(t) => thread_args[t].pool \in PoolNames(new_config)
          BY <2>1 DEF ReloadInv, upToDate
        <4>2. unflagged(p) = {}
          BY <1>0, <3>2, <4>1 DEF LiveBounded
        <4>3. Cardinality(unflagged(p)) = 0
          BY <4>2, FS_EmptySet
        <4> QED
          BY <2>1, <3>2, <4>3 DEF configuredCount
      <3> QED
        BY <3>1, <3>2
    <2>3. \A p \in Pools : unflagged(p)' = unflagged(p)
      BY <2>1 DEF unflagged
    <2> QED
      BY <2>1, <2>2, <2>3 DEF LiveCountInv, LiveThreadsWithinCount
  <1>4. ASSUME NEW p \in Pools, InformPool(p)
        PROVE  LiveCountInv'
    <2>1. /\ main_pc = "pools" /\ main_pc' \in {"pools", "stop", "start"}
          /\ todo' = todo \ {p} /\ p \in todo
          /\ UNCHANGED <<m_thread_map, m_registry_store, loop, new_config>>
      BY <1>4 DEF InformPool, workerVars, registryVars
    <2>2. CASE loop # "turn_on"
      BY <2>1, <2>2 DEF LiveCountInv, LiveThreadsWithinCount
    <2>3. CASE loop = "turn_on"
      <3>1. /\ p \in PoolNames(new_config) /\ informedArgs(p).pool = p
            /\ informedCount(p) = new_config.m_pool_map[p].worker_count
            /\ informedCount(p) \in Nat
        BY <2>1, <2>3 DEF CoreInv, InformInv, informedArgs, threadArgs, informedCount, TypeOK,
           MainTypeOK, IsConfig, PoolNames, PoolData
      <3>2. /\ Cardinality(unflagged(p)) \in Nat
            /\ Cardinality(unflagged(p)) <= poolCount(p) /\ poolCount(p) \in Nat
        BY <1>0 DEF LiveBounded
      <3>3. \/ /\ main_pc' = "stop" /\ poolCount(p) > informedCount(p)
               /\ inform' = [args |-> informedArgs(p), config_worker_count |-> informedCount(p),
                             num_workers |-> poolCount(p) - informedCount(p)]
            \/ main_pc' # "stop" /\ poolCount(p) <= informedCount(p)
        <4>1. \/ /\ poolCount(p) > informedCount(p) /\ main_pc' = "stop"
                 /\ inform' = [args |-> informedArgs(p),
                               config_worker_count |-> informedCount(p),
                               num_workers |-> poolCount(p) - informedCount(p)]
              \/ poolCount(p) < informedCount(p) /\ main_pc' = "start"
              \/ poolCount(p) = informedCount(p) /\ main_pc' = main_pc
          BY <1>4 DEF InformPool
        <4> QED
          BY <2>1, <3>1, <3>2, <4>1
      <3>4. main_pc' = "stop" =>
              /\ inform'.args.pool = p /\ inform'.config_worker_count = informedCount(p)
              /\ inform'.num_workers = poolCount(p) - informedCount(p)
        BY <3>1, <3>3
      <3>5. main_pc' # "stop" => Cardinality(unflagged(p)) <= informedCount(p)
        BY <3>1, <3>2, <3>3
      <3>6. ASSUME NEW q \in PoolNames(new_config) \ (todo \ {p})
            PROVE  \/ Cardinality(unflagged(q)) <= new_config.m_pool_map[q].worker_count
                   \/ main_pc' = "stop" /\ q = inform'.args.pool
        <4>1. CASE q = p
          BY <3>1, <3>4, <3>5, <4>1
        <4>2. CASE q # p
          BY <2>1, <2>3, <3>6, <4>2 DEF LiveCountInv
        <4> QED
          BY <4>1, <4>2
      <3>7. main_pc' = "stop" =>
              poolCount(p) <= inform'.config_worker_count + inform'.num_workers
        BY <3>1, <3>2, <3>4
      <3>8. \A q \in Pools \cup PoolNames(new_config) :
              unflagged(q)' = unflagged(q) /\ poolCount(q)' = poolCount(q)
        BY <2>1 DEF unflagged, poolCount
      <3>9. LiveThreadsWithinCount'
        BY <2>1 DEF LiveThreadsWithinCount
      <3>10. main_pc' = "stop" => poolCount(inform.args.pool)' = poolCount(p)
        BY <2>1, <3>4 DEF poolCount
      <3> QED
        BY <2>1, <2>3, <3>1, <3>4, <3>6, <3>7, <3>8, <3>9, <3>10 DEF LiveCountInv
    <2> QED
      BY <2>2, <2>3
  <1>5. CASE InformStop
    <2>0. PICK p \in Pools : p = inform.args.pool
      BY <1>5 DEF InformStop, CoreInv, InformInv, ThreadArgs, TypeOK, MainTypeOK
    <2>1. /\ inform.num_workers \in Nat /\ inform.num_workers > 0
          /\ inform.config_worker_count \in Nat
          /\ sendShutdown(p, inform.num_workers)
      BY <1>5, <2>0 DEF InformStop, CoreInv, InformInv, ThreadArgs, TypeOK, MainTypeOK
    <2>2. main_pc = "stop" /\ main_pc' = "pools" /\ UNCHANGED <<loop, todo, new_config>>
      BY <1>5 DEF InformStop
    <2>3. LiveThreadsWithinCount'
      BY <2>2 DEF LiveThreadsWithinCount
    <2>4. CASE loop # "turn_on"
      BY <2>2, <2>3, <2>4 DEF LiveCountInv
    <2>5. CASE loop = "turn_on"
      <3>1. /\ inform.config_worker_count = new_config.m_pool_map[p].worker_count
            /\ poolCount(p) <= inform.config_worker_count + inform.num_workers
        BY <2>0, <2>2, <2>5 DEF LiveCountInv
      <3>2. Cardinality(unflagged(p)') <= inform.config_worker_count
        BY <1>0, <2>1, <3>1, SendShutdownCount DEF LiveBounded
      <3>3. ASSUME NEW q \in PoolNames(new_config) \ todo
            PROVE  Cardinality(unflagged(q)') <= new_config.m_pool_map[q].worker_count
        <4>1. CASE q = p
          BY <3>1, <3>2, <4>1
        <4>2. CASE q # p
          <5>1. q \in Pools /\ new_config.m_pool_map[q].worker_count \in Nat
            BY DEF CoreInv, TypeOK, MainTypeOK, IsConfig, PoolNames, PoolData
          <5>2. Cardinality(unflagged(q)) <= new_config.m_pool_map[q].worker_count
            BY <2>0, <2>2, <2>5, <3>3, <4>2 DEF LiveCountInv
          <5>3. unflagged(q)' \subseteq unflagged(q)
            BY <2>1, <5>1, SendShutdownCount
          <5>4. IsFiniteSet(unflagged(q)) /\ Cardinality(unflagged(q)) \in Nat
            BY <1>0, <5>1 DEF LiveBounded
          <5>5. /\ Cardinality(unflagged(q)') <= Cardinality(unflagged(q))
                /\ Cardinality(unflagged(q)') \in Nat
            BY <5>3, <5>4, FS_Subset, FS_CardinalityType
          <5> QED
            BY <5>1, <5>2, <5>4, <5>5
        <4> QED
          BY <4>1, <4>2
      <3> QED
        BY <2>2, <2>3, <3>3 DEF LiveCountInv
    <2> QED
      BY <2>4, <2>5
  <1>6. CASE InformSpawn \/ AwaitNotified \/ AwaitSpurious
    <2>1. /\ main_pc \in {"start", "await"} /\ main_pc' \in {"start", "await", "pools"}
          /\ UNCHANGED <<m_thread_map, m_registry_store, loop, todo, new_config>>
      BY <1>6 DEF InformSpawn, AwaitNotified, AwaitSpurious, WaitReturns, registryVars
    <2>2. \A q \in PoolNames(new_config) : unflagged(q)' = unflagged(q)
      BY <2>1 DEF unflagged
    <2> QED
      BY <2>1, <2>2 DEF LiveCountInv, LiveThreadsWithinCount
  <1> QED
    BY <1>1, <1>2, <1>3, <1>4, <1>5, <1>6 DEF MainStep

\* Between two reloads a pool has at most worker_count threads that were not
\* told to stop, although inform counts the pool and flags its threads in two
\* critical sections (ThreadPoolWatcher::inform).
THEOREM LiveThreadsAlwaysWithin == Spec => []LiveThreadsWithinCount
  <1> DEFINE Inv == CoreInv /\ ReloadInv /\ StartCountInv /\ LiveCountInv
  <1>1. Init => Inv
    <2> SUFFICES ASSUME Init PROVE LiveCountInv
      BY CoreInit, ReloadInit, StartCountInit
    <2>1. \A p \in Pools : unflagged(p) = {} /\ configuredCount(p) = 0
      BY DEF Init, RegistryInit, MainInit, unflagged, configuredCount, PoolNames, EmptyConfig
    <2>2. \A p \in Pools : Cardinality(unflagged(p)) <= configuredCount(p)
      BY <2>1, FS_EmptySet
    <2> QED
      BY <2>2 DEF Init, MainInit, LiveCountInv, LiveThreadsWithinCount, betweenReloads
  <1>2. Inv /\ [Next]_vars => Inv'
    <2>1. ASSUME Inv, Next PROVE Inv'
      <3>1. CoreInv' /\ StartCountInv'
        BY <2>1, CoreNext, StartCountNext
      <3>2. ReloadInv'
        BY <2>1, ReloadWorker, ReloadMain DEF Next
      <3>3. LiveCountInv'
        BY <2>1, <3>1, LiveCountWorker, LiveCountMain DEF Next
      <3> QED
        BY <3>1, <3>2, <3>3
    <2>2. ASSUME Inv, UNCHANGED vars PROVE Inv'
      <3>1. CoreInv'
        BY <2>2, CoreNext
      <3>2. ReloadInv' /\ StartCountInv'
        BY <2>2 DEF vars, workerVars, registryVars, threadVars, mainVars, ReloadInv, mayTakeWork,
           registered, upToDate, stillToStop, poolCount, betweenReloads, StartCountInv
      <3>3. LiveCountInv'
        BY <2>2 DEF vars, workerVars, registryVars, mainVars, LiveCountInv,
           LiveThreadsWithinCount, configuredCount, unflagged, poolCount, betweenReloads
      <3> QED
        BY <3>1, <3>2, <3>3
    <2> QED
      BY <2>1, <2>2
  <1>3. Inv => LiveThreadsWithinCount
    BY DEF LiveCountInv
  <1> QED
    BY <1>1, <1>2, <1>3, PTL DEF Spec
=============================================================================
