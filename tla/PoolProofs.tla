----------------------------- MODULE PoolProofs -----------------------------
(***************************************************************************)
(* Proofs that the daemon keeps the promise of WorkerPool, for every set   *)
(* of pools, threads and configuration files.                              *)
(***************************************************************************)
EXTENDS DriveshaftProofs, PoolRefinement

\* The state of the daemon as WorkerPool sees it.
statuses == [t \in Tids |-> workerStatus(t)]

owing == {t \in Tids : owesAnswer(t)}

limits == [p \in Pools |-> loadedCount(p)]

LEMMA SeenOfWorker ==
  ASSUME CoreInv, NEW t \in Tids, Worker(t)
  PROVE  /\ statuses' = [statuses EXCEPT ![t] = workerStatus(t)']
         /\ owing' = IF owesAnswer(t)' THEN owing \cup {t} ELSE owing \ {t}
         /\ limits' = limits
  <1>1. \A u \in Tids \ {t} : workerStatus(u)' = workerStatus(u) /\ owesAnswer(u)' = owesAnswer(u)
    BY WorkerFrame DEF workerStatus, owesAnswer, registered
  <1>2. UNCHANGED new_config
    BY DEF Worker, mainVars
  <1> QED
    BY <1>1, <1>2 DEF statuses, owing, limits, loadedCount

-----------------------------------------------------------------------------

\* What the refinement rests on.
PoolInv == CoreInv /\ StartCountInv /\ PromiseInv

LEMMA AlwaysPoolInv == Spec => []PoolInv
  <1>1. Init => PoolInv
    BY CoreInit, StartCountInit DEF PoolInv, PromiseInv, Init, ThreadInit
  <1>2. PoolInv /\ [Next]_vars => PoolInv'
    <2>1. ASSUME PoolInv, Next PROVE PoolInv'
      BY <2>1, CoreCounts, CoreNext, StartCountNext, PromiseStep DEF PoolInv
    <2>2. ASSUME PoolInv, UNCHANGED vars PROVE PoolInv'
      <3>1. CoreInv'
        BY <2>2, CoreNext DEF PoolInv
      <3>2. StartCountInv' /\ PromiseInv'
        BY <2>2 DEF PoolInv, vars, workerVars, registryVars, threadVars, mainVars,
           StartCountInv, poolCount, PromiseInv
      <3> QED
        BY <3>1, <3>2 DEF PoolInv
    <2> QED
      BY <2>1, <2>2
  <1> QED
    BY <1>1, <1>2, PTL DEF Spec

-----------------------------------------------------------------------------
(***************************************************************************)
(* Each step of the daemon is one of WorkerPool, or changes nothing it     *)
(* sees.                                                                   *)
(***************************************************************************)
Seen == <<m_registry_store, statuses, owing, limits, g_force_shutdown, process = "running">>

LEMMA QuietRefines ==
  ASSUME PoolInv, NEW t \in Tids, Worker(t), Quiet(t)
  PROVE  Pool!Next \/ UNCHANGED Seen
  <1>0. CoreInv /\ PromiseInv
    BY DEF PoolInv
  <1>1. /\ statuses' = [statuses EXCEPT ![t] = workerStatus(t)']
        /\ owing' = IF owesAnswer(t)' THEN owing \cup {t} ELSE owing \ {t}
        /\ limits' = limits /\ statuses[t] = workerStatus(t) /\ (t \in owing <=> owesAnswer(t))
    BY <1>0, SeenOfWorker DEF statuses, owing
  <1>2. /\ UNCHANGED <<m_thread_map, m_registry_store, g_force_shutdown>>
        /\ process = "running"
    BY DEF Quiet, DelegateConstruct, DelegateConstructThrows, DelegateNotify, RunCheckForce,
       RunCheckFlag, ClientIdles, ClientJobDone, ClientThrows, ClientTerminates, ThreadEnd,
       registryVars, Goto
  <1>3. owing' = owing
    BY <1>1, <1>2 DEF owesAnswer, registered
  <1>4. CASE workerStatus(t)' = workerStatus(t)
    <2>1. statuses' = statuses
      BY <1>1, <1>4 DEF statuses
    <2>2. CASE process' = "running"
      BY <1>1, <1>2, <1>3, <2>1, <2>2 DEF Seen
    <2>3. CASE process' # "running"
      <3>1. Pool!End
        BY <1>1, <1>2, <1>3, <2>1, <2>3 DEF Pool!End, statuses, owing, limits
      <3> QED
        BY <1>2, <3>1 DEF Pool!Next
    <2> QED
      BY <2>2, <2>3
  <1>5. CASE workerStatus(t)' # workerStatus(t)
    <2>1. thread_pc \in [Tids -> ThreadPlaces]
      BY <1>0 DEF CoreInv, TypeOK, ThreadTypeOK
    <2>2. ~(ClientTerminates(t) \/ DelegateConstructThrows(t))
      BY <1>2, <1>5 DEF ClientTerminates, DelegateConstructThrows, threadVars, workerStatus,
         registered
    <2>3. ~(DelegateConstruct(t) \/ DelegateNotify(t) \/ RunCheckForce(t) \/ ThreadEnd(t))
      BY <1>2, <1>5, <2>1 DEF DelegateConstruct, DelegateNotify, RunCheckForce, ThreadEnd, Goto,
         workerStatus, registered
    <2>4. ~RunCheckFlag(t)
      BY <1>2, <1>5, <2>1 DEF RunCheckFlag, shouldShutdown, Goto, workerStatus, registered
    <2>5. ~ClientJobDone(t)
      <3>1. ClientJobDone(t) => m_thread_map[t].state = "job"
        BY <1>0 DEF ClientJobDone, Goto, PromiseInv
      <3> QED
        BY <1>2, <1>5, <2>1, <3>1 DEF ClientJobDone, Goto, workerStatus, registered
    <2>6. ClientIdles(t) \/ ClientThrows(t)
      BY <2>2, <2>3, <2>4, <2>5 DEF Quiet
    <2>7. workerStatus(t) = "finishing" /\ workerStatus(t)' = "stopped" /\ process' = process
      BY <1>2, <1>5, <2>1, <2>6 DEF ClientIdles, ClientThrows, Goto, workerStatus, registered
    <2>8. Pool!GiveUp(t)
      BY <1>1, <1>2, <1>3, <2>7 DEF Pool!GiveUp, Pool!becomes, statuses, owing, limits
    <2> QED
      BY <1>2, <2>8 DEF Pool!Next
  <1> QED
    BY <1>4, <1>5

LEMMA LabellingRefines ==
  ASSUME PoolInv, NEW t \in Tids, Worker(t), Labelling(t)
  PROVE  Pool!Next \/ UNCHANGED Seen
  <1>0. CoreInv /\ PromiseInv /\ thread_pc \in [Tids -> ThreadPlaces]
    BY DEF PoolInv, CoreInv, TypeOK, ThreadTypeOK
  <1>1. /\ statuses' = [statuses EXCEPT ![t] = workerStatus(t)']
        /\ owing' = IF owesAnswer(t)' THEN owing \cup {t} ELSE owing \ {t}
        /\ limits' = limits /\ statuses[t] = workerStatus(t) /\ (t \in owing <=> owesAnswer(t))
    BY <1>0, SeenOfWorker DEF statuses, owing
  <1>2. /\ registered(t) /\ DOMAIN m_thread_map' = DOMAIN m_thread_map
        /\ m_thread_map'[t].state = IF ClientTakesJob(t) THEN "job" ELSE "Waiting for work"
        /\ m_thread_map'[t].should_shutdown = m_thread_map[t].should_shutdown
        /\ m_registry_store' = m_registry_store /\ process' = process
    BY <1>0, LabelledStep
  <1>3. process = "running" /\ UNCHANGED g_force_shutdown
    BY DEF Labelling, ThreadLoopReady, ClientTakesJob, ClientEndsJob, Goto
  <1>4. CASE ClientTakesJob(t)
    <2>1. ~owesAnswer(t) /\ owesAnswer(t)'
      BY <1>2, <1>4 DEF ClientTakesJob, answerPending, owesAnswer, registered
    <2>2. \/ workerStatus(t) = "live" /\ workerStatus(t)' = "live"
          \/ workerStatus(t) = "finishing" /\ workerStatus(t)' = "stopped"
      BY <1>0, <1>2, <1>4 DEF ClientTakesJob, answerPending, Goto, workerStatus, registered
    <2>3. workerStatus(t)' = workerStatus(t) => statuses' = statuses
      BY <1>1 DEF statuses
    <2>4. Pool!TakeJob(t)
      BY <1>1, <1>2, <1>3, <2>1, <2>2, <2>3 DEF Pool!TakeJob, Pool!becomes, statuses, owing, limits
    <2> QED
      BY <1>2, <1>3, <2>4 DEF Pool!Next
  <1>5. CASE ~ClientTakesJob(t)
    <2>1. ~owesAnswer(t)'
      BY <1>2, <1>5 DEF owesAnswer, registered
    <2>2. workerStatus(t)' = workerStatus(t)
      BY <1>0, <1>2, <1>5 DEF Labelling, ThreadLoopReady, ClientEndsJob, answerPending, Goto,
         workerStatus, registered
    <2>3. statuses' = statuses
      BY <1>1, <2>2 DEF statuses
    <2>4. CASE owesAnswer(t)
      <3>1. Pool!AnswerJob(t)
        BY <1>1, <1>2, <1>3, <2>1, <2>3, <2>4 DEF Pool!AnswerJob, statuses, owing, limits
      <3> QED
        BY <1>2, <1>3, <3>1 DEF Pool!Next
    <2>5. CASE ~owesAnswer(t)
      <3>1. owing' = owing
        BY <1>1, <2>1, <2>5
      <3> QED
        BY <1>1, <1>2, <1>3, <2>3, <3>1 DEF Seen
    <2> QED
      BY <2>4, <2>5
  <1> QED
    BY <1>4, <1>5

\* WorkerPool and the daemon count alike.
LEMMA SameCardinality ==
  ASSUME NEW S
  PROVE  Pool!Cardinality(S) = Cardinality(S)
  BY DEF Pool!Cardinality, Cardinality

LEMMA RegisterRefines ==
  ASSUME PoolInv, NEW t \in Tids, Worker(t), ThreadLoopRegister(t)
  PROVE  Pool!Next
  <1>0. CoreInv /\ PromiseInv /\ StartCountInv
    BY DEF PoolInv
  <1>1. /\ statuses' = [statuses EXCEPT ![t] = workerStatus(t)']
        /\ owing' = IF owesAnswer(t)' THEN owing \cup {t} ELSE owing \ {t}
        /\ limits' = limits /\ statuses[t] = workerStatus(t) /\ (t \in owing <=> owesAnswer(t))
    BY <1>0, SeenOfWorker DEF statuses, owing
  <1> DEFINE p == thread_args[t].pool
  <1>2. /\ thread_pc[t] = "constructed" /\ process = "running"
        /\ registerThread(p, t) /\ UNCHANGED g_force_shutdown
    BY DEF ThreadLoopRegister, Goto
  <1>3. main_pc = "await" /\ thread_args[t] = inform.args
    BY <1>0, <1>2 DEF CoreInv, HandshakeInv, Starting
  <1>4. /\ p \in Pools /\ loop = "turn_on" /\ p \in PoolNames(new_config)
        /\ inform.config_worker_count = new_config.m_pool_map[p].worker_count
        /\ inform.num_workers \in Nat /\ inform.num_workers > 0
        /\ inform.config_worker_count \in Nat
    BY <1>0, <1>3 DEF CoreInv, InformInv, ThreadArgs, TypeOK, MainTypeOK
  <1>5. ~g_force_shutdown
    BY <1>0, <1>3 DEF PromiseInv
  <1>6. ~registered(t) /\ t \notin m_registry_store[p]
    BY <1>0, <1>2, <1>4 DEF CoreInv, RegistryInv, RegisteredAt
  <1>7. Cardinality(m_registry_store[p]) < limits[p]
    <2>1. poolCount(p) + inform.num_workers <= inform.config_worker_count
      BY <1>0, <1>2, <1>3 DEF StartCountInv
    <2>2. poolCount(p) \in Nat
      BY <1>0, <1>4, PoolFinite DEF CoreInv, TypeOK
    <2>3. limits[p] = inform.config_worker_count
      BY <1>4 DEF limits, loadedCount
    <2>4. poolCount(p) < limits[p]
      BY <1>4, <2>1, <2>2, <2>3
    <2> QED
      BY <2>4 DEF poolCount
  <1>8. /\ DOMAIN m_thread_map' = DOMAIN m_thread_map \cup {t}
        /\ m_thread_map'[t].should_shutdown = FALSE
        /\ m_thread_map'[t].state # "job"
        /\ m_registry_store' = [m_registry_store EXCEPT ![p] = @ \cup {t}]
        /\ process' = process
    <2> DEFINE data == [pool |-> p, should_shutdown |-> FALSE, state |-> "Starting up"]
    <2>1. data.state = "Starting up"
      OBVIOUS
    <2>2. m_thread_map'[t] = data
      BY <1>2 DEF registerThread
    <2> HIDE DEF data
    <2>3. m_thread_map'[t].state # "job"
      BY <2>1, <2>2
    <2> QED
      BY <1>0, <1>2, <1>4, <1>6, <2>3, RegisterThread DEF CoreInv, TypeOK, registered
  <1>9. workerStatus(t) = "absent" /\ workerStatus(t)' = "live" /\ ~owesAnswer(t)' /\ ~owesAnswer(t)
    BY <1>6, <1>8 DEF workerStatus, owesAnswer, registered
  <1>10. owing' = owing
    BY <1>1, <1>9
  <1> HIDE DEF p
  <1>11. Pool!Join(p, t)
    BY <1>1, <1>2, <1>4, <1>5, <1>7, SameCardinality, <1>8, <1>9, <1>10 DEF Pool!Join, Pool!becomes, statuses, owing,
       limits
  <1> QED
    BY <1>2, <1>4, <1>11 DEF Pool!Next

LEMMA UnregisterRefines ==
  ASSUME PoolInv, NEW t \in Tids, Worker(t), ThreadLoopUnregister(t)
  PROVE  Pool!Next
  <1>0. CoreInv
    BY DEF PoolInv
  <1>1. /\ statuses' = [statuses EXCEPT ![t] = workerStatus(t)']
        /\ owing' = IF owesAnswer(t)' THEN owing \cup {t} ELSE owing \ {t}
        /\ limits' = limits
    BY <1>0, SeenOfWorker
  <1> DEFINE p == thread_args[t].pool
  <1>2. /\ thread_pc[t] = "leaving" /\ process = "running"
        /\ unregisterThread(p, t) /\ UNCHANGED g_force_shutdown
    BY DEF ThreadLoopUnregister, Goto
  <1>3. p \in Pools
    BY <1>0, <1>2 DEF CoreInv, RegistryInv, TypeOK, ThreadTypeOK, ThreadArgs
  <1>4. registered(t) /\ t \in m_registry_store[p]
    BY <1>0, <1>2, <1>3 DEF CoreInv, RegistryInv, RegisteredAt
  <1>5. /\ DOMAIN m_thread_map' = DOMAIN m_thread_map \ {t}
        /\ m_registry_store' = [m_registry_store EXCEPT ![p] = @ \ {t}]
        /\ process' = process
    BY <1>0, <1>2, <1>3, <1>4, UnregisterThread DEF CoreInv, TypeOK, registered
  <1>6. workerStatus(t)' = "absent" /\ ~owesAnswer(t)'
    BY <1>5 DEF workerStatus, owesAnswer, registered
  <1> HIDE DEF p
  <1>7. Pool!Leave(p, t)
    BY <1>1, <1>2, <1>4, <1>5, <1>6 DEF Pool!Leave, Pool!becomes, statuses, owing, limits
  <1> QED
    BY <1>2, <1>3, <1>7 DEF Pool!Next

\* A step that leaves threads and registry alone.
LEMMA SeenUnchanged ==
  ASSUME UNCHANGED <<m_thread_map, thread_pc>>
  PROVE  statuses' = statuses /\ owing' = owing
  BY DEF statuses, owing, workerStatus, owesAnswer, registered

\* inform tells threads to stop: each is found at the place it is at.
LEMMA StopRefines ==
  ASSUME PoolInv, InformStop
  PROVE  Pool!Next
  <1>0. CoreInv
    BY DEF PoolInv
  <1> DEFINE p == inform.args.pool
  <1>1. /\ process = "running" /\ p \in Pools /\ inform.num_workers \in Nat
        /\ sendShutdown(p, inform.num_workers)
        /\ UNCHANGED <<thread_pc, g_force_shutdown, new_config>>
    BY <1>0 DEF InformStop, At, CoreInv, InformInv, ThreadArgs, TypeOK, MainTypeOK, threadVars
  <1>2. m_registry_store[p] \subseteq DOMAIN m_thread_map
    BY <1>0, <1>1 DEF CoreInv, RegistryInv, registered, TypeOK, RegistryTypeOK
  <1>3. UNCHANGED <<m_registry_store, process>>
    BY <1>1, <1>2 DEF sendShutdown, DS_ASSERT
  <1> HIDE DEF p
  <1>4. PICK S \in SUBSET unflagged(p) :
          m_thread_map' =
            [t \in DOMAIN m_thread_map |->
               IF t \in S THEN [m_thread_map[t] EXCEPT !.should_shutdown = TRUE]
                          ELSE m_thread_map[t]]
    BY <1>1 DEF sendShutdown
  <1>5. DOMAIN m_thread_map' = DOMAIN m_thread_map
    BY <1>4
  <1>6. \A t \in DOMAIN m_thread_map :
          /\ m_thread_map'[t].state = m_thread_map[t].state
          /\ t \in S => m_thread_map'[t].should_shutdown
          /\ t \notin S => m_thread_map'[t] = m_thread_map[t]
    BY <1>0, <1>4 DEF CoreInv, TypeOK, RegistryTypeOK, ThreadData
  <1>7. owing' = owing
    BY <1>5, <1>6 DEF owing, owesAnswer, registered
  <1>8. ASSUME NEW t \in Tids
        PROVE  \/ workerStatus(t)' = workerStatus(t)
               \/ /\ t \in m_registry_store[p] /\ workerStatus(t) = "live"
                  /\ workerStatus(t)' \in {"finishing", "stopped"}
                  /\ owesAnswer(t) => workerStatus(t)' = "stopped"
    <2>1. CASE t \in S
      <3>1. t \in m_registry_store[p] /\ registered(t) /\ ~m_thread_map[t].should_shutdown
        BY <1>4, <2>1 DEF unflagged, registered
      <3> QED
        BY <1>1, <1>5, <1>6, <2>1, <3>1 DEF workerStatus, owesAnswer, registered
    <2>2. CASE t \notin S
      BY <1>1, <1>5, <1>6, <2>2 DEF workerStatus, registered
    <2> QED
      BY <2>1, <2>2
  <1>9. limits' = limits
    BY <1>1 DEF limits, loadedCount
  <1>10. Pool!Stop(p)
    BY <1>1, <1>3, <1>7, <1>8, <1>9 DEF Pool!Stop, statuses, owing, limits
  <1> QED
    BY <1>1, <1>10 DEF Pool!Next

LEMMA MainRefines ==
  ASSUME PoolInv, MainStep \/ AwaitSpurious \/ Signal \/ Ended
  PROVE  Pool!Next \/ UNCHANGED Seen
  <1>0. CoreInv /\ PromiseInv
    BY DEF PoolInv
  <1>1. CASE SwitchShutdown
    <2>1. /\ UNCHANGED <<m_thread_map, m_registry_store, thread_pc, new_config, process>>
          /\ process = "running" /\ g_force_shutdown'
      BY <1>1 DEF SwitchShutdown, At, registryVars, threadVars
    <2>2. g_force_shutdown' = TRUE
      BY <1>1 DEF SwitchShutdown
    <2>3. limits' = limits
      BY <2>1 DEF limits, loadedCount
    <2>4. Pool!Close
      BY <2>1, <2>2, <2>3, SeenUnchanged DEF Pool!Close, statuses, owing, limits
    <2> QED
      BY <2>1, <2>4 DEF Pool!Next
  <1>2. CASE LoadConfig
    <2>1. /\ UNCHANGED <<m_thread_map, m_registry_store, thread_pc, g_force_shutdown, process>>
          /\ process = "running" /\ main_pc = "switch"
      BY <1>2 DEF LoadConfig, At, workerVars, registryVars, threadVars
    <2>2. ~g_force_shutdown
      BY <1>0, <2>1 DEF PromiseInv
    <2>3. IsConfig(new_config)'
      BY <1>2, LoadYieldsConfig DEF LoadConfig
    <2>4. limits' \in [Pools -> Nat]
      BY <2>3 DEF limits, loadedCount, IsConfig, PoolNames, PoolData
    <2>5. Pool!Reconfigure
      BY <2>1, <2>2, <2>4, SeenUnchanged DEF Pool!Reconfigure, statuses, owing, limits
    <2> QED
      BY <2>1, <2>5 DEF Pool!Next
  <1>3. CASE LoadConfigThrows \/ InformSpawnThrows \/ DrainDone
    <2>1. /\ UNCHANGED <<m_thread_map, m_registry_store, thread_pc, g_force_shutdown, new_config>>
          /\ process = "running" /\ process' # "running"
      BY <1>3 DEF LoadConfigThrows, InformSpawnThrows, DrainDone, At, leaveMain, registryVars,
         threadVars, mainVars
    <2>2. limits' = limits
      BY <2>1 DEF limits, loadedCount
    <2>3. Pool!End
      BY <2>1, <2>2, SeenUnchanged DEF Pool!End, statuses, owing, limits
    <2> QED
      BY <2>1, <2>3 DEF Pool!Next
  <1>4. CASE InformStop
    BY <1>4, StopRefines
  <1>5. CASE InformSpawn
    <2>1. UNCHANGED <<m_thread_map, m_registry_store, g_force_shutdown, new_config, process>>
      BY <1>5 DEF InformSpawn, registryVars
    <2>2. PICK t \in Tids :
            thread_pc[t] = "none" /\ thread_pc' = [thread_pc EXCEPT ![t] = "spawned"]
      BY <1>5 DEF InformSpawn
    <2>3. \A u \in Tids : workerStatus(u)' = workerStatus(u)
      BY <1>0, <2>1, <2>2 DEF workerStatus, registered, CoreInv, RegistryInv, RegisteredAt, TypeOK,
         ThreadTypeOK
    <2>4. \A u \in Tids : owesAnswer(u)' <=> owesAnswer(u)
      BY <2>1 DEF owesAnswer, registered
    <2> QED
      BY <2>1, <2>3, <2>4 DEF Seen, statuses, owing, limits, loadedCount
  <1>6. ASSUME \/ BeginTurnOn \/ FinishSupersede \/ SleepDone \/ FinishClearAll \/ Signal
               \/ AwaitNotified \/ AwaitSpurious \/ AwaitAgain \/ Ended
               \/ \E p \in Pools : InformPool(p)
        PROVE  UNCHANGED Seen
    <2>1. UNCHANGED <<m_thread_map, m_registry_store, thread_pc, g_force_shutdown, new_config,
                      process>>
      BY <1>6 DEF BeginTurnOn, FinishSupersede, SleepDone, FinishClearAll, Signal,
         AwaitNotified, AwaitSpurious, AwaitAgain, WaitReturns, Ended, InformPool, vars,
         workerVars, registryVars, threadVars, startVars, mainVars
    <2> QED
      BY <2>1, SeenUnchanged DEF Seen, limits, loadedCount
  <1> QED
    BY <1>1, <1>2, <1>3, <1>4, <1>5, <1>6 DEF MainStep

\* Whatever the main thread, the workers, signals and the file do, the daemon
\* keeps the promise of WorkerPool: pools stay within the worker_count last
\* loaded, nothing joins a shutdown, and a thread flagged by sendShutdown
\* takes at most one more job.
THEOREM PromiseKept == Spec => DaemonKeepsPromise
  <1>1. Init => Pool!Init
    <2> SUFFICES ASSUME Init PROVE Pool!Init
      OBVIOUS
    <2>1. DOMAIN m_thread_map = {} /\ DOMAIN new_config.m_pool_map = {}
      BY DEF Init, RegistryInit, MainInit, EmptyConfig
    <2>2. \A t \in Tids : workerStatus(t) = "absent" /\ ~owesAnswer(t)
      BY <2>1 DEF workerStatus, owesAnswer, registered
    <2>3. \A p \in Pools : loadedCount(p) = 0
      BY <2>1 DEF loadedCount, PoolNames
    <2> QED
      BY <2>2, <2>3 DEF Init, RegistryInit, ThreadInit, Pool!Init
  <1>2. PoolInv /\ [Next]_vars => [Pool!Next]_(Pool!vars)
    <2>2. UNCHANGED Seen => UNCHANGED Pool!vars
      BY DEF Seen, Pool!vars, statuses, owing, limits
    <2>3. ASSUME PoolInv, NEW t \in Tids, Worker(t)
          PROVE  Pool!Next \/ UNCHANGED Seen
      BY <2>3, WorkerSteps, QuietRefines, LabellingRefines, RegisterRefines, UnregisterRefines
    <2>4. ASSUME UNCHANGED vars
          PROVE  UNCHANGED Seen
      <3>1. UNCHANGED <<m_thread_map, m_registry_store, thread_pc, g_force_shutdown, new_config,
                        process>>
        BY <2>4 DEF vars, workerVars, registryVars, threadVars, mainVars
      <3> QED
        BY <3>1, SeenUnchanged DEF Seen, limits, loadedCount
    <2> QED
      BY <2>2, <2>3, <2>4, MainRefines DEF Next
  <1> QED
    BY <1>1, <1>2, AlwaysPoolInv, PTL DEF Spec, DaemonKeepsPromise, Pool!Spec
=============================================================================
