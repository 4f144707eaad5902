----------------------------- MODULE CoreProofs -----------------------------
(***************************************************************************)
(* The steps of the daemon preserve what its correctness rests on, and the *)
(* lemmas on configurations and the registry that this takes.  Nothing     *)
(* here counts threads: DriveshaftProofs does.                             *)
(***************************************************************************)
EXTENDS Driveshaft, TLAPS

-----------------------------------------------------------------------------
(***************************************************************************)
(* Configurations.                                                         *)
(***************************************************************************)

\* The configuration MainLoop starts with is one.
LEMMA EmptyConfigType == IsConfig(EmptyConfig)
  BY DEF IsConfig, EmptyConfig, PoolData

\* clearWorkerCount (driveshaft-config.cpp) changes nothing a thread of the
\* pool is started with.
LEMMA ZeroWorkerCount ==
  ASSUME NEW c, IsConfig(c), NEW p \in PoolNames(c)
  PROVE  /\ IsConfig(zeroWorkerCount(c, p))
         /\ PoolNames(zeroWorkerCount(c, p)) = PoolNames(c)
         /\ \A q \in PoolNames(c) :
              threadArgs(zeroWorkerCount(c, p), q) = threadArgs(c, q)
  <1> DEFINE z == zeroWorkerCount(c, p)
  <1>1. c.m_pool_map \in [PoolNames(c) -> PoolData]
    BY DEF IsConfig, PoolNames
  <1>2. z = [m_server_list |-> c.m_server_list,
             m_pool_map |-> [c.m_pool_map EXCEPT ![p].worker_count = 0]]
    BY DEF IsConfig, zeroWorkerCount
  <1>3. /\ z.m_server_list = c.m_server_list
        /\ z.m_pool_map = [c.m_pool_map EXCEPT ![p].worker_count = 0]
    BY <1>2
  <1>4. /\ z.m_pool_map \in [PoolNames(c) -> PoolData]
        /\ \A q \in PoolNames(c) :
             /\ z.m_pool_map[q].job_list = c.m_pool_map[q].job_list
             /\ z.m_pool_map[q].job_processing_uri = c.m_pool_map[q].job_processing_uri
    BY <1>1, <1>3 DEF PoolData
  <1>5. PoolNames(z) = PoolNames(c)
    BY <1>4 DEF PoolNames
  <1>6. IsConfig(z)
    BY <1>2, <1>3, <1>4, <1>5 DEF IsConfig, PoolNames
  <1>7. \A q \in PoolNames(c) : threadArgs(z, q) = threadArgs(c, q)
    BY <1>3, <1>4 DEF threadArgs
  <1> QED
    BY <1>5, <1>6, <1>7

\* load (driveshaft-config.cpp) throws or yields a configuration, whatever
\* JSON the file holds: parsing checks every kind it relies on.
THEOREM LoadYieldsConfig ==
  ASSUME NEW file \in Files, ~loadThrows(file)
  PROVE  IsConfig(load(file))
  <1>1. CASE ~needsConfigUpdate(file)
    BY <1>1, EmptyConfigType DEF load
  <1>2. CASE needsConfigUpdate(file)
    <2> DEFINE doc == file.doc
               node(p) == doc.pools_list.members[p]
    <2>1. file.readable /\ ~parseConfigThrows(doc)
      BY <1>2 DEF loadThrows
    <2>2. isDocument(doc)
      BY <2>1, FilesAssumption DEF parseConfigThrows
    <2>3. /\ doc.gearman_servers_list.kind = "array"
          /\ doc.pools_list.kind = "object"
          /\ ~parseServerListThrows(doc)
          /\ ~parsePoolListThrows(doc)
      BY <2>1 DEF parseConfigThrows, validateConfigNode
    <2>4. parseServerList(doc) \subseteq STRING
      BY <2>2, <2>3 DEF isDocument, isList, isElement, asStringThrows, parseServerListThrows,
         parseServerList
    <2>5. ASSUME NEW p \in DOMAIN doc.pools_list.members
          PROVE  p \in Pools /\ parsePool(node(p)) \in PoolData
      <3>1. p \in Pools /\ isPoolNode(node(p)) /\ ~parsePoolThrows(node(p))
        BY <2>2, <2>3 DEF isDocument, parsePoolListThrows
      <3> HIDE DEF node
      <3> QED
        BY <3>1 DEF isPoolNode, isList, isElement, parsePoolThrows, parsePool, PoolData
    <2>6. /\ DOMAIN parsePoolList(doc) \subseteq Pools
          /\ parsePoolList(doc) \in [DOMAIN parsePoolList(doc) -> PoolData]
      BY <2>5 DEF parsePoolList
    <2>7. load(file) = [m_server_list |-> parseServerList(doc),
                        m_pool_map |-> parsePoolList(doc)]
      BY <1>2 DEF load, parseConfig
    <2> QED
      BY <2>4, <2>6, <2>7 DEF IsConfig
  <1> QED
    BY <1>1, <1>2

\* What inform receives for a pool of a configuration is well typed.
LEMMA ThreadArgsType ==
  ASSUME NEW c, IsConfig(c), NEW p \in PoolNames(c)
  PROVE  /\ threadArgs(c, p) \in ThreadArgs
         /\ threadArgs(c, p).pool = p
         /\ c.m_pool_map[p].worker_count \in Nat
  BY DEF IsConfig, PoolNames, PoolData, threadArgs, ThreadArgs

\* compare (driveshaft-config.cpp) turns off exactly the pools that are gone
\* or whose threads would be started with other arguments.
LEMMA CompareTurnsOff ==
  ASSUME NEW old, IsConfig(old), NEW new, IsConfig(new), NEW p \in PoolNames(old)
  PROVE  p \in compare(old, new).turn_off <=>
           ~(p \in PoolNames(new) /\ threadArgs(old, p) = threadArgs(new, p))
  BY DEF compare, changedPools, poolChanged, threadArgs, PoolNames

\* compare (driveshaft-config.cpp) names exactly the pools whose threads the
\* new configuration makes outdated, and exactly those it must start afresh.
THEOREM CompareExact ==
  ASSUME NEW old, IsConfig(old), NEW new, IsConfig(new)
  PROVE  compare(old, new) = [turn_off |-> replaced(old, new),
                              turn_on |-> replaced(new, old)]
  <1>1. compare(old, new).turn_off = replaced(old, new)
    BY DEF compare, replaced, changedPools, poolChanged, threadArgs, PoolNames
  <1>2. compare(old, new).turn_on = replaced(new, old)
    BY DEF compare, replaced, changedPools, poolChanged, threadArgs, PoolNames
  <1> QED
    BY <1>1, <1>2 DEF compare

\* It turns off no pool the old configuration does not have.
LEMMA CompareNames ==
  ASSUME NEW old, NEW new
  PROVE  compare(old, new).turn_off \subseteq PoolNames(old)
  BY DEF compare, changedPools

-----------------------------------------------------------------------------
(***************************************************************************)
(* The operations of the registry.                                         *)
(***************************************************************************)

\* registerThread adds one thread, not told to stop, and asserts that the
\* registry does not hold it.
LEMMA RegisterThread ==
  ASSUME RegistryTypeOK, NEW p \in Pools, NEW t \in Tids, registerThread(p, t)
  PROVE  /\ RegistryTypeOK'
         /\ DOMAIN m_thread_map' = DOMAIN m_thread_map \cup {t}
         /\ m_thread_map'[t].should_shutdown = FALSE
         /\ \A u \in DOMAIN m_thread_map : u # t => m_thread_map'[u] = m_thread_map[u]
         /\ m_registry_store' = [m_registry_store EXCEPT ![p] = @ \cup {t}]
         /\ t \notin m_registry_store[p] /\ t \notin DOMAIN m_thread_map
              => process' = process
  <1> DEFINE data == [pool |-> p, should_shutdown |-> FALSE, state |-> "Starting up"]
  <1>1. data \in ThreadData
    BY DEF ThreadData, Labels
  <1>2. m_thread_map' = [u \in DOMAIN m_thread_map \cup {t} |->
                           IF u = t THEN data ELSE m_thread_map[u]]
    BY DEF registerThread
  <1>3. data.should_shutdown = FALSE
    OBVIOUS
  <1> HIDE DEF data
  <1>4. /\ DOMAIN m_thread_map' = DOMAIN m_thread_map \cup {t}
        /\ m_thread_map'[t] = data
        /\ \A u \in DOMAIN m_thread_map : u # t => m_thread_map'[u] = m_thread_map[u]
    BY <1>2
  <1>5. m_thread_map' \in [DOMAIN m_thread_map' -> ThreadData]
    BY <1>1, <1>2, <1>4 DEF RegistryTypeOK
  <1>6. /\ m_registry_store' = [m_registry_store EXCEPT ![p] = @ \cup {t}]
        /\ m_registry_store' \in [Pools -> SUBSET Tids]
    BY DEF registerThread, RegistryTypeOK
  <1>7. /\ process' \in ProcessStates
        /\ t \notin m_registry_store[p] /\ t \notin DOMAIN m_thread_map
             => process' = process
    BY DEF registerThread, DS_ASSERT, RegistryTypeOK, ProcessStates
  <1> QED
    BY <1>3, <1>4, <1>5, <1>6, <1>7 DEF RegistryTypeOK

\* unregisterThread removes one thread and asserts that the registry holds it.
LEMMA UnregisterThread ==
  ASSUME RegistryTypeOK, NEW p \in Pools, NEW t \in Tids, unregisterThread(p, t)
  PROVE  /\ RegistryTypeOK'
         /\ DOMAIN m_thread_map' = DOMAIN m_thread_map \ {t}
         /\ \A u \in DOMAIN m_thread_map : u # t => m_thread_map'[u] = m_thread_map[u]
         /\ m_registry_store' = [m_registry_store EXCEPT ![p] = @ \ {t}]
         /\ t \in m_registry_store[p] /\ t \in DOMAIN m_thread_map
              => process' = process
  <1>1. /\ DOMAIN m_thread_map' = DOMAIN m_thread_map \ {t}
        /\ \A u \in DOMAIN m_thread_map : u # t => m_thread_map'[u] = m_thread_map[u]
        /\ m_thread_map' \in [DOMAIN m_thread_map' -> ThreadData]
    BY DEF unregisterThread, RegistryTypeOK
  <1>2. /\ m_registry_store' = [m_registry_store EXCEPT ![p] = @ \ {t}]
        /\ m_registry_store' \in [Pools -> SUBSET Tids]
    BY DEF unregisterThread, RegistryTypeOK
  <1>3. /\ process' \in ProcessStates
        /\ t \in m_registry_store[p] /\ t \in DOMAIN m_thread_map
             => process' = process
    BY DEF unregisterThread, DS_ASSERT, RegistryTypeOK, ProcessStates
  <1> QED
    BY <1>1, <1>2, <1>3 DEF RegistryTypeOK

\* setThreadState changes a label and no flag.
LEMMA SetThreadState ==
  ASSUME RegistryTypeOK, NEW t \in Tids, NEW label \in Labels, setThreadState(t, label)
  PROVE  /\ RegistryTypeOK'
         /\ DOMAIN m_thread_map' = DOMAIN m_thread_map
         /\ \A u \in DOMAIN m_thread_map :
              m_thread_map'[u].should_shutdown = m_thread_map[u].should_shutdown
         /\ m_registry_store' = m_registry_store
         /\ t \in DOMAIN m_thread_map => process' = process
  <1>1. /\ DOMAIN m_thread_map' = DOMAIN m_thread_map
        /\ \A u \in DOMAIN m_thread_map :
             m_thread_map'[u] = IF u = t THEN [m_thread_map[u] EXCEPT !.state = label]
                                         ELSE m_thread_map[u]
    BY DEF setThreadState
  <1>2. \A u \in DOMAIN m_thread_map :
          /\ m_thread_map'[u] \in ThreadData
          /\ m_thread_map'[u].should_shutdown = m_thread_map[u].should_shutdown
    BY <1>1 DEF RegistryTypeOK, ThreadData
  <1>3. m_thread_map' \in [DOMAIN m_thread_map' -> ThreadData]
    BY <1>1, <1>2 DEF setThreadState
  <1>4. /\ process' \in ProcessStates
        /\ t \in DOMAIN m_thread_map => process' = process
    BY DEF setThreadState, DS_ASSERT, RegistryTypeOK, ProcessStates
  <1>5. m_registry_store' = m_registry_store
    BY DEF setThreadState
  <1> QED
    BY <1>1, <1>2, <1>3, <1>4, <1>5 DEF RegistryTypeOK

\* sendShutdown flags threads of its pool and clears no flag.
LEMMA SendShutdown ==
  ASSUME RegistryTypeOK, NEW p \in Pools, NEW n \in Nat, sendShutdown(p, n)
  PROVE  /\ RegistryTypeOK'
         /\ DOMAIN m_thread_map' = DOMAIN m_thread_map
         /\ \E S \in SUBSET unflagged(p) :
              /\ Cardinality(S) = messagesSent(n, Cardinality(unflagged(p)))
              /\ \A u \in DOMAIN m_thread_map :
                   m_thread_map'[u].should_shutdown =
                     IF u \in S THEN TRUE ELSE m_thread_map[u].should_shutdown
         /\ m_registry_store' = m_registry_store
         /\ m_registry_store[p] \subseteq DOMAIN m_thread_map => process' = process
  <1>1. PICK S \in SUBSET unflagged(p) :
          /\ Cardinality(S) = messagesSent(n, Cardinality(unflagged(p)))
          /\ m_thread_map' =
               [u \in DOMAIN m_thread_map |->
                  IF u \in S THEN [m_thread_map[u] EXCEPT !.should_shutdown = TRUE]
                             ELSE m_thread_map[u]]
    BY DEF sendShutdown
  <1>2. DOMAIN m_thread_map' = DOMAIN m_thread_map
    BY <1>1
  <1>3. \A u \in DOMAIN m_thread_map :
          /\ m_thread_map'[u] \in ThreadData
          /\ m_thread_map'[u].should_shutdown =
               IF u \in S THEN TRUE ELSE m_thread_map[u].should_shutdown
    BY <1>1 DEF RegistryTypeOK, ThreadData
  <1>4. m_thread_map' \in [DOMAIN m_thread_map' -> ThreadData]
    BY <1>1, <1>2, <1>3
  <1>5. /\ process' \in ProcessStates
        /\ m_registry_store[p] \subseteq DOMAIN m_thread_map => process' = process
    BY DEF sendShutdown, DS_ASSERT, RegistryTypeOK, ProcessStates
  <1>6. m_registry_store' = m_registry_store
    BY DEF sendShutdown
  <1> QED
    BY <1>1, <1>2, <1>3, <1>4, <1>5, <1>6 DEF RegistryTypeOK

-----------------------------------------------------------------------------
(***************************************************************************)
(* The core invariant.                                                     *)
(***************************************************************************)

\* The daemon starts with an empty registry and no thread.
LEMMA CoreInit == Init => CoreInv
  <1> SUFFICES ASSUME Init PROVE CoreInv
    OBVIOUS
  <1> USE DEF Init, RegistryInit, ThreadInit, MainInit
  <1>1. TypeOK
    BY EmptyConfigType DEF TypeOK, RegistryTypeOK, ThreadTypeOK, MainTypeOK,
       NoInform, ProcessStates, ThreadPlaces, MainPlaces, Loops
  <1>2. AssertionsHold
    BY DEF AssertionsHold
  <1>3. RegistryInv
    BY DEF RegistryInv, registered, RegisteredAt
  <1>4. InformInv
    BY DEF InformInv
  <1>5. HandshakeInv
    BY DEF HandshakeInv, Starting
  <1> QED
    BY <1>1, <1>2, <1>3, <1>4, <1>5 DEF CoreInv

\* A step of a worker thread, from its creation to its end, preserves it.
LEMMA CoreWorker ==
  ASSUME CoreInv, NEW t \in Tids, Worker(t)
  PROVE  CoreInv'
  <1> USE DEF CoreInv, AssertionsHold
  <1>0. /\ UNCHANGED mainVars
        /\ \A a \in ThreadArgs : a.pool \in Pools
    BY DEF Worker, ThreadArgs
  <1>00. InformInv'
    BY <1>0 DEF InformInv, mainVars
  <1>1. CASE DelegateConstruct(t)
    <2>3. RegistryTypeOK' /\ UNCHANGED registryVars
      BY <1>1 DEF DelegateConstruct, Goto, TypeOK, RegistryTypeOK, registryVars, ProcessStates, DS_ASSERT
    <2>4. process' # "assert_failed"
      BY <1>1 DEF DelegateConstruct, Goto, DS_ASSERT, RegistryInv, registered, RegisteredAt
    <2>5. TypeOK'
      BY <1>0, <1>1, <2>3, <2>4 DEF DelegateConstruct, Goto, TypeOK, ThreadTypeOK,
         MainTypeOK, mainVars, threadVars, startVars, ThreadPlaces, RegisteredAt
    <2>6. RegistryInv'
      BY <1>0, <1>1, <2>3, <2>4 DEF DelegateConstruct, Goto, TypeOK, RegistryTypeOK, ThreadTypeOK,
         registryVars, threadVars, RegistryInv, registered, RegisteredAt
    <2>7. HandshakeInv'
      BY <1>0, <1>1 DEF DelegateConstruct, Goto, TypeOK, ThreadTypeOK, mainVars, threadVars, startVars,
         HandshakeInv, Starting
    <2> QED
      BY <1>00, <1>1, <2>3, <2>4, <2>5, <2>6, <2>7 DEF DelegateConstruct, Goto
  <1>2. CASE DelegateConstructThrows(t)
    <2>3. RegistryTypeOK' /\ UNCHANGED registryVars
      BY <1>2 DEF DelegateConstructThrows, Goto, TypeOK, RegistryTypeOK, registryVars, ProcessStates, DS_ASSERT
    <2>4. process' # "assert_failed"
      BY <1>2 DEF DelegateConstructThrows, Goto, DS_ASSERT, RegistryInv, registered, RegisteredAt
    <2>5. TypeOK'
      BY <1>0, <1>2, <2>3, <2>4 DEF DelegateConstructThrows, TypeOK, ThreadTypeOK,
         MainTypeOK, mainVars, threadVars, startVars, ThreadPlaces, RegisteredAt
    <2>6. RegistryInv'
      BY <1>0, <1>2, <2>3, <2>4 DEF DelegateConstructThrows, TypeOK, RegistryTypeOK, ThreadTypeOK,
         registryVars, threadVars, RegistryInv, registered, RegisteredAt
    <2>7. HandshakeInv'
      BY <1>0, <1>2 DEF DelegateConstructThrows, TypeOK, ThreadTypeOK, mainVars, threadVars, startVars,
         HandshakeInv, Starting
    <2> QED
      BY <1>00, <1>2, <2>3, <2>4, <2>5, <2>6, <2>7 DEF DelegateConstructThrows
  <1>3. CASE ThreadLoopRegister(t)
    <2>1. thread_args[t] \in ThreadArgs /\ thread_args[t].pool \in Pools
      BY <1>0, <1>3 DEF ThreadLoopRegister, Goto, TypeOK, ThreadTypeOK, RegistryInv
    <2>2. registerThread(thread_args[t].pool, t)
      BY <1>3 DEF ThreadLoopRegister
    <2>3. /\ RegistryTypeOK'
          /\ DOMAIN m_thread_map' = DOMAIN m_thread_map \cup {t}
          /\ m_registry_store' = [m_registry_store EXCEPT ![thread_args[t].pool] = @ \cup {t}]
          /\ t \notin m_registry_store[thread_args[t].pool] /\ t \notin DOMAIN m_thread_map
               => process' = process
      BY <2>1, <2>2, RegisterThread DEF TypeOK
    <2>4. t \notin DOMAIN m_thread_map /\ t \notin m_registry_store[thread_args[t].pool]
      BY <1>3, <2>1 DEF ThreadLoopRegister, Goto, RegistryInv, registered, RegisteredAt
    <2>5. TypeOK'
      BY <1>0, <1>3, <2>3, <2>4, <2>1 DEF ThreadLoopRegister, Goto, TypeOK, ThreadTypeOK,
         MainTypeOK, mainVars, threadVars, startVars, ThreadPlaces, RegisteredAt
    <2>6. RegistryInv'
      BY <1>0, <1>3, <2>3, <2>4, <2>1 DEF ThreadLoopRegister, Goto, TypeOK, RegistryTypeOK, ThreadTypeOK,
         registryVars, threadVars, RegistryInv, registered, RegisteredAt
    <2>7. HandshakeInv'
      BY <1>0, <1>3 DEF ThreadLoopRegister, Goto, TypeOK, ThreadTypeOK, mainVars, threadVars, startVars,
         HandshakeInv, Starting
    <2> QED
      BY <1>00, <1>3, <2>3, <2>4, <2>5, <2>6, <2>7 DEF ThreadLoopRegister, Goto
  <1>4. CASE ThreadLoopReady(t)
    <2>1. setThreadState(t, "Waiting for work") /\ "Waiting for work" \in Labels
      BY <1>4 DEF ThreadLoopReady, Labels
    <2>3. /\ RegistryTypeOK'
          /\ DOMAIN m_thread_map' = DOMAIN m_thread_map
          /\ m_registry_store' = m_registry_store
          /\ t \in DOMAIN m_thread_map => process' = process
      BY <2>1, SetThreadState DEF TypeOK
    <2>4. t \in DOMAIN m_thread_map
      BY <1>4 DEF ThreadLoopReady, Goto, RegistryInv, registered, RegisteredAt
    <2>5. TypeOK'
      BY <1>0, <1>4, <2>3, <2>4 DEF ThreadLoopReady, Goto, TypeOK, ThreadTypeOK,
         MainTypeOK, mainVars, threadVars, startVars, ThreadPlaces, RegisteredAt
    <2>6. RegistryInv'
      BY <1>0, <1>4, <2>3, <2>4 DEF ThreadLoopReady, Goto, TypeOK, RegistryTypeOK, ThreadTypeOK,
         registryVars, threadVars, RegistryInv, registered, RegisteredAt
    <2>7. HandshakeInv'
      BY <1>0, <1>4 DEF ThreadLoopReady, Goto, TypeOK, ThreadTypeOK, mainVars, threadVars, startVars,
         HandshakeInv, Starting
    <2> QED
      BY <1>00, <1>4, <2>3, <2>4, <2>5, <2>6, <2>7 DEF ThreadLoopReady, Goto
  <1>5. CASE DelegateNotify(t)
    <2>3. RegistryTypeOK' /\ UNCHANGED registryVars
      BY <1>5 DEF DelegateNotify, Goto, TypeOK, RegistryTypeOK, registryVars, ProcessStates, DS_ASSERT
    <2>4. process' # "assert_failed"
      BY <1>5 DEF DelegateNotify, Goto, DS_ASSERT, RegistryInv, registered, RegisteredAt
    <2>5. TypeOK'
      BY <1>0, <1>5, <2>3, <2>4 DEF DelegateNotify, Goto, TypeOK, ThreadTypeOK,
         MainTypeOK, mainVars, threadVars, startVars, ThreadPlaces, RegisteredAt
    <2>6. RegistryInv'
      BY <1>0, <1>5, <2>3, <2>4 DEF DelegateNotify, Goto, TypeOK, RegistryTypeOK, ThreadTypeOK,
         registryVars, threadVars, RegistryInv, registered, RegisteredAt
    <2>7. HandshakeInv'
      BY <1>0, <1>5 DEF DelegateNotify, Goto, TypeOK, ThreadTypeOK, mainVars, threadVars, startVars,
         HandshakeInv, Starting
    <2> QED
      BY <1>00, <1>5, <2>3, <2>4, <2>5, <2>6, <2>7 DEF DelegateNotify, Goto
  <1>6. CASE RunCheckForce(t)
    <2>3. RegistryTypeOK' /\ UNCHANGED registryVars
      BY <1>6 DEF RunCheckForce, Goto, TypeOK, RegistryTypeOK, registryVars, ProcessStates, DS_ASSERT
    <2>4. process' # "assert_failed"
      BY <1>6 DEF RunCheckForce, Goto, DS_ASSERT, RegistryInv, registered, RegisteredAt
    <2>5. TypeOK'
      BY <1>0, <1>6, <2>3, <2>4 DEF RunCheckForce, Goto, TypeOK, ThreadTypeOK,
         MainTypeOK, mainVars, threadVars, startVars, ThreadPlaces, RegisteredAt
    <2>6. RegistryInv'
      BY <1>0, <1>6, <2>3, <2>4 DEF RunCheckForce, Goto, TypeOK, RegistryTypeOK, ThreadTypeOK,
         registryVars, threadVars, RegistryInv, registered, RegisteredAt
    <2>7. HandshakeInv'
      BY <1>0, <1>6 DEF RunCheckForce, Goto, TypeOK, ThreadTypeOK, mainVars, threadVars, startVars,
         HandshakeInv, Starting
    <2> QED
      BY <1>00, <1>6, <2>3, <2>4, <2>5, <2>6, <2>7 DEF RunCheckForce, Goto
  <1>7. CASE RunCheckFlag(t)
    <2>3. RegistryTypeOK' /\ UNCHANGED registryVars
      BY <1>7 DEF RunCheckFlag, Goto, TypeOK, RegistryTypeOK, registryVars, ProcessStates, DS_ASSERT
    <2>4. process' # "assert_failed"
      BY <1>7 DEF RunCheckFlag, Goto, DS_ASSERT, RegistryInv, registered, RegisteredAt
    <2>5. TypeOK'
      BY <1>0, <1>7, <2>3, <2>4 DEF RunCheckFlag, Goto, TypeOK, ThreadTypeOK,
         MainTypeOK, mainVars, threadVars, startVars, ThreadPlaces, RegisteredAt
    <2>6. RegistryInv'
      BY <1>0, <1>7, <2>3, <2>4 DEF RunCheckFlag, Goto, TypeOK, RegistryTypeOK, ThreadTypeOK,
         registryVars, threadVars, RegistryInv, registered, RegisteredAt
    <2>7. HandshakeInv'
      BY <1>0, <1>7 DEF RunCheckFlag, Goto, TypeOK, ThreadTypeOK, mainVars, threadVars, startVars,
         HandshakeInv, Starting
    <2> QED
      BY <1>00, <1>7, <2>3, <2>4, <2>5, <2>6, <2>7 DEF RunCheckFlag, Goto
  <1>8. CASE ClientIdles(t)
    <2>3. RegistryTypeOK' /\ UNCHANGED registryVars
      BY <1>8 DEF ClientIdles, Goto, TypeOK, RegistryTypeOK, registryVars, ProcessStates, DS_ASSERT
    <2>4. process' # "assert_failed"
      BY <1>8 DEF ClientIdles, Goto, DS_ASSERT, RegistryInv, registered, RegisteredAt
    <2>5. TypeOK'
      BY <1>0, <1>8, <2>3, <2>4 DEF ClientIdles, Goto, TypeOK, ThreadTypeOK,
         MainTypeOK, mainVars, threadVars, startVars, ThreadPlaces, RegisteredAt
    <2>6. RegistryInv'
      BY <1>0, <1>8, <2>3, <2>4 DEF ClientIdles, Goto, TypeOK, RegistryTypeOK, ThreadTypeOK,
         registryVars, threadVars, RegistryInv, registered, RegisteredAt
    <2>7. HandshakeInv'
      BY <1>0, <1>8 DEF ClientIdles, Goto, TypeOK, ThreadTypeOK, mainVars, threadVars, startVars,
         HandshakeInv, Starting
    <2> QED
      BY <1>00, <1>8, <2>3, <2>4, <2>5, <2>6, <2>7 DEF ClientIdles, Goto
  <1>9. CASE ClientTakesJob(t)
    <2>1. setThreadState(t, "job") /\ "job" \in Labels
      BY <1>9 DEF ClientTakesJob, Labels
    <2>3. /\ RegistryTypeOK'
          /\ DOMAIN m_thread_map' = DOMAIN m_thread_map
          /\ m_registry_store' = m_registry_store
          /\ t \in DOMAIN m_thread_map => process' = process
      BY <2>1, SetThreadState DEF TypeOK
    <2>4. t \in DOMAIN m_thread_map
      BY <1>9 DEF ClientTakesJob, Goto, RegistryInv, registered, RegisteredAt
    <2>5. TypeOK'
      BY <1>0, <1>9, <2>3, <2>4 DEF ClientTakesJob, Goto, TypeOK, ThreadTypeOK,
         MainTypeOK, mainVars, threadVars, startVars, ThreadPlaces, RegisteredAt
    <2>6. RegistryInv'
      BY <1>0, <1>9, <2>3, <2>4 DEF ClientTakesJob, Goto, TypeOK, RegistryTypeOK, ThreadTypeOK,
         registryVars, threadVars, RegistryInv, registered, RegisteredAt
    <2>7. HandshakeInv'
      BY <1>0, <1>9 DEF ClientTakesJob, Goto, TypeOK, ThreadTypeOK, mainVars, threadVars, startVars,
         HandshakeInv, Starting
    <2> QED
      BY <1>00, <1>9, <2>3, <2>4, <2>5, <2>6, <2>7 DEF ClientTakesJob, Goto
  <1>10. CASE ClientEndsJob(t)
    <2>1. setThreadState(t, "Waiting for work") /\ "Waiting for work" \in Labels
      BY <1>10 DEF ClientEndsJob, Labels
    <2>3. /\ RegistryTypeOK'
          /\ DOMAIN m_thread_map' = DOMAIN m_thread_map
          /\ m_registry_store' = m_registry_store
          /\ t \in DOMAIN m_thread_map => process' = process
      BY <2>1, SetThreadState DEF TypeOK
    <2>4. t \in DOMAIN m_thread_map
      BY <1>10 DEF ClientEndsJob, Goto, RegistryInv, registered, RegisteredAt
    <2>5. TypeOK'
      BY <1>0, <1>10, <2>3, <2>4 DEF ClientEndsJob, Goto, TypeOK, ThreadTypeOK,
         MainTypeOK, mainVars, threadVars, startVars, ThreadPlaces, RegisteredAt
    <2>8. /\ thread_pc[t] \in {"client", "job"}
          /\ thread_pc' = [thread_pc EXCEPT ![t] = "check_force"]
          /\ UNCHANGED thread_args
      BY <1>10 DEF ClientEndsJob, Goto
    <2>6. RegistryInv'
      BY <2>3, <2>8 DEF TypeOK, RegistryTypeOK, ThreadTypeOK,
         RegistryInv, registered, RegisteredAt
    <2>7. HandshakeInv'
      BY <1>0, <1>10 DEF ClientEndsJob, Goto, TypeOK, ThreadTypeOK, mainVars, threadVars, startVars,
         HandshakeInv, Starting
    <2> QED
      BY <1>00, <1>10, <2>3, <2>4, <2>5, <2>6, <2>7 DEF ClientEndsJob, Goto
  <1>11. CASE ClientJobDone(t)
    <2>3. RegistryTypeOK' /\ UNCHANGED registryVars
      BY <1>11 DEF ClientJobDone, Goto, TypeOK, RegistryTypeOK, registryVars, ProcessStates, DS_ASSERT
    <2>4. process' # "assert_failed"
      BY <1>11 DEF ClientJobDone, Goto, DS_ASSERT, RegistryInv, registered, RegisteredAt
    <2>5. TypeOK'
      BY <1>0, <1>11, <2>3, <2>4 DEF ClientJobDone, Goto, TypeOK, ThreadTypeOK,
         MainTypeOK, mainVars, threadVars, startVars, ThreadPlaces, RegisteredAt
    <2>6. RegistryInv'
      BY <1>0, <1>11, <2>3, <2>4 DEF ClientJobDone, Goto, TypeOK, RegistryTypeOK, ThreadTypeOK,
         registryVars, threadVars, RegistryInv, registered, RegisteredAt
    <2>7. HandshakeInv'
      BY <1>0, <1>11 DEF ClientJobDone, Goto, TypeOK, ThreadTypeOK, mainVars, threadVars, startVars,
         HandshakeInv, Starting
    <2> QED
      BY <1>00, <1>11, <2>3, <2>4, <2>5, <2>6, <2>7 DEF ClientJobDone, Goto
  <1>12. CASE ClientThrows(t)
    <2>3. RegistryTypeOK' /\ UNCHANGED registryVars
      BY <1>12 DEF ClientThrows, Goto, TypeOK, RegistryTypeOK, registryVars, ProcessStates, DS_ASSERT
    <2>4. process' # "assert_failed"
      BY <1>12 DEF ClientThrows, Goto, DS_ASSERT, RegistryInv, registered, RegisteredAt
    <2>5. TypeOK'
      BY <1>0, <1>12, <2>3, <2>4 DEF ClientThrows, Goto, TypeOK, ThreadTypeOK,
         MainTypeOK, mainVars, threadVars, startVars, ThreadPlaces, RegisteredAt
    <2>6. RegistryInv'
      BY <1>0, <1>12, <2>3, <2>4 DEF ClientThrows, Goto, TypeOK, RegistryTypeOK, ThreadTypeOK,
         registryVars, threadVars, RegistryInv, registered, RegisteredAt
    <2>7. HandshakeInv'
      BY <1>0, <1>12 DEF ClientThrows, Goto, TypeOK, ThreadTypeOK, mainVars, threadVars, startVars,
         HandshakeInv, Starting
    <2> QED
      BY <1>00, <1>12, <2>3, <2>4, <2>5, <2>6, <2>7 DEF ClientThrows, Goto
  <1>13. CASE ThreadLoopUnregister(t)
    <2>1. thread_args[t] \in ThreadArgs /\ thread_args[t].pool \in Pools
      BY <1>0, <1>13 DEF ThreadLoopUnregister, Goto, TypeOK, ThreadTypeOK, RegistryInv
    <2>2. unregisterThread(thread_args[t].pool, t)
      BY <1>13 DEF ThreadLoopUnregister
    <2>3. /\ RegistryTypeOK'
          /\ DOMAIN m_thread_map' = DOMAIN m_thread_map \ {t}
          /\ m_registry_store' = [m_registry_store EXCEPT ![thread_args[t].pool] = @ \ {t}]
          /\ t \in m_registry_store[thread_args[t].pool] /\ t \in DOMAIN m_thread_map
               => process' = process
      BY <2>1, <2>2, UnregisterThread DEF TypeOK
    <2>4. t \in DOMAIN m_thread_map /\ t \in m_registry_store[thread_args[t].pool]
      BY <1>13, <2>1 DEF ThreadLoopUnregister, Goto, RegistryInv, registered, RegisteredAt
    <2>5. TypeOK'
      BY <1>0, <1>13, <2>3, <2>4, <2>1 DEF ThreadLoopUnregister, Goto, TypeOK, ThreadTypeOK,
         MainTypeOK, mainVars, threadVars, startVars, ThreadPlaces, RegisteredAt
    <2>6. RegistryInv'
      BY <1>0, <1>13, <2>3, <2>4, <2>1 DEF ThreadLoopUnregister, Goto, TypeOK, RegistryTypeOK, ThreadTypeOK,
         registryVars, threadVars, RegistryInv, registered, RegisteredAt
    <2>7. HandshakeInv'
      BY <1>0, <1>13 DEF ThreadLoopUnregister, Goto, TypeOK, ThreadTypeOK, mainVars, threadVars, startVars,
         HandshakeInv, Starting
    <2> QED
      BY <1>00, <1>13, <2>3, <2>4, <2>5, <2>6, <2>7 DEF ThreadLoopUnregister, Goto
  <1>14. CASE ThreadEnd(t)
    <2>3. RegistryTypeOK' /\ UNCHANGED registryVars
      BY <1>14 DEF ThreadEnd, Goto, TypeOK, RegistryTypeOK, registryVars, ProcessStates, DS_ASSERT
    <2>4. process' # "assert_failed"
      BY <1>14 DEF ThreadEnd, Goto, DS_ASSERT, RegistryInv, registered, RegisteredAt
    <2>5. TypeOK'
      BY <1>0, <1>14, <2>3, <2>4 DEF ThreadEnd, Goto, TypeOK, ThreadTypeOK,
         MainTypeOK, mainVars, threadVars, startVars, ThreadPlaces, RegisteredAt
    <2>6. RegistryInv'
      BY <1>0, <1>14, <2>3, <2>4 DEF ThreadEnd, Goto, TypeOK, RegistryTypeOK, ThreadTypeOK,
         registryVars, threadVars, RegistryInv, registered, RegisteredAt
    <2>7. HandshakeInv'
      BY <1>0, <1>14 DEF ThreadEnd, Goto, TypeOK, ThreadTypeOK, mainVars, threadVars, startVars,
         HandshakeInv, Starting
    <2> QED
      BY <1>00, <1>14, <2>3, <2>4, <2>5, <2>6, <2>7 DEF ThreadEnd, Goto
  <1>15. CASE ClientTerminates(t)
    <2>3. RegistryTypeOK' /\ UNCHANGED registryVars
      BY <1>15 DEF ClientTerminates, Goto, TypeOK, RegistryTypeOK, registryVars, ProcessStates, DS_ASSERT
    <2>4. process' # "assert_failed"
      BY <1>15 DEF ClientTerminates, Goto, DS_ASSERT, RegistryInv, registered, RegisteredAt
    <2>5. TypeOK'
      BY <1>0, <1>15, <2>3, <2>4 DEF ClientTerminates, TypeOK, ThreadTypeOK,
         MainTypeOK, mainVars, threadVars, startVars, ThreadPlaces, RegisteredAt
    <2>6. RegistryInv'
      BY <1>0, <1>15, <2>3, <2>4 DEF ClientTerminates, TypeOK, RegistryTypeOK, ThreadTypeOK,
         registryVars, threadVars, RegistryInv, registered, RegisteredAt
    <2>7. HandshakeInv'
      BY <1>0, <1>15 DEF ClientTerminates, TypeOK, ThreadTypeOK, mainVars, threadVars, startVars,
         HandshakeInv, Starting
    <2> QED
      BY <1>00, <1>15, <2>3, <2>4, <2>5, <2>6, <2>7 DEF ClientTerminates
  <1> QED
    BY <1>1, <1>2, <1>3, <1>4, <1>5, <1>6, <1>7, <1>8, <1>9, <1>10, <1>11, <1>12, <1>13, <1>14,
       <1>15
    DEF Worker, WorkerStep, ClientStep

\* A count of threads is a number.
CountsNat == \A p \in Pools : poolCount(p) \in Nat

\* So does a signal, and a step of the main thread.
LEMMA CoreMain ==
  ASSUME CoreInv, CountsNat, MainStep \/ AwaitSpurious \/ Signal
  PROVE  CoreInv'
  <1> USE DEF CoreInv, AssertionsHold, At
  <1>1. CASE Signal
    BY <1>1 DEF Signal, workerVars, registryVars, threadVars, startVars, TypeOK,
       RegistryTypeOK, ThreadTypeOK, MainTypeOK, RegistryInv, registered, InformInv,
       HandshakeInv
  <1>2. CASE SwitchShutdown
    <2>1. TypeOK'
      BY <1>2 DEF SwitchShutdown, registryVars, threadVars, startVars, TypeOK,
         RegistryTypeOK, ThreadTypeOK, MainTypeOK, MainPlaces, Loops, IsConfig, PoolNames
    <2>2. RegistryInv' /\ HandshakeInv' /\ AssertionsHold'
      BY <1>2 DEF SwitchShutdown, registryVars, threadVars, startVars, RegistryInv,
         registered, HandshakeInv
    <2>3. InformInv'
      BY <1>2 DEF SwitchShutdown, InformInv
    <2> QED
      BY <2>1, <2>2, <2>3
  <1>3. CASE LoadConfig
    <2>1. PICK f \in Files :
            /\ ~loadThrows(f)
            /\ new_config' = load(f)
            /\ todo' = compare(m_config, load(f)).turn_off
      BY <1>3 DEF LoadConfig
    <2>2. IsConfig(new_config') /\ todo' \subseteq PoolNames(m_config)
      BY <2>1, LoadYieldsConfig, CompareNames
    <2>3. TypeOK'
      BY <1>3, <2>2 DEF LoadConfig, workerVars, registryVars, threadVars, startVars, TypeOK,
         RegistryTypeOK, ThreadTypeOK, MainTypeOK, MainPlaces, Loops, IsConfig, PoolNames
    <2>4. RegistryInv' /\ HandshakeInv' /\ AssertionsHold'
      BY <1>3 DEF LoadConfig, workerVars, registryVars, threadVars, startVars, RegistryInv,
         registered, HandshakeInv
    <2>5. InformInv'
      BY <1>3, <2>2 DEF LoadConfig, InformInv
    <2> QED
      BY <2>3, <2>4, <2>5
  <1>4. CASE LoadConfigThrows \/ InformSpawnThrows \/ DrainDone
    <2>1. DOMAIN m_thread_map # {} => \E t \in Tids : thread_pc[t] # "none"
      BY DEF TypeOK, RegistryTypeOK, RegistryInv, registered, RegisteredAt
    <2>2. process' \in {"exit0", "exit1"}
      BY <1>4, <2>1 DEF LoadConfigThrows, InformSpawnThrows, DrainDone, leaveMain
    <2>3. UNCHANGED <<registryVars, threadVars, startVars, g_force_shutdown, mainVars>>
      BY <1>4 DEF LoadConfigThrows, InformSpawnThrows, DrainDone
    <2>4. TypeOK' /\ AssertionsHold'
      BY <2>2, <2>3 DEF registryVars, threadVars, startVars, mainVars, TypeOK, RegistryTypeOK,
         ProcessStates, ThreadTypeOK, MainTypeOK
    <2>5. RegistryInv' /\ InformInv' /\ HandshakeInv'
      BY <2>3 DEF registryVars, threadVars, startVars, mainVars, RegistryInv, registered,
         InformInv, HandshakeInv
    <2> QED
      BY <2>4, <2>5
  <1>5. CASE BeginTurnOn
    <2>1. TypeOK'
      BY <1>5 DEF BeginTurnOn, workerVars, registryVars, threadVars, startVars, TypeOK,
         RegistryTypeOK, ThreadTypeOK, MainTypeOK, MainPlaces, Loops, IsConfig, PoolNames
    <2>2. RegistryInv' /\ HandshakeInv' /\ AssertionsHold' /\ InformInv'
      BY <1>5 DEF BeginTurnOn, workerVars, registryVars, threadVars, startVars, RegistryInv,
         registered, HandshakeInv, InformInv
    <2> QED
      BY <2>1, <2>2
  <1>6. CASE FinishSupersede \/ SleepDone \/ FinishClearAll
    <2>1. TypeOK'
      BY <1>6 DEF FinishSupersede, SleepDone, FinishClearAll, workerVars, registryVars,
         threadVars, startVars, TypeOK, RegistryTypeOK, ThreadTypeOK, MainTypeOK, MainPlaces
    <2>2. RegistryInv' /\ HandshakeInv' /\ AssertionsHold' /\ InformInv'
      BY <1>6 DEF FinishSupersede, SleepDone, FinishClearAll, workerVars, registryVars,
         threadVars, startVars, RegistryInv, registered, HandshakeInv, InformInv
    <2> QED
      BY <2>1, <2>2
  <1>8. ASSUME NEW p \in Pools, InformPool(p)
        PROVE  CoreInv'
    <2> DEFINE config == IF loop = "turn_on" THEN new_config ELSE m_config
               current == poolCount(p)
               wanted == informedCount(p)
               started == [args |-> informedArgs(p), config_worker_count |-> wanted,
                           num_workers |-> wanted - current]
               stopped == [args |-> informedArgs(p), config_worker_count |-> wanted,
                           num_workers |-> current - wanted]
    <2>1. p \in PoolNames(config) /\ IsConfig(config)
      BY <1>8 DEF InformPool, InformInv, TypeOK, MainTypeOK
    <2>2. /\ informedArgs(p) = threadArgs(config, p)
          /\ informedArgs(p) \in ThreadArgs
          /\ informedArgs(p).pool = p
          /\ wanted \in Nat
          /\ loop = "turn_on" => wanted = new_config.m_pool_map[p].worker_count
          /\ loop # "turn_on" => wanted = 0
      BY <2>1, ThreadArgsType DEF informedArgs, informedCount
    <2>3. current \in Nat
      BY DEF CountsNat
    <2>4. /\ IsConfig(m_config')
          /\ PoolNames(m_config') = PoolNames(m_config)
      BY <1>8, <2>1, ZeroWorkerCount DEF InformPool, TypeOK, MainTypeOK
    <2>5. \/ current > wanted /\ main_pc' = "stop" /\ inform' = stopped
          \/ current < wanted /\ main_pc' = "start" /\ inform' = started
          \/ current = wanted /\ main_pc' = "pools" /\ inform' = inform
      BY <1>8 DEF InformPool
    <2>6. /\ todo' = todo \ {p}
          /\ main_pc = "pools"
          /\ UNCHANGED <<workerVars, shutdown_type, loop, new_config>>
      BY <1>8 DEF InformPool
    <2> HIDE DEF current, wanted
    <2>7. /\ inform' \in [args : ThreadArgs \cup {NoArgs}, config_worker_count : Nat,
                          num_workers : Nat]
          /\ main_pc' \in {"stop", "start"} =>
               /\ inform'.args = threadArgs(config, p)
               /\ inform'.args \in ThreadArgs
               /\ inform'.args.pool = p
               /\ inform'.config_worker_count = wanted
               /\ inform'.num_workers > 0
          /\ main_pc' = "start" => loop = "turn_on"
      BY <2>2, <2>3, <2>5 DEF TypeOK, MainTypeOK
    <2>8. TypeOK'
      BY <2>4, <2>5, <2>6, <2>7 DEF workerVars, registryVars, threadVars, startVars, TypeOK,
         RegistryTypeOK, ThreadTypeOK, MainTypeOK, MainPlaces
    <2>9. RegistryInv' /\ HandshakeInv' /\ AssertionsHold'
      BY <2>6 DEF workerVars, registryVars, threadVars, startVars, RegistryInv,
         registered, HandshakeInv
    <2>10. InformInv'
      BY <2>1, <2>2, <2>4, <2>5, <2>6, <2>7 DEF InformInv
    <2> QED
      BY <2>8, <2>9, <2>10
  <1>9. CASE InformStop
    <2>1. /\ inform.args.pool \in Pools
          /\ inform.num_workers \in Nat
          /\ sendShutdown(inform.args.pool, inform.num_workers)
      BY <1>9 DEF InformStop, InformInv, ThreadArgs, TypeOK, MainTypeOK
    <2>2. /\ RegistryTypeOK'
          /\ DOMAIN m_thread_map' = DOMAIN m_thread_map
          /\ m_registry_store' = m_registry_store
          /\ m_registry_store[inform.args.pool] \subseteq DOMAIN m_thread_map
               => process' = process
      BY <2>1, SendShutdown DEF TypeOK
    <2>3. m_registry_store[inform.args.pool] \subseteq DOMAIN m_thread_map
      BY <2>1 DEF TypeOK, RegistryTypeOK, RegistryInv, registered
    <2>4. NoInform \in [args : ThreadArgs \cup {NoArgs}, config_worker_count : Nat,
                        num_workers : Nat]
      BY DEF NoInform
    <2>5. TypeOK'
      BY <1>9, <2>2, <2>4 DEF InformStop, threadVars, startVars, TypeOK,
         ThreadTypeOK, MainTypeOK, MainPlaces
    <2>6. RegistryInv' /\ HandshakeInv' /\ AssertionsHold'
      BY <1>9, <2>2, <2>3 DEF InformStop, threadVars, startVars, RegistryInv, registered,
         HandshakeInv
    <2>7. InformInv'
      BY <1>9 DEF InformStop, InformInv
    <2> QED
      BY <2>5, <2>6, <2>7
  <1>10. CASE InformSpawn
    <2>1. PICK t \in Tids :
            /\ thread_pc[t] = "none"
            /\ thread_pc' = [thread_pc EXCEPT ![t] = "spawned"]
            /\ thread_args' = [thread_args EXCEPT ![t] = inform.args]
      BY <1>10 DEF InformSpawn
    <2>2. inform.args \in ThreadArgs /\ inform.args # NoArgs
      BY <1>10, NoArgsAssumption DEF InformSpawn, InformInv
    <2>3. \A u \in Tids : thread_pc[u] \notin Starting
      BY <1>10 DEF InformSpawn, HandshakeInv
    <2>4. TypeOK'
      BY <1>10, <2>1, <2>2 DEF InformSpawn, registryVars, TypeOK, RegistryTypeOK,
         ThreadTypeOK, ThreadPlaces, MainTypeOK, MainPlaces
    <2>5. RegistryInv'
      BY <1>10, <2>1, <2>2 DEF InformSpawn, registryVars, RegistryInv, registered,
         RegisteredAt, TypeOK, ThreadTypeOK
    <2>6. HandshakeInv'
      BY <1>10, <2>1, <2>3 DEF InformSpawn, HandshakeInv, Starting, TypeOK, ThreadTypeOK
    <2>7. InformInv' /\ AssertionsHold'
      BY <1>10 DEF InformSpawn, InformInv
    <2> QED
      BY <2>4, <2>5, <2>6, <2>7
  <1>11. CASE AwaitNotified \/ AwaitSpurious
    <2>1. main_pc = "await" /\ WaitReturns
      BY <1>11 DEF AwaitNotified, AwaitSpurious
    <2>2. /\ inform' \in [args : ThreadArgs \cup {NoArgs}, config_worker_count : Nat,
                          num_workers : Nat]
          /\ main_pc' = "start" =>
               /\ inform'.args = inform.args
               /\ inform'.config_worker_count = inform.config_worker_count
               /\ inform'.num_workers > 0
      BY <2>1 DEF WaitReturns, NoInform, TypeOK, MainTypeOK
    <2>3. TypeOK'
      BY <2>1, <2>2 DEF WaitReturns, registryVars, threadVars, TypeOK, RegistryTypeOK,
         ThreadTypeOK, MainTypeOK, MainPlaces
    <2>4. RegistryInv' /\ HandshakeInv' /\ AssertionsHold'
      BY <2>1 DEF WaitReturns, registryVars, threadVars, RegistryInv, registered,
         HandshakeInv
    <2>5. InformInv'
      BY <2>1, <2>2 DEF WaitReturns, InformInv
    <2> QED
      BY <2>3, <2>4, <2>5
  <1>12. CASE AwaitAgain
    BY <1>12 DEF AwaitAgain, registryVars, threadVars, mainVars, TypeOK, RegistryTypeOK,
       ThreadTypeOK, MainTypeOK, RegistryInv, registered, InformInv, HandshakeInv
  <1> QED
    BY <1>1, <1>2, <1>3, <1>4, <1>5, <1>6, <1>8, <1>9, <1>10, <1>11, <1>12
    DEF MainStep

\* Every step of the daemon preserves the core invariant.
LEMMA CoreStep ==
  ASSUME CoreInv, CountsNat, [Next]_vars
  PROVE  CoreInv'
  <1>1. CASE Next /\ ~Ended
    BY <1>1, CoreWorker, CoreMain DEF Next
  <1>2. CASE Ended \/ UNCHANGED vars
    <2>0. UNCHANGED <<registryVars, process, threadVars, startVars, g_force_shutdown, mainVars>>
      BY <1>2 DEF Ended, vars, workerVars
    <2> USE DEF registryVars, threadVars, startVars, mainVars
    <2>1. RegistryTypeOK' /\ ThreadTypeOK' /\ AssertionsHold'
      BY <2>0 DEF CoreInv, TypeOK, RegistryTypeOK, ThreadTypeOK, AssertionsHold
    <2>2. MainTypeOK'
      BY <2>0 DEF CoreInv, TypeOK, MainTypeOK
    <2>3. RegistryInv' /\ HandshakeInv'
      BY <2>0 DEF CoreInv, RegistryInv, registered, HandshakeInv
    <2>4. InformInv'
      BY <2>0 DEF CoreInv, InformInv
    <2> QED
      BY <2>1, <2>2, <2>3, <2>4 DEF CoreInv, TypeOK
  <1> QED
    BY <1>1, <1>2

-----------------------------------------------------------------------------
(***************************************************************************)
(* What a step of a worker changes of the others: nothing.                 *)
(***************************************************************************)

\* setThreadState in full.
LEMMA SetThreadLabel ==
  ASSUME RegistryTypeOK, NEW t \in Tids, NEW label \in Labels, setThreadState(t, label),
         t \in DOMAIN m_thread_map
  PROVE  /\ DOMAIN m_thread_map' = DOMAIN m_thread_map
         /\ m_thread_map'[t].state = label
         /\ m_thread_map'[t].should_shutdown = m_thread_map[t].should_shutdown
         /\ \A u \in DOMAIN m_thread_map : u # t => m_thread_map'[u] = m_thread_map[u]
         /\ m_registry_store' = m_registry_store
         /\ process' = process
  <1>1. /\ DOMAIN m_thread_map' = DOMAIN m_thread_map
        /\ m_thread_map'[t] = [m_thread_map[t] EXCEPT !.state = label]
        /\ \A u \in DOMAIN m_thread_map : u # t => m_thread_map'[u] = m_thread_map[u]
        /\ m_registry_store' = m_registry_store
        /\ process' = process
    BY DEF setThreadState, DS_ASSERT
  <1>2. m_thread_map[t] \in ThreadData
    BY DEF RegistryTypeOK
  <1>3. /\ m_thread_map'[t].state = label
        /\ m_thread_map'[t].should_shutdown = m_thread_map[t].should_shutdown
    BY <1>1, <1>2 DEF ThreadData
  <1> QED
    BY <1>1, <1>3

Labelling(t) == ThreadLoopReady(t) \/ ClientTakesJob(t) \/ ClientEndsJob(t)

\* The steps of a worker that leave the registry alone.
Quiet(t) ==
    \/ DelegateConstruct(t) \/ DelegateConstructThrows(t) \/ DelegateNotify(t)
    \/ RunCheckForce(t) \/ RunCheckFlag(t) \/ ClientIdles(t) \/ ClientJobDone(t)
    \/ ClientThrows(t) \/ ClientTerminates(t) \/ ThreadEnd(t)

LEMMA WorkerSteps ==
  ASSUME NEW t \in Tids, Worker(t)
  PROVE  Quiet(t) \/ Labelling(t) \/ ThreadLoopRegister(t) \/ ThreadLoopUnregister(t)
  BY DEF Worker, WorkerStep, ClientStep, Quiet, Labelling

\* A labelled thread is registered, so that no assertion fails.
LEMMA LabelledStep ==
  ASSUME CoreInv, NEW t \in Tids, Labelling(t)
  PROVE  /\ registered(t) /\ DOMAIN m_thread_map' = DOMAIN m_thread_map
         /\ m_thread_map'[t].state =
              IF ClientTakesJob(t) THEN "job" ELSE "Waiting for work"
         /\ m_thread_map'[t].should_shutdown = m_thread_map[t].should_shutdown
         /\ \A u \in DOMAIN m_thread_map : u # t => m_thread_map'[u] = m_thread_map[u]
         /\ m_registry_store' = m_registry_store
         /\ process' = process
  <1>1. registered(t) /\ RegistryTypeOK
    BY DEF Labelling, ThreadLoopReady, ClientTakesJob, ClientEndsJob, Goto, CoreInv, TypeOK,
       RegistryInv, RegisteredAt
  <1>2. CASE ClientTakesJob(t)
    <2>1. setThreadState(t, "job") /\ "job" \in Labels
      BY <1>2 DEF ClientTakesJob, Labels
    <2> QED
      BY <1>1, <1>2, <2>1, SetThreadLabel DEF registered
  <1>3. CASE ~ClientTakesJob(t)
    <2>1. setThreadState(t, "Waiting for work") /\ "Waiting for work" \in Labels
      BY <1>3 DEF Labelling, ThreadLoopReady, ClientEndsJob, Labels
    <2> QED
      BY <1>1, <1>3, <2>1, SetThreadLabel DEF registered
  <1> QED
    BY <1>2, <1>3

LEMMA WorkerFrame ==
  ASSUME CoreInv, NEW t \in Tids, Worker(t), NEW u \in Tids, u # t
  PROVE  /\ registered(u)' <=> registered(u)
         /\ registered(u) => m_thread_map'[u] = m_thread_map[u]
         /\ thread_pc'[u] = thread_pc[u]
  <1>1. thread_pc'[u] = thread_pc[u]
    BY DEF Worker, WorkerStep, ClientStep, DelegateConstruct, DelegateConstructThrows,
       ThreadLoopRegister, ThreadLoopReady, DelegateNotify, RunCheckForce, RunCheckFlag,
       ClientIdles, ClientTakesJob, ClientEndsJob, ClientJobDone, ClientThrows,
       ClientTerminates, ThreadLoopUnregister, ThreadEnd, Goto, threadVars, CoreInv, TypeOK,
       ThreadTypeOK
  <1>2. CASE Quiet(t)
    <2>1. m_thread_map' = m_thread_map
      BY <1>2 DEF Quiet, DelegateConstruct, DelegateConstructThrows, DelegateNotify,
         RunCheckForce, RunCheckFlag, ClientIdles, ClientJobDone, ClientThrows,
         ClientTerminates, ThreadEnd, registryVars
    <2> QED
      BY <1>1, <2>1 DEF registered
  <1>3. CASE Labelling(t)
    BY <1>1, <1>3, LabelledStep DEF registered
  <1>4. CASE ThreadLoopRegister(t)
    <2>1. thread_args[t].pool \in Pools
      BY <1>4 DEF ThreadLoopRegister, Goto, CoreInv, RegistryInv, TypeOK, ThreadTypeOK, ThreadArgs
    <2>2. registerThread(thread_args[t].pool, t)
      BY <1>4 DEF ThreadLoopRegister
    <2> QED
      BY <1>1, <2>1, <2>2, RegisterThread DEF registered, CoreInv, TypeOK
  <1>5. CASE ThreadLoopUnregister(t)
    <2>1. thread_args[t].pool \in Pools
      BY <1>5 DEF ThreadLoopUnregister, Goto, CoreInv, RegistryInv, TypeOK, ThreadTypeOK,
         ThreadArgs
    <2>2. unregisterThread(thread_args[t].pool, t)
      BY <1>5 DEF ThreadLoopUnregister
    <2> QED
      BY <1>1, <2>1, <2>2, UnregisterThread DEF registered, CoreInv, TypeOK
  <1> QED
    BY <1>2, <1>3, <1>4, <1>5, WorkerSteps

\* A step of a worker makes no thread able to take work but the one that the
\* main thread is waiting for, and changes the arguments of none.
LEMMA WorkerKeepsFlags ==
  ASSUME CoreInv, NEW t \in Tids, Worker(t), NEW u \in Tids, mayTakeWork(u)'
  PROVE  \/ mayTakeWork(u) /\ thread_args'[u] = thread_args[u]
         \/ main_pc = "await" /\ thread_args'[u] = inform.args
  <1> USE DEF mayTakeWork, registered
  <1>1. CASE UNCHANGED registryVars /\ UNCHANGED thread_args
    BY <1>1 DEF registryVars
  <1>2. CASE ThreadLoopReady(t) \/ ClientTakesJob(t) \/ ClientEndsJob(t)
    <2>1. \E label \in Labels : setThreadState(t, label)
      BY <1>2 DEF ThreadLoopReady, ClientTakesJob, ClientEndsJob, Labels
    <2>2. /\ DOMAIN m_thread_map' = DOMAIN m_thread_map
          /\ \A v \in DOMAIN m_thread_map :
               m_thread_map'[v].should_shutdown = m_thread_map[v].should_shutdown
      BY <2>1, SetThreadState DEF CoreInv, TypeOK
    <2> QED
      BY <1>2, <2>2 DEF ThreadLoopReady, ClientTakesJob, ClientEndsJob
  <1>3. CASE ThreadLoopRegister(t)
    <2>1. /\ thread_pc[t] = "constructed"
          /\ registerThread(thread_args[t].pool, t)
          /\ thread_args' = thread_args
      BY <1>3 DEF ThreadLoopRegister, Goto
    <2>2. main_pc = "await" /\ thread_args[t] = inform.args
      BY <2>1 DEF CoreInv, HandshakeInv, Starting
    <2>3. thread_args[t].pool \in Pools
      BY <2>2 DEF CoreInv, InformInv, ThreadArgs
    <2>4. /\ DOMAIN m_thread_map' = DOMAIN m_thread_map \cup {t}
          /\ \A v \in DOMAIN m_thread_map : v # t => m_thread_map'[v] = m_thread_map[v]
      BY <2>1, <2>3, RegisterThread DEF CoreInv, TypeOK
    <2> QED
      BY <2>1, <2>2, <2>4
  <1>4. CASE ThreadLoopUnregister(t)
    <2>1. /\ thread_pc[t] = "leaving"
          /\ unregisterThread(thread_args[t].pool, t)
          /\ thread_args' = thread_args
      BY <1>4 DEF ThreadLoopUnregister, Goto
    <2>2. thread_args[t].pool \in Pools
      BY <2>1 DEF CoreInv, RegistryInv, TypeOK, ThreadTypeOK, ThreadArgs
    <2>3. /\ DOMAIN m_thread_map' = DOMAIN m_thread_map \ {t}
          /\ \A v \in DOMAIN m_thread_map : v # t => m_thread_map'[v] = m_thread_map[v]
      BY <2>1, <2>2, UnregisterThread DEF CoreInv, TypeOK
    <2> QED
      BY <2>1, <2>3
  <1>5. CASE ThreadEnd(t)
    <2>1. u # t
      BY <1>5 DEF ThreadEnd, Goto, registryVars, CoreInv, RegistryInv, RegisteredAt
    <2> QED
      BY <1>5, <2>1 DEF ThreadEnd, registryVars, CoreInv, TypeOK, ThreadTypeOK
  <1> QED
    BY <1>1, <1>2, <1>3, <1>4, <1>5
    DEF Worker, WorkerStep, ClientStep, DelegateConstruct, DelegateConstructThrows, DelegateNotify,
        RunCheckForce, RunCheckFlag, ClientIdles, ClientJobDone, ClientThrows,
        ClientTerminates, threadVars

\* doShutdown never returns to the loop that reloads, a thread inside
\* processJob has the label of its job, and no thread is told to stop while
\* it is still starting.
PromiseInv ==
    /\ g_force_shutdown => loop = "clear_all" /\ main_pc \in {"pools", "stop", "drain"}
    /\ \A t \in Tids :
         /\ thread_pc[t] = "job" => m_thread_map[t].state = "job"
         /\ thread_pc[t] = "registered" => ~m_thread_map[t].should_shutdown

LEMMA PromiseStep ==
  ASSUME CoreInv, CountsNat, PromiseInv, Next
  PROVE  PromiseInv'
  <1>1. ASSUME NEW t \in Tids, Worker(t)
        PROVE  PromiseInv'
    <2>1. UNCHANGED <<g_force_shutdown, loop, main_pc>>
      BY <1>1 DEF Worker, mainVars, WorkerStep, ClientStep, DelegateConstruct,
         DelegateConstructThrows, ThreadLoopRegister, ThreadLoopReady, DelegateNotify,
         RunCheckForce, RunCheckFlag, ClientIdles, ClientTakesJob, ClientEndsJob,
         ClientJobDone, ClientThrows, ClientTerminates, ThreadLoopUnregister, ThreadEnd
    <2>2. \A u \in Tids \ {t} :
            /\ thread_pc'[u] = "job" => m_thread_map'[u].state = "job"
            /\ thread_pc'[u] = "registered" => ~m_thread_map'[u].should_shutdown
      <3>1. \A u \in Tids : thread_pc[u] \in {"job", "registered"} => registered(u)
        BY DEF CoreInv, RegistryInv, RegisteredAt
      <3> QED
        BY <1>1, <3>1, WorkerFrame DEF PromiseInv
    <2>3. thread_pc'[t] = "job" => m_thread_map'[t].state = "job"
      <3>1. CASE ClientTakesJob(t)
        BY <3>1, LabelledStep DEF Labelling
      <3>2. CASE ClientTerminates(t) \/ DelegateConstructThrows(t)
        BY <3>2 DEF ClientTerminates, DelegateConstructThrows, threadVars, registryVars,
           PromiseInv
      <3>3. CASE ~(ClientTakesJob(t) \/ ClientTerminates(t) \/ DelegateConstructThrows(t))
        BY <1>1, <3>3 DEF Worker, WorkerStep, ClientStep, DelegateConstruct,
           ThreadLoopRegister, ThreadLoopReady, DelegateNotify, RunCheckForce, RunCheckFlag,
           ClientIdles, ClientEndsJob, ClientJobDone, ClientThrows, ThreadLoopUnregister,
           ThreadEnd, Goto, CoreInv, TypeOK, ThreadTypeOK
      <3> QED
        BY <3>1, <3>2, <3>3
    <2>4. thread_pc'[t] = "registered" => ~m_thread_map'[t].should_shutdown
      <3>1. CASE ThreadLoopRegister(t)
        <4>1. thread_args[t].pool \in Pools /\ registerThread(thread_args[t].pool, t)
          BY <3>1 DEF ThreadLoopRegister, Goto, CoreInv, RegistryInv, TypeOK, ThreadTypeOK,
             ThreadArgs
        <4> QED
          BY <4>1, RegisterThread DEF CoreInv, TypeOK
      <3>2. CASE ClientTerminates(t) \/ DelegateConstructThrows(t)
        BY <3>2 DEF ClientTerminates, DelegateConstructThrows, threadVars, registryVars,
           PromiseInv
      <3>3. CASE ~(ThreadLoopRegister(t) \/ ClientTerminates(t) \/ DelegateConstructThrows(t))
        BY <1>1, <3>3 DEF Worker, WorkerStep, ClientStep, DelegateConstruct, ThreadLoopReady,
           DelegateNotify, RunCheckForce, RunCheckFlag, ClientIdles, ClientTakesJob,
           ClientEndsJob, ClientJobDone, ClientThrows, ThreadLoopUnregister, ThreadEnd, Goto,
           CoreInv, TypeOK, ThreadTypeOK
      <3> QED
        BY <3>1, <3>2, <3>3
    <2> QED
      BY <2>1, <2>2, <2>3, <2>4 DEF PromiseInv
  <1>2. CASE InformStop
    <2>1. sendShutdown(inform.args.pool, inform.num_workers) /\ UNCHANGED thread_pc
      BY <1>2 DEF InformStop, threadVars
    <2>2. \A t \in DOMAIN m_thread_map : m_thread_map'[t].state = m_thread_map[t].state
      BY <2>1 DEF sendShutdown, CoreInv, TypeOK, RegistryTypeOK, ThreadData
    <2>3. \A t \in Tids : /\ thread_pc[t] = "job" => t \in DOMAIN m_thread_map
                          /\ thread_pc[t] # "registered"
      BY <1>2 DEF InformStop, At, CoreInv, RegistryInv, RegisteredAt, registered, HandshakeInv,
         Starting
    <2> QED
      BY <1>2, <2>1, <2>2, <2>3 DEF InformStop, PromiseInv, At
  <1>3. CASE InformSpawn
    BY <1>3 DEF InformSpawn, At, PromiseInv, registryVars, CoreInv, TypeOK, ThreadTypeOK
  <1>4. CASE \/ SwitchShutdown \/ LoadConfig \/ LoadConfigThrows \/ BeginTurnOn
             \/ FinishSupersede \/ SleepDone \/ FinishClearAll \/ DrainDone \/ Signal
             \/ InformSpawnThrows \/ AwaitNotified \/ AwaitSpurious \/ AwaitAgain \/ Ended
    <2>1. UNCHANGED <<thread_pc, m_thread_map>>
      BY <1>4 DEF SwitchShutdown, LoadConfig, LoadConfigThrows, BeginTurnOn, FinishSupersede,
         SleepDone, FinishClearAll, DrainDone, Signal, InformSpawnThrows, AwaitNotified,
         AwaitSpurious, AwaitAgain, WaitReturns, Ended, vars, workerVars, registryVars,
         threadVars
    <2>2. g_force_shutdown' => loop' = "clear_all" /\ main_pc' \in {"pools", "stop", "drain"}
      <3>1. CASE \/ SwitchShutdown \/ LoadConfig \/ LoadConfigThrows \/ BeginTurnOn
                 \/ FinishSupersede \/ SleepDone \/ FinishClearAll
        BY <3>1 DEF SwitchShutdown, LoadConfig, LoadConfigThrows, BeginTurnOn, FinishSupersede,
           SleepDone, FinishClearAll, workerVars, mainVars, PromiseInv, At
      <3>2. CASE \/ DrainDone \/ Signal \/ InformSpawnThrows \/ AwaitNotified
                 \/ AwaitSpurious \/ AwaitAgain \/ Ended
        BY <3>2 DEF DrainDone, Signal, InformSpawnThrows, AwaitNotified, AwaitSpurious,
           AwaitAgain, WaitReturns, Ended, vars, workerVars, mainVars, PromiseInv, At
      <3> QED
        BY <1>4, <3>1, <3>2
    <2> QED
      BY <2>1, <2>2 DEF PromiseInv
  <1>5. ASSUME NEW p \in Pools, InformPool(p)
        PROVE  PromiseInv'
    <2>1. /\ UNCHANGED <<thread_pc, m_thread_map, loop, g_force_shutdown>>
          /\ main_pc = "pools" /\ main_pc' \in {"pools", "stop", "start"}
      BY <1>5 DEF InformPool, workerVars, registryVars, threadVars, At
    <2>2. main_pc' = "start" => loop = "turn_on"
      <3>1. ASSUME loop # "turn_on"
            PROVE  main_pc' # "start"
        <4>1. poolCount(p) \in Nat /\ informedCount(p) = 0
          BY <3>1 DEF CountsNat, informedCount
        <4> QED
          BY <1>5, <2>1, <4>1 DEF InformPool
      <3> QED
        BY <3>1
    <2> QED
      BY <2>1, <2>2 DEF PromiseInv
  <1> QED
    BY <1>1, <1>2, <1>3, <1>4, <1>5 DEF Next, MainStep

-----------------------------------------------------------------------------
(***************************************************************************)
(* The start handshake: nobody waits for a wakeup that does not come.      *)
(***************************************************************************)

LEMMA WakeupInit == Init => WakeupInv
  BY FreeAssumption DEF Init, ThreadInit, MainInit, WakeupInv

\* After SUCCESS and its notification a thread has no part in the handshake.
LEMMA WorkerHandshake ==
  ASSUME CoreInv, NEW t \in Tids, Worker(t)
  PROVE  \/ DelegateConstruct(t) \/ ThreadLoopRegister(t) \/ ThreadLoopReady(t)
         \/ DelegateNotify(t)
         \/ UNCHANGED <<startVars, thread_pc>> /\ process' # "running"
         \/ /\ UNCHANGED startVars
            /\ \E to \in ThreadPlaces \ (Starting \cup {"notify"}) :
                 /\ thread_pc[t] \notin Starting \cup {"notify"}
                 /\ thread_pc' = [thread_pc EXCEPT ![t] = to]
                 /\ thread_pc[t] # to
  <1>1. CASE DelegateConstructThrows(t) \/ ClientTerminates(t)
    BY <1>1 DEF DelegateConstructThrows, ClientTerminates, threadVars
  <1>2. CASE \/ RunCheckForce(t) \/ RunCheckFlag(t)
             \/ ClientIdles(t) \/ ClientTakesJob(t) \/ ClientJobDone(t)
             \/ ClientEndsJob(t) \/ ClientThrows(t) \/ ThreadLoopUnregister(t)
             \/ ThreadEnd(t)
    BY <1>2 DEF RunCheckForce, RunCheckFlag, ClientIdles, ClientTakesJob, ClientJobDone,
       ClientEndsJob, ClientThrows, ThreadLoopUnregister, ThreadEnd, Goto, ThreadPlaces,
       RegisteredAt, Starting
  <1> QED
    BY <1>1, <1>2 DEF Worker, WorkerStep, ClientStep

LEMMA WakeupWorker ==
  ASSUME CoreInv, WakeupInv, NEW t \in Tids, Worker(t)
  PROVE  WakeupInv'
  <1>0. /\ thread_pc \in [Tids -> ThreadPlaces]
        /\ main_pc' = main_pc
        /\ \A u \in Tids : thread_pc[u] \in Starting => s_new_thread_wakeup = "INIT"
        /\ \A u \in Tids : thread_pc[u] \in Starting /\ thread_pc[t] \in Starting => u = t
    BY DEF CoreInv, TypeOK, ThreadTypeOK, HandshakeInv, Worker, mainVars
  <1>1. CASE DelegateConstruct(t)
    BY <1>0, <1>1, FreeAssumption DEF DelegateConstruct, Goto, WakeupInv, Starting
  <1>2. CASE ThreadLoopRegister(t)
    BY <1>0, <1>2 DEF ThreadLoopRegister, Goto, startVars, WakeupInv, Starting
  <1>3. CASE ThreadLoopReady(t)
    BY <1>0, <1>3, FreeAssumption DEF ThreadLoopReady, Goto, WakeupInv, Starting
  <1>4. CASE DelegateNotify(t)
    BY <1>0, <1>4 DEF DelegateNotify, Goto, WakeupInv, Starting
  <1>5. CASE UNCHANGED <<startVars, thread_pc>>
    BY <1>0, <1>5 DEF startVars, WakeupInv
  <1>6. ASSUME UNCHANGED startVars,
               NEW to \in ThreadPlaces \ (Starting \cup {"notify"}),
               thread_pc[t] \notin Starting \cup {"notify"},
               thread_pc' = [thread_pc EXCEPT ![t] = to]
        PROVE  WakeupInv'
    BY <1>0, <1>6 DEF startVars, WakeupInv, Starting
  <1> QED
    BY <1>1, <1>2, <1>3, <1>4, <1>5, <1>6, WorkerHandshake

LEMMA WakeupStep ==
  ASSUME CoreInv, WakeupInv, Next
  PROVE  WakeupInv'
  <1>1. CASE InformSpawn
    <2>1. PICK t \in Tids :
            /\ thread_pc[t] = "none"
            /\ thread_pc' = [thread_pc EXCEPT ![t] = "spawned"]
      BY <1>1 DEF InformSpawn
    <2> QED
      BY <1>1, <2>1, FreeAssumption DEF InformSpawn, WakeupInv, Starting, CoreInv, TypeOK,
         ThreadTypeOK
  <1>2. CASE AwaitAgain
    BY <1>2 DEF AwaitAgain, threadVars, mainVars, WakeupInv
  <1>3. CASE AwaitNotified \/ AwaitSpurious
    BY <1>3 DEF AwaitNotified, AwaitSpurious, WaitReturns, threadVars, WakeupInv
  <1>4. CASE \/ SwitchShutdown \/ LoadConfig \/ LoadConfigThrows \/ BeginTurnOn
             \/ FinishSupersede \/ SleepDone \/ FinishClearAll \/ DrainDone \/ Signal
             \/ InformStop \/ InformSpawnThrows \/ Ended
             \/ \E p \in Pools : InformPool(p)
    <2>1. UNCHANGED <<startVars, thread_pc>> /\ (main_pc' = "await" => main_pc = "await")
      BY <1>4 DEF SwitchShutdown, LoadConfig, LoadConfigThrows, BeginTurnOn, FinishSupersede,
         SleepDone, FinishClearAll, DrainDone, Signal, InformStop, InformSpawnThrows, Ended,
         InformPool, vars, workerVars, threadVars, mainVars
    <2> QED
      BY <2>1 DEF startVars, WakeupInv
  <1> QED
    BY <1>1, <1>2, <1>3, <1>4, WakeupWorker DEF Next, MainStep

\* Why the handshake goes on: SUCCESS is set under the mutex, before the
\* notification, and the main thread tests it before it sleeps again.
LEMMA WakeupNeverStuck == CoreInv /\ WakeupInv => HandshakeNeverStuck
  <1> SUFFICES ASSUME CoreInv, WakeupInv PROVE HandshakeNeverStuck
    OBVIOUS
  <1>1. s_new_thread_mutex \in Tids \cup {"free"}
    BY DEF CoreInv, TypeOK, ThreadTypeOK
  <1>2. s_new_thread_mutex # "free" =>
          \E t \in Tids : s_new_thread_mutex = t /\ thread_pc[t] \in {"constructed", "registered"}
    BY <1>1 DEF WakeupInv
  <1>3. At("start") => s_new_thread_mutex = "free"
    BY <1>2 DEF At, CoreInv, HandshakeInv, Starting
  <1>4. ASSUME At("await"), s_new_thread_wakeup = "INIT"
        PROVE  \E t \in Tids :
                 \/ thread_pc[t] = "spawned" /\ s_new_thread_mutex = "free"
                 \/ thread_pc[t] \in {"constructed", "registered"} /\ s_new_thread_mutex = t
    <2>1. PICK t \in Tids : thread_pc[t] \in Starting
      BY <1>4 DEF At, WakeupInv
    <2>2. s_new_thread_mutex # "free" => s_new_thread_mutex = t
      BY <1>2, <2>1 DEF CoreInv, HandshakeInv, Starting
    <2> QED
      BY <2>1, <2>2, FreeAssumption DEF WakeupInv, Starting
  <1>5. ASSUME At("await"), s_new_thread_wakeup # "INIT"
        PROVE  \/ s_new_thread_cond = "notified" /\ s_new_thread_mutex = "free"
               \/ \E t \in Tids : thread_pc[t] = "notify"
    <2>1. s_new_thread_mutex = "free"
      BY <1>2, <1>5 DEF CoreInv, HandshakeInv, Starting
    <2>2. s_new_thread_cond \in {"waiting", "notified"}
      BY <1>5 DEF At, WakeupInv, CoreInv, TypeOK, ThreadTypeOK
    <2> QED
      BY <1>5, <2>1, <2>2 DEF At, WakeupInv
  <1> QED
    BY <1>3, <1>4, <1>5 DEF HandshakeNeverStuck

-----------------------------------------------------------------------------
(***************************************************************************)
(* Progress: the main thread once a signal came.                           *)
(***************************************************************************)

\* A step of the main thread that leaves its own state alone ends the process
\* or goes back to sleep.
LEMMA MainMoves ==
  ASSUME MainStep \/ AwaitSpurious, process' = "running", UNCHANGED mainVars
  PROVE  /\ UNCHANGED thread_pc
         /\ s_new_thread_cond = "notified" /\ s_new_thread_cond' = "waiting"
  <1>1. ~(LoadConfigThrows \/ DrainDone \/ InformSpawnThrows)
    BY DEF LoadConfigThrows, DrainDone, InformSpawnThrows, leaveMain
  <1>2. ~(SwitchShutdown \/ LoadConfig \/ BeginTurnOn \/ FinishSupersede \/ SleepDone
          \/ FinishClearAll \/ InformStop \/ InformSpawn \/ AwaitNotified \/ AwaitSpurious)
    BY DEF mainVars, At, SwitchShutdown, LoadConfig, BeginTurnOn, FinishSupersede, SleepDone,
       FinishClearAll, InformStop, InformSpawn, AwaitNotified, AwaitSpurious, WaitReturns
  <1>3. ~\E p \in Pools : InformPool(p)
    BY DEF mainVars, InformPool
  <1>4. AwaitAgain
    BY <1>1, <1>2, <1>3 DEF MainStep
  <1> QED
    BY <1>4 DEF AwaitAgain, threadVars

LEMMA SignalledMain ==
  ASSUME CoreInv, CountsNat, MainStep \/ AwaitSpurious, shutdown_type # "NO",
         process' = "running"
  PROVE  nearer
  <1> USE DEF At
  <1>1. ~(LoadConfig \/ LoadConfigThrows \/ DrainDone \/ InformSpawnThrows)
    BY DEF LoadConfig, LoadConfigThrows, DrainDone, InformSpawnThrows, leaveMain
  <1>2. CASE SwitchShutdown \/ BeginTurnOn \/ FinishSupersede \/ SleepDone \/ FinishClearAll
    <2>1. CASE SwitchShutdown
      <3>1. stage = 2 /\ stage' = 1
        BY <2>1 DEF stage, inLoop, SwitchShutdown
      <3> QED
        BY <3>1 DEF nearer
    <2>2. CASE BeginTurnOn
      <3>1. stage = 5 /\ stage' = 4
        BY <2>2 DEF stage, inLoop, BeginTurnOn
      <3> QED
        BY <3>1 DEF nearer
    <2>3. CASE FinishSupersede
      <3>1. stage = 4 /\ stage' = 3
        BY <2>3 DEF stage, inLoop, FinishSupersede
      <3> QED
        BY <3>1 DEF nearer
    <2>4. CASE SleepDone
      <3>1. stage = 3 /\ stage' = 2
        BY <2>4 DEF stage, inLoop, SleepDone
      <3> QED
        BY <3>1 DEF nearer
    <2>5. CASE FinishClearAll
      <3>1. stage = 1 /\ stage' = 0
        BY <2>5 DEF stage, inLoop, FinishClearAll
      <3> QED
        BY <3>1 DEF nearer
    <2> QED
      BY <1>2, <2>1, <2>2, <2>3, <2>4, <2>5
  <1>3. ASSUME NEW p \in Pools, InformPool(p)
        PROVE  nearer
    <2>1. /\ main_pc = "pools" /\ main_pc' \in {"pools", "stop", "start"} /\ loop' = loop
          /\ todo' = todo \ {p} /\ p \in todo
      BY <1>3 DEF InformPool
    <2>2. stage' = stage
      BY <2>1 DEF stage, inLoop
    <2> QED
      BY <2>1, <2>2 DEF nearer
  <1>4. CASE InformStop \/ InformSpawn \/ AwaitNotified \/ AwaitSpurious
    <2>1. /\ main_pc \in {"stop", "start", "await"}
          /\ main_pc' \in {"pools", "start", "await"}
          /\ loop' = loop /\ todo' = todo
      BY <1>4 DEF InformStop, InformSpawn, AwaitNotified, AwaitSpurious, WaitReturns
    <2>2. stage' = stage
      BY <2>1 DEF stage, inLoop
    <2>3. inform.num_workers \in Nat /\ inform.num_workers > 0
      BY <2>1 DEF CoreInv, TypeOK, MainTypeOK, InformInv
    <2>4. informLeft' < informLeft
      <3>1. CASE InformStop
        BY <3>1 DEF informLeft, InformStop
      <3>2. CASE InformSpawn
        BY <2>3, <3>2 DEF informLeft, InformSpawn
      <3>3. CASE (AwaitNotified \/ AwaitSpurious) /\ inform.num_workers > 1
        <4>1. /\ main_pc = "await" /\ main_pc' = "start"
              /\ inform'.num_workers = inform.num_workers - 1
          BY <3>3 DEF AwaitNotified, AwaitSpurious, WaitReturns, CoreInv, TypeOK, MainTypeOK
        <4> QED
          BY <2>3, <4>1 DEF informLeft
      <3>4. CASE (AwaitNotified \/ AwaitSpurious) /\ ~(inform.num_workers > 1)
        <4>1. main_pc = "await" /\ main_pc' = "pools"
          BY <3>4 DEF AwaitNotified, AwaitSpurious, WaitReturns
        <4> QED
          BY <2>3, <4>1 DEF informLeft
      <3> QED
        BY <1>4, <3>1, <3>2, <3>3, <3>4
    <2> QED
      BY <2>1, <2>2, <2>4 DEF nearer
  <1>5. CASE AwaitAgain
    <2>1. /\ UNCHANGED <<main_pc, loop, todo, inform, thread_pc>>
          /\ s_new_thread_cond = "notified" /\ s_new_thread_cond' = "waiting"
      BY <1>5 DEF AwaitAgain, mainVars, threadVars
    <2>2. UNCHANGED <<stage, informLeft, toNotify>>
      BY <2>1 DEF stage, inLoop, informLeft, toNotify
    <2> QED
      BY <2>1, <2>2 DEF nearer
  <1> QED
    BY <1>1, <1>2, <1>3, <1>4, <1>5 DEF MainStep

LEMMA SignalledOthers ==
  ASSUME CoreInv, Signal \/ (\E t \in Tids : Worker(t)), process' = "running"
  PROVE  \/ nearer
         \/ /\ ~MainStep /\ ~AwaitSpurious
            /\ UNCHANGED <<stage, todo, informLeft, toNotify, s_new_thread_cond>>
  <1>0. thread_pc \in [Tids -> ThreadPlaces]
    BY DEF CoreInv, TypeOK, ThreadTypeOK
  <1>1. UNCHANGED <<main_pc, loop, todo, inform>>
    BY DEF Signal, Worker, mainVars
  <1>2. UNCHANGED <<stage, todo, informLeft>>
    BY <1>1 DEF stage, inLoop, informLeft
  <1>3. CASE Signal
    <2>1. UNCHANGED <<process, startVars, thread_pc, m_config, new_config>>
      BY <1>3 DEF Signal, workerVars, threadVars
    <2>2. UNCHANGED toNotify
      BY <2>1 DEF toNotify
    <2>3. ~MainStep /\ ~AwaitSpurious
      <3>1. SUFFICES ASSUME MainStep \/ AwaitSpurious PROVE FALSE
        OBVIOUS
      <3>2. CASE UNCHANGED shutdown_type
        BY <1>1, <2>1, <3>1, <3>2, MainMoves DEF mainVars, startVars
      <3>3. CASE ~UNCHANGED shutdown_type
        BY <3>1, <3>3 DEF MainStep, SwitchShutdown, LoadConfig, LoadConfigThrows, BeginTurnOn,
           FinishSupersede, SleepDone, FinishClearAll, DrainDone, InformPool, InformStop,
           InformSpawn, InformSpawnThrows, AwaitNotified, AwaitAgain, AwaitSpurious,
           WaitReturns, mainVars
      <3> QED
        BY <3>2, <3>3
    <2> QED
      BY <1>2, <2>1, <2>2, <2>3 DEF startVars
  <1>4. ASSUME NEW t \in Tids, Worker(t)
        PROVE  \/ nearer
               \/ /\ ~MainStep /\ ~AwaitSpurious
                  /\ UNCHANGED <<toNotify, s_new_thread_cond>>
    <2>1. UNCHANGED mainVars
      BY <1>4 DEF Worker
    <2>2. CASE DelegateNotify(t)
      <3>1. toNotify' \subseteq toNotify /\ toNotify' # toNotify
        <4>1. t \in toNotify /\ t \notin toNotify'
          BY <1>0, <2>2 DEF DelegateNotify, Goto, toNotify, Starting
        <4>2. toNotify' \subseteq toNotify
          BY <1>0, <2>2 DEF DelegateNotify, Goto, toNotify, Starting
        <4> QED
          BY <4>1, <4>2
      <3> QED
        BY <1>2, <3>1 DEF nearer
    <2>3. CASE ~DelegateNotify(t)
      <3>1. /\ UNCHANGED s_new_thread_cond
            /\ \E to \in ThreadPlaces :
                 /\ to # thread_pc[t]
                 /\ thread_pc' = [thread_pc EXCEPT ![t] = to]
                 /\ to \in Starting \cup {"notify"} <=> thread_pc[t] \in Starting \cup {"notify"}
        BY <1>4, <2>3, WorkerHandshake DEF DelegateConstruct, ThreadLoopRegister,
           ThreadLoopReady, Goto, startVars, ThreadPlaces, RegisteredAt, Starting
      <3>2. toNotify' = toNotify
        BY <1>0, <3>1 DEF toNotify
      <3>3. thread_pc' # thread_pc
        BY <1>0, <3>1
      <3> QED
        BY <2>1, <3>1, <3>2, <3>3, MainMoves
    <2> QED
      BY <2>2, <2>3
  <1> QED
    BY <1>2, <1>3, <1>4

-----------------------------------------------------------------------------
(***************************************************************************)
(* Progress: a thread that was told to stop.                               *)
(***************************************************************************)

\* A step of a worker that does not end the process takes it elsewhere.
LEMMA WorkerMoves ==
  ASSUME CoreInv, NEW t \in Tids, WorkerStep(t), process' = "running"
  PROVE  thread_pc'[t] # thread_pc[t]
  BY DEF CoreInv, TypeOK, ThreadTypeOK, WorkerStep, ClientStep, DelegateConstruct,
     DelegateConstructThrows, ThreadLoopRegister, ThreadLoopReady, DelegateNotify,
     RunCheckForce, RunCheckFlag, ClientIdles, ClientTakesJob, ClientEndsJob, ClientJobDone,
     ClientThrows, ClientTerminates, ThreadLoopUnregister, ThreadEnd, Goto

\* What a step must do to a flagged thread that stays registered.
flaggedOn(t) ==
    /\ ~mayTakeWork(t)'
    /\ stepsLeft(t)' <= stepsLeft(t)
    /\ WorkerStep(t) => stepsLeft(t)' < stepsLeft(t)

LEMMA StepsLeftType ==
  ASSUME NEW t
  PROVE  stepsLeft(t) \in 1..6
  BY DEF stepsLeft

\* A step that leaves a thread where it is, with its flag and its label, does
\* not take it back.
LEMMA FlaggedStays ==
  ASSUME CoreInv, NEW t \in Tids, registered(t), ~mayTakeWork(t), process' = "running",
         thread_pc'[t] = thread_pc[t], registered(t)',
         m_thread_map'[t].should_shutdown = m_thread_map[t].should_shutdown,
         m_thread_map'[t].state = m_thread_map[t].state
  PROVE  flaggedOn(t)
  <1>1. ~mayTakeWork(t)'
    BY DEF mayTakeWork
  <1>2. stepsLeft(t)' = stepsLeft(t)
    BY DEF stepsLeft, answerPending
  <1>3. ~WorkerStep(t)
    BY WorkerMoves
  <1>4. stepsLeft(t)' <= stepsLeft(t)
    BY <1>2, StepsLeftType
  <1> QED
    BY <1>1, <1>3, <1>4 DEF flaggedOn

LEMMA FlaggedSelf ==
  ASSUME CoreInv, PromiseInv, NEW t \in Tids, Worker(t), registered(t), ~mayTakeWork(t),
         process' = "running", registered(t)'
  PROVE  flaggedOn(t)
  <1>0. /\ thread_pc \in [Tids -> ThreadPlaces]
        /\ thread_pc[t] \in RegisteredAt \ {"registered"}
        /\ m_thread_map[t].should_shutdown
        /\ process # "assert_failed"
    BY DEF CoreInv, TypeOK, ThreadTypeOK, RegistryInv, AssertionsHold, PromiseInv, mayTakeWork
  <1>1. SUFFICES /\ m_thread_map'[t].should_shutdown
                 /\ stepsLeft(t)' < stepsLeft(t)
    <2>1. ASSUME stepsLeft(t)' < stepsLeft(t) PROVE stepsLeft(t)' <= stepsLeft(t)
      <3>1. stepsLeft(t) \in 1..6
        BY StepsLeftType
      <3>2. stepsLeft(t)' \in 1..6
        BY DEF stepsLeft
      <3> QED
        BY <2>1, <3>1, <3>2
    <2>2. ASSUME m_thread_map'[t].should_shutdown PROVE ~mayTakeWork(t)'
      BY <2>2 DEF mayTakeWork
    <2> QED
      BY <2>1, <2>2 DEF flaggedOn
  <1>2. CASE Labelling(t)
    <2>1. m_thread_map'[t].should_shutdown
      <3>1. m_thread_map[t].should_shutdown = TRUE
        BY <1>0 DEF CoreInv, TypeOK, RegistryTypeOK, registered, ThreadData
      <3>2. m_thread_map'[t].should_shutdown = TRUE
        BY <1>2, <3>1, LabelledStep
      <3> QED
        BY <3>2
    <2>2. CASE ClientTakesJob(t)
      <3>1. thread_pc[t] = "client" /\ ~answerPending(t) /\ thread_pc'[t] = "job"
        BY <1>0, <2>2 DEF ClientTakesJob, Goto
      <3>2. stepsLeft(t) = 6 /\ stepsLeft(t)' = 5
        BY <3>1 DEF stepsLeft
      <3> QED
        BY <2>1, <3>2
    <2>3. CASE ClientEndsJob(t)
      <3>1. thread_pc[t] = "client" /\ answerPending(t) /\ thread_pc'[t] = "check_force"
        BY <1>0, <2>3 DEF ClientEndsJob, Goto
      <3>2. stepsLeft(t) = 4 /\ stepsLeft(t)' = 3
        BY <3>1 DEF stepsLeft
      <3> QED
        BY <2>1, <3>2
    <2>4. ~ThreadLoopReady(t)
      BY <1>0 DEF ThreadLoopReady, Goto
    <2> QED
      BY <1>2, <2>2, <2>3, <2>4 DEF Labelling
  <1>3. CASE Quiet(t)
    <2>1. m_thread_map' = m_thread_map
      BY <1>3 DEF Quiet, DelegateConstruct, DelegateConstructThrows, DelegateNotify,
         RunCheckForce, RunCheckFlag, ClientIdles, ClientJobDone, ClientThrows,
         ClientTerminates, ThreadEnd, registryVars
    <2>2. CASE DelegateNotify(t)
      <3>1. stepsLeft(t) = 4 /\ stepsLeft(t)' = 3
        BY <1>0, <2>2 DEF DelegateNotify, Goto, stepsLeft
      <3> QED
        BY <1>0, <2>1, <3>1
    <2>3. CASE RunCheckForce(t)
      <3>1. stepsLeft(t) = 3 /\ thread_pc'[t] \in {"leaving", "check_flag"}
        BY <1>0, <2>3 DEF RunCheckForce, Goto, stepsLeft
      <3>2. stepsLeft(t)' \in {1, 2}
        BY <3>1 DEF stepsLeft
      <3> QED
        BY <1>0, <2>1, <3>1, <3>2
    <2>4. CASE RunCheckFlag(t)
      <3>1. shouldShutdown(t)
        BY <1>0 DEF shouldShutdown, registered
      <3>2. thread_pc[t] = "check_flag" /\ thread_pc'[t] = "leaving"
        BY <1>0, <2>4, <3>1 DEF RunCheckFlag, Goto
      <3>3. stepsLeft(t) = 2 /\ stepsLeft(t)' = 1
        BY <3>2 DEF stepsLeft
      <3> QED
        BY <1>0, <2>1, <3>3
    <2>5. CASE ClientIdles(t)
      <3>1. thread_pc[t] = "client" /\ thread_pc'[t] = "check_force"
        BY <1>0, <2>5 DEF ClientIdles, Goto
      <3>2. stepsLeft(t) \in {4, 6} /\ stepsLeft(t)' = 3
        BY <3>1 DEF stepsLeft
      <3> QED
        BY <1>0, <2>1, <3>2
    <2>6. CASE ClientJobDone(t)
      <3>1. /\ thread_pc[t] = "job" /\ thread_pc'[t] = "client"
            /\ m_thread_map[t].state = "job"
        BY <1>0, <2>6 DEF ClientJobDone, Goto, PromiseInv
      <3>2. stepsLeft(t) = 5 /\ stepsLeft(t)' = 4
        BY <2>1, <3>1 DEF stepsLeft, answerPending
      <3> QED
        BY <1>0, <2>1, <3>2
    <2>7. CASE ClientThrows(t)
      <3>1. thread_pc[t] = "client" /\ thread_pc'[t] = "leaving"
        BY <1>0, <2>7 DEF ClientThrows, Goto
      <3>2. stepsLeft(t) \in {4, 6} /\ stepsLeft(t)' = 1
        BY <3>1 DEF stepsLeft
      <3> QED
        BY <1>0, <2>1, <3>2
    <2>8. ~(DelegateConstruct(t) \/ DelegateConstructThrows(t) \/ ClientTerminates(t)
            \/ ThreadEnd(t))
      BY <1>0 DEF DelegateConstruct, DelegateConstructThrows, ClientTerminates, ThreadEnd, Goto,
         RegisteredAt
    <2> QED
      BY <1>3, <2>2, <2>3, <2>4, <2>5, <2>6, <2>7, <2>8 DEF Quiet
  <1>4. ~ThreadLoopRegister(t)
    BY <1>0 DEF ThreadLoopRegister, Goto, RegisteredAt
  <1>5. ~ThreadLoopUnregister(t)
    BY DEF ThreadLoopUnregister, unregisterThread, registered
  <1> QED
    BY <1>2, <1>3, <1>4, <1>5, WorkerSteps

LEMMA FlaggedStep ==
  ASSUME CoreInv, PromiseInv, Next, NEW t \in Tids, registered(t), ~mayTakeWork(t),
         process' = "running", registered(t)'
  PROVE  flaggedOn(t)
  <1>1. CASE \E u \in Tids : Worker(u)
    <2>1. ASSUME NEW u \in Tids, Worker(u), u # t
          PROVE  flaggedOn(t)
      BY <2>1, WorkerFrame, FlaggedStays
    <2> QED
      BY <1>1, <2>1, FlaggedSelf
  <1>2. CASE InformStop
    <2>1. /\ sendShutdown(inform.args.pool, inform.num_workers)
          /\ UNCHANGED thread_pc
      BY <1>2 DEF InformStop, threadVars
    <2>2. m_thread_map'[t] = m_thread_map[t]
      <3>1. t \notin unflagged(inform.args.pool) /\ t \in DOMAIN m_thread_map
        BY DEF unflagged, mayTakeWork, registered
      <3> QED
        BY <2>1, <3>1 DEF sendShutdown
    <2> QED
      BY <2>1, <2>2, FlaggedStays
  <1>3. CASE InformSpawn
    <2>1. thread_pc'[t] = thread_pc[t] /\ UNCHANGED m_thread_map
      BY <1>3 DEF InformSpawn, registryVars, CoreInv, TypeOK, ThreadTypeOK, RegistryInv,
         RegisteredAt
    <2> QED
      BY <2>1, FlaggedStays
  <1>4. CASE \/ SwitchShutdown \/ LoadConfig \/ LoadConfigThrows \/ BeginTurnOn
             \/ FinishSupersede \/ SleepDone \/ FinishClearAll \/ DrainDone \/ Signal
             \/ InformSpawnThrows \/ AwaitNotified \/ AwaitSpurious \/ AwaitAgain \/ Ended
             \/ \E p \in Pools : InformPool(p)
    <2>1. UNCHANGED <<thread_pc, m_thread_map>>
      BY <1>4 DEF SwitchShutdown, LoadConfig, LoadConfigThrows, BeginTurnOn, FinishSupersede,
         SleepDone, FinishClearAll, DrainDone, Signal, InformSpawnThrows, AwaitNotified,
         AwaitSpurious, AwaitAgain, WaitReturns, InformPool, Ended, vars, workerVars,
         registryVars, threadVars
    <2> QED
      BY <2>1, FlaggedStays
  <1> QED
    BY <1>1, <1>2, <1>3, <1>4 DEF Next, MainStep

=============================================================================
