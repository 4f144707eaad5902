--------------------------- MODULE ThreadRegistry ---------------------------
(***************************************************************************)
(* The registry of worker threads (thread-registry.cpp): which threads     *)
(* exist, the pool each belongs to, and whether it was told to shut down.  *)
(* Every method holds m_mutex from its first to its last line, so each is  *)
(* one atomic step of the thread that calls it.                            *)
(***************************************************************************)
EXTENDS Naturals, FiniteSets, CommonDefs

CONSTANT Tids    \* thread ids; an id may be reused once its thread has ended

VARIABLES
    m_thread_map,      \* tid -> ThreadData, for the registered threads
    m_registry_store,  \* pool -> set of tids
    process            \* how the process is, or ended

registryVars == <<m_thread_map, m_registry_store>>

ASSUME TidsAssumption == IsFiniteSet(Tids)

ProcessStates == {"running", "exit0", "exit1", "assert_failed", "uncaught"}

Labels == {"Starting up", "Waiting for work", "job"}

ThreadData == [pool : Pools, should_shutdown : BOOLEAN, state : Labels]

RegistryTypeOK ==
    /\ DOMAIN m_thread_map \in SUBSET Tids
    /\ m_thread_map \in [DOMAIN m_thread_map -> ThreadData]
    /\ m_registry_store \in [Pools -> SUBSET Tids]
    /\ process \in ProcessStates

\* m_registry_store[pool] inserts an empty set for a pool it does not hold.
RegistryInit ==
    /\ m_thread_map = [t \in {} |-> 0]
    /\ m_registry_store = [p \in Pools |-> {}]

\* DS_ASSERT throws, and every method is noexcept: the process terminates.
DS_ASSERT(cond) == process' = IF cond THEN process ELSE "assert_failed"

-----------------------------------------------------------------------------
registerThread(pool, tid) ==
    /\ DS_ASSERT(/\ tid \notin m_registry_store[pool]
                 /\ tid \notin DOMAIN m_thread_map)
    /\ m_registry_store' = [m_registry_store EXCEPT ![pool] = @ \cup {tid}]
    /\ m_thread_map' =
         [t \in DOMAIN m_thread_map \cup {tid} |->
            IF t = tid
            THEN [pool |-> pool, should_shutdown |-> FALSE, state |-> "Starting up"]
            ELSE m_thread_map[t]]

\* Mutant: the entry of m_thread_map is left behind.
unregisterThreadHalf(pool, tid) ==
    /\ DS_ASSERT(/\ tid \in m_registry_store[pool]
                 /\ tid \in DOMAIN m_thread_map)
    /\ m_registry_store' = [m_registry_store EXCEPT ![pool] = @ \ {tid}]
    /\ UNCHANGED m_thread_map

unregisterThread(pool, tid) ==
    /\ DS_ASSERT(/\ tid \in m_registry_store[pool]
                 /\ tid \in DOMAIN m_thread_map)
    /\ m_registry_store' = [m_registry_store EXCEPT ![pool] = @ \ {tid}]
    /\ m_thread_map' = [t \in DOMAIN m_thread_map \ {tid} |-> m_thread_map[t]]

poolCount(pool) == Cardinality(m_registry_store[pool])

(***************************************************************************)
(* sendShutdown walks the pool's threads and flags the first count of them *)
(* that are not flagged yet.  Thread ids carry no meaning, so which ones   *)
(* come first is any choice.  msg_sent is compared after it is incremented,*)
(* so a count of 0 would flag every thread.                                *)
(***************************************************************************)
unflagged(pool) ==
    {t \in m_registry_store[pool] \cap DOMAIN m_thread_map :
        ~m_thread_map[t].should_shutdown}

\* Mutants: the walk stops one thread early, or never.
messagesSentShort(count, candidates) ==
    IF count = 0 \/ count > candidates THEN candidates ELSE count - 1

messagesSentAll(count, candidates) == candidates

messagesSent(count, candidates) ==
    IF count = 0 \/ count > candidates THEN candidates ELSE count

sendShutdown(pool, count) ==
    /\ DS_ASSERT(m_registry_store[pool] \subseteq DOMAIN m_thread_map)
    /\ \E S \in SUBSET unflagged(pool) :
         /\ Cardinality(S) = messagesSent(count, Cardinality(unflagged(pool)))
         /\ m_thread_map' =
              [t \in DOMAIN m_thread_map |->
                 IF t \in S
                 THEN [m_thread_map[t] EXCEPT !.should_shutdown = TRUE]
                 ELSE m_thread_map[t]]
    /\ UNCHANGED m_registry_store

\* The flag shouldShutdown returns; its caller takes the step.
shouldShutdown(tid) == tid \in DOMAIN m_thread_map /\ m_thread_map[tid].should_shutdown

setThreadState(tid, label) ==
    /\ DS_ASSERT(tid \in DOMAIN m_thread_map)
    /\ m_thread_map' =
         [t \in DOMAIN m_thread_map |->
            IF t = tid THEN [m_thread_map[t] EXCEPT !.state = label]
                       ELSE m_thread_map[t]]
    /\ UNCHANGED m_registry_store
=============================================================================
