-------------------------- MODULE DriveshaftConfig --------------------------
(***************************************************************************)
(* The configuration of driveshaft (driveshaft-config.cpp) as pure         *)
(* operators: what a configuration file loads to, when loading throws, and *)
(* which pools one configuration must restart when another supersedes it.  *)
(* The calls supersede() makes on the pool watcher interleave with worker  *)
(* threads, so they are actions of MainLoop.                               *)
(*                                                                         *)
(* A JSON value is a record whose field kind is its type.  A scalar also   *)
(* carries text, the string asString() converts it to; an array carries    *)
(* elems; an object carries members.  A key that is absent has the kind    *)
(* "missing".  Order and repetition in arrays are left out: both lists are *)
(* inserted in a std::set.                                                 *)
(***************************************************************************)
EXTENDS Integers, CommonDefs

CONSTANT Files    \* the states the configuration file may be found in

(***************************************************************************)
(* struct PoolData, PoolMap and the members of the class.  m_load_time is  *)
(* left out: MainLoop::run loads into a fresh object, whose load time is 0.*)
(***************************************************************************)
PoolData == [worker_count : Nat, job_processing_uri : STRING,
             job_list : SUBSET STRING]

IsConfig(config) ==
    /\ config = [m_server_list |-> config.m_server_list,
                 m_pool_map |-> config.m_pool_map]
    /\ config.m_server_list \in SUBSET STRING
    /\ DOMAIN config.m_pool_map \in SUBSET Pools
    /\ config.m_pool_map \in [DOMAIN config.m_pool_map -> PoolData]

EmptyConfig == [m_server_list |-> {}, m_pool_map |-> [p \in {} |-> 0]]

FreshLoadTime == 0

PoolNames(config) == DOMAIN config.m_pool_map

-----------------------------------------------------------------------------
(***************************************************************************)
(* Parsing.                                                                *)
(***************************************************************************)
asStringThrows(v) == v.kind \in {"array", "object"}

validateConfigNode(doc) ==
    /\ doc.gearman_servers_list.kind = "array"
    /\ doc.pools_list.kind = "object"

parseServerListThrows(doc) ==
    \E v \in doc.gearman_servers_list.elems : v.kind # "string"

parseServerList(doc) == {v.text : v \in doc.gearman_servers_list.elems}

\* An element of jobs_list that is not a string is only logged; asString()
\* then converts it, and throws when it is an array or an object.
parsePoolThrows(node) ==
    \/ node.worker_count.kind # "uint"
    \/ node.jobs_list.kind # "array"
    \/ node.job_processing_uri.kind # "string"
    \/ \E v \in node.jobs_list.elems : asStringThrows(v)

parsePool(node) ==
    [worker_count |-> node.worker_count.value,
     job_processing_uri |-> node.job_processing_uri.text,
     job_list |-> {v.text : v \in node.jobs_list.elems}]

parsePoolListThrows(doc) ==
    \E p \in DOMAIN doc.pools_list.members :
        parsePoolThrows(doc.pools_list.members[p])

parsePoolList(doc) ==
    [p \in DOMAIN doc.pools_list.members |->
        parsePool(doc.pools_list.members[p])]

parseConfigThrows(doc) ==
    \/ ~doc.is_json
    \/ ~validateConfigNode(doc)
    \/ parseServerListThrows(doc)
    \/ parsePoolListThrows(doc)

parseConfig(doc) == [m_server_list |-> parseServerList(doc),
                     m_pool_map |-> parsePoolList(doc)]

(***************************************************************************)
(* Loading.  A file whose modification time is not after the load time of  *)
(* the fresh object is not read, and the object stays empty.               *)
(***************************************************************************)
needsConfigUpdate(file) == file.mtime > FreshLoadTime

loadThrows(file) ==
    \/ ~file.has_mtime
    \/ needsConfigUpdate(file) /\ (~file.readable \/ parseConfigThrows(file.doc))

load(file) ==
    IF needsConfigUpdate(file) THEN parseConfig(file.doc) ELSE EmptyConfig

-----------------------------------------------------------------------------
(***************************************************************************)
(* Comparing two configurations.                                           *)
(***************************************************************************)
\* Mutant: the job lists are not compared.
poolChangedIgnoringJobs(old, new, p) ==
    old.m_pool_map[p].job_processing_uri # new.m_pool_map[p].job_processing_uri

poolChanged(old, new, p) ==
    \/ old.m_pool_map[p].job_processing_uri # new.m_pool_map[p].job_processing_uri
    \/ old.m_pool_map[p].job_list # new.m_pool_map[p].job_list

changedPools(old, new) ==
    {p \in PoolNames(old) \cap PoolNames(new) : poolChanged(old, new, p)}

\* Mutants of compare: the server list is not compared; removed pools are
\* not turned off.
compareIgnoringServers(old, new) ==
    [turn_off |-> (PoolNames(old) \ PoolNames(new)) \cup changedPools(old, new),
     turn_on  |-> (PoolNames(new) \ PoolNames(old)) \cup changedPools(old, new)]

compareKeepingRemoved(old, new) ==
    IF old.m_server_list # new.m_server_list
    THEN [turn_off |-> PoolNames(old), turn_on |-> PoolNames(new)]
    ELSE [turn_off |-> changedPools(old, new),
          turn_on  |-> (PoolNames(new) \ PoolNames(old)) \cup changedPools(old, new)]

compare(old, new) ==
    IF old.m_server_list # new.m_server_list
    THEN [turn_off |-> PoolNames(old), turn_on |-> PoolNames(new)]
    ELSE [turn_off |-> (PoolNames(old) \ PoolNames(new)) \cup changedPools(old, new),
          turn_on  |-> (PoolNames(new) \ PoolNames(old)) \cup changedPools(old, new)]

\* The assignment clearWorkerCount makes before it informs the watcher.
zeroWorkerCount(config, p) ==
    [config EXCEPT !.m_pool_map[p].worker_count = 0]

(***************************************************************************)
(* The arguments inform() receives for a pool and hands to every thread it *)
(* starts for the pool.                                                    *)
(***************************************************************************)
ThreadArgs == [pool : Pools, servers_list : SUBSET STRING,
               jobs_list : SUBSET STRING, http_uri : STRING]

threadArgs(config, p) ==
    [pool |-> p,
     servers_list |-> config.m_server_list,
     jobs_list |-> config.m_pool_map[p].job_list,
     http_uri |-> config.m_pool_map[p].job_processing_uri]

(***************************************************************************)
(* What compare is for: the pools of c that d drops, or whose threads it   *)
(* starts differently.                                                     *)
(***************************************************************************)
replaced(c, d) ==
    {p \in PoolNames(c) : ~(p \in PoolNames(d) /\ threadArgs(c, p) = threadArgs(d, p))}

(***************************************************************************)
(* What a file may hold: any JSON at all.  A scalar has a text, a number   *)
(* that isUInt() accepts a value, and the keys of pools_list are the names *)
(* of pools; nothing is assumed of the kinds, which parsing must check.    *)
(***************************************************************************)
isElement(v) == asStringThrows(v) \/ v.text \in STRING

isList(v) == v.kind = "array" => \A e \in v.elems : isElement(e)

isPoolNode(node) ==
    /\ node.worker_count.kind = "uint" => node.worker_count.value \in Nat
    /\ node.job_processing_uri.kind = "string" => node.job_processing_uri.text \in STRING
    /\ isList(node.jobs_list)

isDocument(doc) ==
    /\ isList(doc.gearman_servers_list)
    /\ doc.pools_list.kind = "object" =>
         \A p \in DOMAIN doc.pools_list.members :
             p \in Pools /\ isPoolNode(doc.pools_list.members[p])

ASSUME FilesAssumption ==
    \A f \in Files : f.readable /\ f.doc.is_json => isDocument(f.doc)
=============================================================================
