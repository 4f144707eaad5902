------------------------- MODULE MCDriveshaftConfig -------------------------
(***************************************************************************)
(* Driveshaft with one worker thread and every small configuration file,   *)
(* so that any configuration may follow any other: to check load, compare  *)
(* and supersede (driveshaft-config.cpp).                                  *)
(***************************************************************************)
EXTENDS Driveshaft, TLC

str(s) == [kind |-> "string", text |-> s]
uint(n) == [kind |-> "uint", value |-> n, text |-> ToString(n)]
missing == [kind |-> "missing"]
nested == [kind |-> "array", elems |-> {}]

Arrays(S) == {[kind |-> "array", elems |-> E] : E \in SUBSET S}

\* A job may be named by a number, which asString() converts.
PoolNodes(uris) ==
    [worker_count : {uint(1), missing},
     jobs_list : Arrays({str("1"), uint(1), str("j"), nested}),
     job_processing_uri : {str(u) : u \in uris}]

PoolLists ==
    {[p \in {} |-> 0]}
        \cup [{"A"} -> PoolNodes({"u1", "u2"})]
        \cup {[p \in {"A", "B"} |-> node] : node \in PoolNodes({"u1"})}
        \cup {"B" :> [worker_count |-> uint(0), jobs_list |-> nested,
                     job_processing_uri |-> str("u1")]}

Documents ==
    {[is_json |-> TRUE, gearman_servers_list |-> servers,
      pools_list |-> [kind |-> "object", members |-> pools]] :
        servers \in Arrays({str("s")}), pools \in PoolLists}

MCPools == {"A", "B"}

MCFiles == {[has_mtime |-> TRUE, mtime |-> m, readable |-> TRUE, doc |-> d] :
               m \in {0, 1}, d \in Documents}
=============================================================================
