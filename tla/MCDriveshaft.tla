---------------------------- MODULE MCDriveshaft ----------------------------
(***************************************************************************)
(* Small instances of Driveshaft for TLC.                                  *)
(***************************************************************************)
EXTENDS PoolRefinement, TLC

str(s) == [kind |-> "string", text |-> s]
arr(S) == [kind |-> "array", elems |-> {str(s) : s \in S}]
uint(n) == [kind |-> "uint", value |-> n, text |-> ToString(n)]
missing == [kind |-> "missing"]

pool(count, jobs, uri) ==
    [worker_count |-> uint(count), jobs_list |-> arr(jobs),
     job_processing_uri |-> str(uri)]

file(servers, pools) ==
    [has_mtime |-> TRUE, mtime |-> 1, readable |-> TRUE,
     doc |-> [is_json |-> TRUE, gearman_servers_list |-> arr(servers),
              pools_list |-> [kind |-> "object", members |-> pools]]]

\* A file that is not JSON, and one whose modification time is the epoch.
malformed == [file({}, [p \in {} |-> 0]) EXCEPT !.doc.is_json = FALSE]
epoch == [file({"s1"}, "A" :> pool(1, {"j1"}, "u1")) EXCEPT !.mtime = 0]

\* One pool that grows, shrinks, changes its URI and disappears.
OnePool == {"A"}
OnePoolFiles ==
    {file({"s1"}, "A" :> pool(2, {"j1"}, "u1")),
     file({"s1"}, "A" :> pool(1, {"j1"}, "u1")),
     file({"s1"}, "A" :> pool(1, {"j1"}, "u2")),
     malformed, epoch}

\* Two pools; the files change the servers, the jobs and which pools exist.
TwoPools == {"A", "B"}
TwoPoolsFiles ==
    {file({"s1"}, "A" :> pool(1, {"j1"}, "u1") @@ "B" :> pool(1, {"j2"}, "u1")),
     file({"s1"}, "A" :> pool(1, {"j1", "j2"}, "u1")),
     file({"s2"}, "A" :> pool(1, {"j1"}, "u1"))}

\* One pool whose worker_count alone changes.
ShrinkFiles ==
    {file({"s1"}, "A" :> pool(3, {"j1"}, "u1")),
     file({"s1"}, "A" :> pool(2, {"j1"}, "u1"))}

\* The same, small enough for the liveness properties.
SettleFiles ==
    {file({"s1"}, "A" :> pool(2, {"j1"}, "u1")),
     file({"s1"}, "A" :> pool(1, {"j1"}, "u1"))}

ThreadSymmetry == Permutations(Tids)
=============================================================================
