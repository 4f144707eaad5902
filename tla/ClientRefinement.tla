-------------------------- MODULE ClientRefinement --------------------------
(***************************************************************************)
(* GearmanClient and ThreadLoop each model a side of m_client->run():      *)
(* ThreadLoop lets the client take a job, end it, return or throw, and     *)
(* GearmanClient shows how.  What the second does inside run(), the first  *)
(* allows, seen through the place the thread is at and the label that      *)
(* setThreadState gives it.                                                *)
(***************************************************************************)
EXTENDS GearmanClient

\* In the loop, in run(), in processJob, or past the loop.
place(t) ==
    CASE client_pc[t] \in Processing -> "job"
      [] client_pc[t] \in {"run", "answer", "complete", "completing"} -> "client"
      [] client_pc[t] = "out" -> "check_force"
      [] client_pc[t] = "none" -> "none"
      [] OTHER -> "leaving"

\* processJob labels the thread with its job, and run() takes the label away
\* when the job is answered and reported.
label(t) ==
    IF job[t] # NoJob \/ client_pc[t] \in {"complete", "completing"}
    THEN "job" ELSE "Waiting for work"

Loop == INSTANCE ThreadLoop WITH
            Pools <- {}, Tids <- Clients, Files <- {}, NoArgs <- NoJob,
            m_thread_map <- [t \in Clients |-> [state |-> label(t)]],
            m_registry_store <- <<>>,
            thread_pc <- [t \in Clients |-> place(t)],
            thread_args <- <<>>,
            s_new_thread_mutex <- "free",
            s_new_thread_wakeup <- "SUCCESS",
            s_new_thread_cond <- "idle"

inRun(t) == place(t) \in {"client", "job"}

\* Whatever libgearman, libcurl and the endpoint do, each step that a client
\* takes inside run() is one that ThreadLoop allows it, or does not show: a
\* second job is never taken before the first is answered, and the label is
\* that of the job as long as it is owed an answer.  It ends the process only
\* inside processJob.
RunRefinesThreadLoop ==
    [][/\ \A t \in Clients :
            inRun(t) => Loop!ClientStep(t) \/ (place(t) = place(t)' /\ label(t) = label(t)')
       /\ process' # process => \E t \in Clients : Loop!ClientTerminates(t)]_vars
=============================================================================
