----------------------------- MODULE WorkerPool -----------------------------
(***************************************************************************)
(* What driveshaft promises of the workers of its pools, whatever threads, *)
(* locks, flags and configuration objects it keeps the promise with:       *)
(*   - a worker joins a pool only below the limit the configuration gives  *)
(*     it, and none joins once the daemon is shutting down;                *)
(*   - a worker has one job at a time, and no other until that is answered *)
(*     or the worker leaves;                                               *)
(*   - a worker that was told to stop takes at most one more job, and none *)
(*     when it had one then;                                               *)
(*   - the word to stop is never taken back, but in a worker's next life.  *)
(***************************************************************************)
EXTENDS Naturals, FiniteSets

CONSTANTS Pools, Workers

VARIABLES
    members,    \* the workers of each pool
    status,     \* what a worker may still do
    busy,       \* the workers that owe an answer
    limit,      \* the limit of each pool
    closing,    \* is the daemon shutting down?
    running     \* does the process still run?

vars == <<members, status, busy, limit, closing, running>>

\* A live worker takes one job after another, a finishing one at most one
\* more, a stopped one none.
Statuses == {"absent", "live", "finishing", "stopped"}

Init ==
    /\ members = [p \in Pools |-> {}]
    /\ status = [t \in Workers |-> "absent"]
    /\ busy = {}
    /\ limit = [p \in Pools |-> 0]
    /\ closing = FALSE
    /\ running = TRUE

becomes(t, to) == status' = [status EXCEPT ![t] = to]

Reconfigure ==
    /\ ~closing
    /\ limit' \in [Pools -> Nat]
    /\ UNCHANGED <<members, status, busy, closing, running>>

Close ==
    /\ closing' = TRUE
    /\ UNCHANGED <<members, status, busy, limit, running>>

Join(p, t) ==
    /\ ~closing
    /\ status[t] = "absent"
    /\ Cardinality(members[p]) < limit[p]
    /\ members' = [members EXCEPT ![p] = @ \cup {t}]
    /\ becomes(t, "live")
    /\ UNCHANGED <<busy, limit, closing, running>>

\* Some live workers of a pool are told to stop, at whatever point each is.
Stop(p) ==
    /\ DOMAIN status' = Workers
    /\ \A t \in Workers :
         \/ status'[t] = status[t]
         \/ /\ t \in members[p] /\ status[t] = "live"
            /\ status'[t] \in {"finishing", "stopped"}
            /\ t \in busy => status'[t] = "stopped"
    /\ UNCHANGED <<members, busy, limit, closing, running>>

TakeJob(t) ==
    /\ t \notin busy
    /\ \/ status[t] = "live" /\ UNCHANGED status
       \/ status[t] = "finishing" /\ becomes(t, "stopped")
    /\ busy' = busy \cup {t}
    /\ UNCHANGED <<members, limit, closing, running>>

AnswerJob(t) ==
    /\ t \in busy
    /\ busy' = busy \ {t}
    /\ UNCHANGED <<members, status, limit, closing, running>>

\* A finishing worker got no job in the time it waits for one.
GiveUp(t) ==
    /\ status[t] = "finishing"
    /\ becomes(t, "stopped")
    /\ UNCHANGED <<members, busy, limit, closing, running>>

\* A worker leaves, told to or because it failed; gearmand gives the job it
\* may owe an answer to another.
Leave(p, t) ==
    /\ t \in members[p]
    /\ members' = [members EXCEPT ![p] = @ \ {t}]
    /\ becomes(t, "absent")
    /\ busy' = busy \ {t}
    /\ UNCHANGED <<limit, closing, running>>

End ==
    /\ running' = FALSE
    /\ UNCHANGED <<members, status, busy, limit, closing>>

Next ==
    /\ running
    /\ \/ Reconfigure
       \/ Close
       \/ End
       \/ \E p \in Pools : Stop(p)
       \/ \E p \in Pools, t \in Workers : Join(p, t) \/ Leave(p, t)
       \/ \E t \in Workers : TakeJob(t) \/ AnswerJob(t) \/ GiveUp(t)

Spec == Init /\ [][Next]_vars
=============================================================================
