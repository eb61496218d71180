----------------------------- MODULE Background ----------------------------
(***************************************************************************)
(* What a handle does behind a request's back (handle.rs): the prefetch of *)
(* packs after a refs sync, the install of a base's history pack, and the  *)
(* requests that wait for the latter.  Each is started once at a time by a *)
(* flag; both take pack_mutex.                                             *)
(***************************************************************************)
EXTENDS Integers

CONSTANTS
    Waiters,     \* requests that wait for the history pack
    MaxSpawns    \* bound: background jobs started

ASSUME BackgroundAssumption == MaxSpawns \in Nat

VARIABLES
    inflight,   \* job -> its flag (prefetch_inflight, history_install_inflight)
    bgjob,      \* job -> where it is
    pack_mutex, \* who holds it
    waiter,     \* request -> where it is in wait_history_pack_installed
    spawned     \* jobs started so far

backVars == <<inflight, bgjob, pack_mutex, waiter, spawned>>
BgJobs == {"prefetch", "history"}

BackInit ==
    /\ inflight = [j \in BgJobs |-> FALSE] /\ bgjob = [j \in BgJobs |-> "idle"]
    /\ pack_mutex = "free" /\ spawned = 0
    /\ waiter = [w \in Waiters |-> "idle"]

\* spawn_pack_prefetch, spawn_history_pack_install: the flag is swapped, and whoever
\* finds it up leaves.
Spawn(j) ==
    /\ spawned < MaxSpawns /\ ~inflight[j] /\ bgjob[j] \in {"idle", "stored"}
    /\ inflight' = [inflight EXCEPT ![j] = TRUE]
    \* a job that has only its wake-up left is not waited for
    /\ bgjob' = [bgjob EXCEPT ![j] = IF @ = "stored" THEN "both" ELSE "lock"]
    /\ spawned' = spawned + 1
    /\ UNCHANGED <<pack_mutex, waiter>>

BgLock(j) ==
    /\ bgjob[j] = "lock" /\ pack_mutex = "free"
    /\ pack_mutex' = j /\ bgjob' = [bgjob EXCEPT ![j] = "work"]
    /\ UNCHANGED <<inflight, waiter, spawned>>

\* reconcile_packs_inner; done or failed, the mutex is free again.
BgWork(j) ==
    /\ bgjob[j] = "work"
    /\ pack_mutex' = "free" /\ bgjob' = [bgjob EXCEPT ![j] = "worked"]
    /\ UNCHANGED <<inflight, waiter, spawned>>

\* Mutant: the waiters are woken before the flag is down.
BgEnd_NotifyFirst(j) ==
    /\ bgjob[j] \in {"worked", "stored", "both"}
    /\ IF bgjob[j] = "worked"
       THEN /\ bgjob' = [bgjob EXCEPT ![j] = "stored"] /\ UNCHANGED inflight
            /\ waiter' = IF j = "history" THEN [w \in Waiters |-> IF waiter[w] \in {"made", "parked"} THEN "woken" ELSE waiter[w]] ELSE waiter
       ELSE /\ bgjob' = [bgjob EXCEPT ![j] = "idle"] /\ inflight' = [inflight EXCEPT ![j] = FALSE]
            /\ UNCHANGED waiter
    /\ UNCHANGED <<pack_mutex, spawned>>

\* The flag is down first; then notify_waiters, for the history pack.
BgEnd(j) ==
    /\ bgjob[j] \in {"worked", "stored", "both"}
    /\ IF bgjob[j] = "worked"
       THEN /\ bgjob' = [bgjob EXCEPT ![j] = "stored"] /\ inflight' = [inflight EXCEPT ![j] = FALSE]
            /\ UNCHANGED waiter
       ELSE /\ bgjob' = [bgjob EXCEPT ![j] = IF @ = "both" THEN "lock" ELSE "idle"]
            /\ UNCHANGED inflight
            /\ waiter' = IF j = "history" THEN [w \in Waiters |-> IF waiter[w] \in {"made", "parked"} THEN "woken" ELSE waiter[w]] ELSE waiter
    /\ UNCHANGED <<pack_mutex, spawned>>

\* wait_history_pack_installed: the notification is made before the flag is looked at.
WaitHistory(w) ==
    /\ waiter[w] \in {"idle", "made", "woken"}
    /\ waiter' = [waiter EXCEPT ![w] = CASE @ \in {"idle", "woken"} -> "made"
                                         [] OTHER -> IF inflight["history"] THEN "parked" ELSE "past"]
    /\ UNCHANGED <<inflight, bgjob, pack_mutex, spawned>>

BackNext ==
    \/ \E j \in BgJobs : Spawn(j) \/ BgLock(j) \/ BgWork(j) \/ BgEnd(j)
    \/ \E w \in Waiters : WaitHistory(w)

BackFairness == (\A j \in BgJobs : WF_backVars(BgLock(j)) /\ WF_backVars(BgWork(j)) /\ WF_backVars(BgEnd(j)))
                /\ \A w \in Waiters : WF_backVars(WaitHistory(w))
BackSpec == BackInit /\ [][BackNext]_backVars /\ BackFairness

\* wait_history_pack_installed against the install: a request that is parked has a wake-up
\* to come, whatever is spawned between the flag and the notification.
NoLostWakeup == \A w \in Waiters : waiter[w] = "parked" => bgjob["history"] # "idle"

\* Both jobs change the pack directory: never at the same time.
OneReconcile == ~(bgjob["prefetch"] = "work" /\ bgjob["history"] = "work")

\* Every request that waits gets on: the jobs take the mutex in turn and each ends.
WaiterGetsOn == \A w \in Waiters : waiter[w] # "idle" ~> waiter[w] = "past"
============================================================================
