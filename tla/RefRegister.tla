---------------------------- MODULE RefRegister -----------------------------
(***************************************************************************)
(* What publishing promises its clients: the refs of a repository are one  *)
(* linearizable register.  A push takes effect at a single instant, after  *)
(* it is submitted and while every old value it names is the current one.  *)
(* "ok" is answered only after that instant and "rejected" only to a push  *)
(* that never takes effect; "error" leaves the outcome open.               *)
(***************************************************************************)
EXTENDS RefTxn

CONSTANTS Pushes, TxnOf

VARIABLES
    cur,      \* the current refs
    done,     \* pushes that took effect
    status    \* what each client knows of its push

vars == <<cur, done, status>>

Init ==
    /\ cur = NoRefs
    /\ done = {}
    /\ status = [p \in Pushes |-> "new"]

Begin(p) ==
    /\ status[p] = "new"
    /\ status' = [status EXCEPT ![p] = "pending"]
    /\ UNCHANGED <<cur, done>>

Commit(p) ==
    /\ status[p] = "pending" /\ p \notin done
    /\ VerifyTxn(TxnOf[p], cur)
    /\ cur' = ApplyTxn(TxnOf[p], cur)
    /\ done' = done \cup {p}
    /\ UNCHANGED status

Reply(p, a) ==
    /\ status[p] = "pending"
    /\ a = "ok" => p \in done
    /\ a = "rejected" => p \notin done
    /\ status' = [status EXCEPT ![p] = a]
    /\ UNCHANGED <<cur, done>>

Next ==
    \E p \in Pushes : \/ Begin(p) \/ Commit(p)
                      \/ \E a \in {"ok", "rejected", "error"} : Reply(p, a)

Spec == Init /\ [][Next]_vars
=============================================================================
