----------------------------- MODULE MCProgress -----------------------------
(* What must happen in the end: the delivery of events, the end of a        *)
(* checkpoint, the wake-up of a request that waits for an install.  The     *)
(* parts share nothing; each behaviour is a behaviour of one of them while  *)
(* the others rest.                                                         *)
EXTENDS EventsBridge, Background, TLC

CONSTANTS b1, b2, i1, i2, w1

VARIABLES
    part,    \* the module whose behaviour this is
    manifest, snap, ckCommitted, man, refs, applied, saved, verified, sy, pub, ck, rd

\* One checkpoint task beside publishers on two instances.
Ck == INSTANCE WalCheckpoint WITH
          Instances <- {i1, i2}, Writers <- {w1}, Readers <- {}, HostOf <- [w \in {w1} |-> i1],
          MaxSeq <- 2, MaxAttempts <- 2, Races <- {"mid_sync"}, committed <- ckCommitted

ckVars == <<manifest, snap, ckCommitted, man, refs, applied, saved, verified, sy, pub, ck, rd>>
mcVars == <<part, eventVars, backVars, ckVars>>

Init ==
    /\ part \in {"events", "background", "checkpoint"}
    /\ EventsInit /\ BackInit /\ Ck!Init

EventsOn(A) == part = "events" /\ A /\ UNCHANGED <<part, backVars, ckVars>>
BackOn(A) == part = "background" /\ A /\ UNCHANGED <<part, eventVars, ckVars>>
CkOn(A) == part = "checkpoint" /\ A /\ UNCHANGED <<part, eventVars, backVars>>

Next == EventsOn(EventsNext) \/ BackOn(BackNext) \/ CkOn(Ck!Next)

\* The fairness that each module states, for its own behaviours.
Spec ==
    /\ Init /\ [][Next]_mcVars
    /\ \A b \in Bridges : WF_mcVars(EventsOn(Step(b)))
    /\ \A j \in BgJobs : WF_mcVars(BackOn(BgLock(j))) /\ WF_mcVars(BackOn(BgWork(j))) /\ WF_mcVars(BackOn(BgEnd(j)))
    /\ \A w \in Waiters : WF_mcVars(BackOn(WaitHistory(w)))
    /\ \A i \in {i1, i2} : /\ WF_mcVars(CkOn(Ck!SyncLoad(i) \/ Ck!SyncFinish(i)))
                           /\ SF_mcVars(CkOn(Ck!PubLocal(i)))
    /\ WF_mcVars(CkOn(Ck!CkStep(w1))) /\ SF_mcVars(CkOn(Ck!CkSync(w1)))

\* A checkpoint attempt ends, however many commits overtake it (checkpoint.rs
\* write_checkpoint: at most MaxAttempts rounds).
CheckpointReturns == Ck!CheckpointReturns
=============================================================================
