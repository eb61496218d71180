--------------------------- MODULE MCMaintenance ---------------------------
(* Maintenance work beside publishers: checkpoint tasks, readers of the     *)
(* log, bundle builds, folds, rebuilds and audits.  The parts share         *)
(* nothing; each behaviour is one of a part while the others rest.          *)
EXTENDS WalCheckpoint, Bundles, Maintain, TLC

CONSTANTS i1, i2, w1, w2, r1, h1, h2, b1, b2

VARIABLE part    \* the module, or the kind of behaviour of it

\* The first writer and the reader run on i1, the second writer on i2.
MCHostOf == [t \in Writers \cup Readers |-> IF t = w2 THEN i2 ELSE i1]

\* Beside readers the copies are repaired and commits arrive late.
Log == INSTANCE WalCheckpoint WITH Races <- {"repair", "late_commit"}

\* A weekly full bundle of which two are kept, and dailies that chain.
MCStrategies == <<[name |-> "w", every |-> 4, base |-> "", chain |-> FALSE, keep |-> 2],
                  [name |-> "d", every |-> 2, base |-> "w", chain |-> TRUE, keep |-> 0]>>

\* One maintainer with two branches and a longer log; two that audit an import
\* without its objects.
Alone == INSTANCE Maintain WITH Hosts <- {h1}, Objs <- {b1, b2}, MntMaxSeq <- 4
Audit == INSTANCE Maintain WITH Objs <- {b1, b2}, Damaged <- {b1, b2}, MntMaxSeq <- 4,
                                Compaction <- FALSE, Audits <- TRUE

Symmetry == Permutations({h1, h2})

MCInit ==
    /\ part \in {"write", "read", "bundles", "quiet bundles", "compaction", "one maintainer", "audit"}
    /\ Init /\ BundlesInit
    /\ CASE part = "one maintainer" -> Alone!MaintainInit
         [] part = "audit" -> Audit!MaintainInit
         [] OTHER -> MaintainInit

MCNext ==
    /\ UNCHANGED part
    /\ \/ part = "write" /\ Next /\ UNCHANGED <<rd, bundleVars, maintainVars>>
       \/ part = "read" /\ Log!Next /\ UNCHANGED <<ck, bundleVars, maintainVars>>
       \/ part = "bundles" /\ BundlesNext /\ UNCHANGED <<vars, maintainVars>>
       \/ part = "quiet bundles" /\ QuietNext /\ UNCHANGED <<vars, maintainVars>>
       \/ part = "compaction" /\ MaintainNext /\ UNCHANGED <<vars, bundleVars>>
       \/ part = "one maintainer" /\ Alone!MaintainNext /\ UNCHANGED <<vars, bundleVars>>
       \/ part = "audit" /\ Audit!MaintainNext /\ UNCHANGED <<vars, bundleVars>>

MCSpec == MCInit /\ [][MCNext]_<<part, vars, bundleVars, maintainVars>>

\* Behaviours of checkpoint tasks only, and of folds and rebuilds only.
MCWriters == MCSpec /\ part = "write"
MCCompaction == MCSpec /\ part = "compaction"
=============================================================================
