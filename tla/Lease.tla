------------------------------- MODULE Lease --------------------------------
(***************************************************************************)
(* The leases of maintenance work: an object under leases/ that is created *)
(* when absent, taken over once it has expired, extended by a heartbeat    *)
(* and deleted, always by compare-and-swap on its version.                 *)
(*                                                                         *)
(* Compaction takes its lease through the store crate (coord.rs): GET      *)
(* first, and a lease is stolen only Tolerance after it expired.  Bundle   *)
(* builds take theirs through ops.rs: create first, and Tolerance is 0.    *)
(*                                                                         *)
(* Every process reads its own clock, which runs Ahead[h] before the       *)
(* slowest one.                                                            *)
(***************************************************************************)
EXTENDS Integers

CONSTANTS
    Holders,      \* processes that ask for the lease
    Nobody,       \* no holder: the object is absent
    Ahead,        \* how far each clock is ahead of the slowest
    Ttl,          \* lease_ttl
    Tolerance,    \* LEASE_SKEW_TOLERANCE, 0 for bundle leases
    CreateFirst,  \* TRUE for bundle leases
    Heartbeats,   \* whether holders extend their lease
    MaxTime,      \* bound: the time the model reaches
    MaxVersion    \* bound: writes of the object

ASSUME ConstantsAssumption ==
    /\ Nobody \notin Holders
    /\ Ahead \in [Holders -> Nat]
    /\ Ttl \in Nat /\ Tolerance \in Nat
    /\ CreateFirst \in BOOLEAN /\ Heartbeats \in BOOLEAN
    /\ MaxTime \in Nat /\ MaxVersion \in Nat

VARIABLES
    now,      \* time of the slowest clock
    lease,    \* the object: holder, expires_at, version
    version,  \* the last version given to it
    hold,     \* what each process is doing, and its guard
    dropped   \* versions that a dropped guard is about to delete

vars == <<now, lease, version, hold, dropped>>

Leases == [holder : Holders \cup {Nobody}, expires : Nat, ver : Nat]
Absent == [holder |-> Nobody, expires |-> 0, ver |-> 0]

\* at: the clock as the operation read it; seen: what its GET returned; ver and
\* expires: the guard's version and expires_at.
Procs == [pc : {"idle", "create", "get", "steal", "recreate", "held", "beat"},
          at : Nat, seen : Leases, ver : Nat, expires : Nat]
Idle == [pc |-> "idle", at |-> 0, seen |-> Absent, ver |-> 0, expires |-> 0]

Clock(h) == now + Ahead[h]

Init ==
    /\ now = 0
    /\ lease = Absent
    /\ version = 0
    /\ hold = [h \in Holders |-> Idle]
    /\ dropped = {}

(***************************************************************************)
(* Writing the object.                                                     *)
(***************************************************************************)

\* Mutant: the lease is written as expired a ttl ago.
WrittenExpired(h) == [holder |-> h, expires |-> hold[h].at - Ttl, ver |-> version + 1]

\* A write by h gives the object a new version and the ttl from h's `now`.
Written(h) == [holder |-> h, expires |-> hold[h].at + Ttl, ver |-> version + 1]

Write(h) ==
    /\ version < MaxVersion
    /\ version' = version + 1
    /\ lease' = Written(h)

\* The write was answered: h holds a guard on what it wrote.
Guarded(h) == [pc |-> "held", at |-> 0, seen |-> Absent,
               ver |-> version + 1, expires |-> hold[h].at + Ttl]

\* The write goes through, or is refused, or fails: with an error the process
\* gives up, whether the object was written or not.
Put(h, condition, refused, failed) ==
    /\ \/ /\ condition /\ Write(h)
          /\ hold' = [hold EXCEPT ![h] = Guarded(h)]
       \/ /\ ~condition
          /\ hold' = [hold EXCEPT ![h] = refused]
          /\ UNCHANGED <<lease, version>>
       \/ /\ hold' = [hold EXCEPT ![h] = failed]
          /\ \/ condition /\ Write(h)
             \/ UNCHANGED <<lease, version>>
    /\ UNCHANGED <<now, dropped>>

(***************************************************************************)
(* try_acquire and try_acquire_lease.                                      *)
(***************************************************************************)

Begin(h) ==
    /\ hold[h].pc = "idle"
    /\ hold' = [hold EXCEPT ![h].pc = IF CreateFirst THEN "create" ELSE "get",
                            ![h].at = Clock(h)]
    /\ UNCHANGED <<now, lease, version, dropped>>

\* Mutant: the create does not ask for the object to be absent.
CreateOverwrites(h) ==
    /\ hold[h].pc \in {"create", "recreate"}
    /\ Put(h, TRUE, Idle, Idle)

\* PutMode::Create.  Refused, a bundle lease goes on to read the object once.
Create(h) ==
    /\ hold[h].pc \in {"create", "recreate"}
    /\ Put(h, lease.holder = Nobody,
           IF hold[h].pc = "create" /\ CreateFirst THEN [hold[h] EXCEPT !.pc = "get"] ELSE Idle,
           Idle)

\* Mutant: a lease is stolen as soon as it has expired on the thief's clock.
ExpiredAtOnce(l, t) == t >= l.expires

Expired(l, t) == t >= l.expires + Tolerance

\* The GET decides: create, steal or leave it.
Get(h) ==
    /\ hold[h].pc = "get"
    /\ hold' = [hold EXCEPT ![h] =
                  CASE lease.holder = Nobody         -> [@ EXCEPT !.pc = "recreate"]
                    [] lease.holder # Nobody /\ Expired(lease, hold[h].at)
                                                     -> [@ EXCEPT !.pc = "steal", !.seen = lease]
                    [] OTHER                         -> Idle]
    /\ UNCHANGED <<now, lease, version, dropped>>

\* PutMode::Update over the version that was read.
Steal(h) ==
    /\ hold[h].pc = "steal"
    /\ Put(h, lease.holder # Nobody /\ lease.ver = hold[h].seen.ver, Idle, Idle)

(***************************************************************************)
(* The guard.                                                              *)
(***************************************************************************)

BeatStart(h) ==
    /\ Heartbeats /\ hold[h].pc = "held"
    /\ hold' = [hold EXCEPT ![h].pc = "beat", ![h].at = Clock(h)]
    /\ UNCHANGED <<now, lease, version, dropped>>

\* CAS-extend.  Refused, the lease is lost; an error is left to the next beat.
Beat(h) ==
    /\ hold[h].pc = "beat"
    /\ Put(h, lease.holder # Nobody /\ lease.ver = hold[h].ver, Idle,
           [hold[h] EXCEPT !.pc = "held", !.at = 0])

DeleteVersion(v) ==
    lease' = IF lease.holder # Nobody /\ lease.ver = v THEN Absent ELSE lease

\* Mutant: the delete names no version.
ReleaseAny(h) ==
    /\ hold[h].pc = "held"
    /\ hold' = [hold EXCEPT ![h] = Idle]
    /\ lease' = Absent
    /\ UNCHANGED <<now, version, dropped>>

\* release: a delete of the guard's version, done or failed.
Release(h) ==
    /\ hold[h].pc = "held"
    /\ hold' = [hold EXCEPT ![h] = Idle]
    /\ DeleteVersion(hold[h].ver) \/ UNCHANGED lease
    /\ UNCHANGED <<now, version, dropped>>

\* The guard is dropped (a cancelled task): the delete runs later.
DropGuard(h) ==
    /\ hold[h].pc \in {"held", "beat"}
    /\ hold' = [hold EXCEPT ![h] = Idle]
    /\ dropped' = dropped \cup {hold[h].ver}
    /\ UNCHANGED <<now, lease, version>>

DropDelete(v) ==
    /\ v \in dropped
    /\ dropped' = dropped \ {v}
    /\ DeleteVersion(v) \/ UNCHANGED lease
    /\ UNCHANGED <<now, version, hold>>

\* The process dies and nothing is deleted.
Crash(h) ==
    /\ hold[h].pc # "idle"
    /\ hold' = [hold EXCEPT ![h] = Idle]
    /\ UNCHANGED <<now, lease, version, dropped>>

Tick ==
    /\ now < MaxTime
    /\ now' = now + 1
    /\ UNCHANGED <<lease, version, hold, dropped>>

Next ==
    \/ \E h \in Holders :
          \/ Begin(h) \/ Create(h) \/ Get(h) \/ Steal(h)
          \/ BeatStart(h) \/ Beat(h) \/ Release(h) \/ DropGuard(h) \/ Crash(h)
    \/ \E v \in dropped : DropDelete(v)
    \/ Tick

Spec == Init /\ [][Next]_vars

(***************************************************************************)
(* Properties.                                                             *)
(***************************************************************************)

\* Every variable holds a value of its kind.
TypeOK ==
    /\ now \in Nat
    /\ lease \in Leases
    /\ version \in Nat
    /\ hold \in [Holders -> Procs]
    /\ dropped \subseteq Nat

Holding(h) == hold[h].pc \in {"held", "beat"}

\* h has a guard that has not expired by h's own clock.
Live(h) == Holding(h) /\ Clock(h) < hold[h].expires

\* No two processes hold guards that each takes for unexpired: what the grace
\* before stealing is for.
OneLiveGuard == \A g, h \in Holders : Live(g) /\ Live(h) => g = h

\* Whoever holds an unexpired guard is the holder the object names, until at
\* least as long as the guard says.
GuardBacked ==
    \A h \in Holders : Live(h) => lease.holder = h /\ hold[h].expires <= lease.expires

\* A process that still works under its lease works alone, expired or not.
WorksAlone == \A g, h \in Holders : Holding(g) /\ Holding(h) => g = h
=============================================================================
