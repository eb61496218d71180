------------------------------- MODULE CiRuns -------------------------------
(***************************************************************************)
(* The decentralised CI: runners that share nothing but signed entries     *)
(* under refs/collab, and read from them who runs a task and what came of  *)
(* it.                                                                     *)
(*                                                                         *)
(* One run of one task.  A runner works from its own clone: what it signs  *)
(* is written there first and pushed afterwards, and a fetch adds what     *)
(* others pushed.  All clocks agree here, which is the best case.          *)
(***************************************************************************)
EXTENDS Integers, FiniteSetsExt

CONSTANTS
    Runners,      \* principals, as numbers in the order of their names
    ClaimTtl,          \* claim_ttl
    MaxAttempts,  \* max_attempts of the task
    MaxErrors,    \* ERROR_RECLAIMS_MAX
    Faults,       \* what goes wrong: a subset of FaultKinds
    CiMaxTime,      \* bound: the time the model reaches
    MaxEntries    \* bound: entries that are signed

FaultKinds == {
    "error",       \* the infrastructure fails and the result says so
    "fetch",       \* a fetch fails and the clone stays as it was
    "unanswered",  \* a push is applied and its answer is lost
    "lost"         \* a push fails and nothing reaches the server
  }

ASSUME CiAssumption ==
    /\ Runners \subseteq Nat /\ 0 \notin Runners
    /\ ClaimTtl \in Nat /\ CiMaxTime \in Nat /\ MaxEntries \in Nat
    /\ MaxAttempts \in Nat \ {0} /\ MaxErrors \in Nat \ {0}
    /\ Faults \subseteq FaultKinds

VARIABLES
    clock,     \* the clock, in seconds
    collab,     \* the claims and results on the server
    clone,   \* the claims and results in each runner's clone
    rn,      \* what each runner is doing
    signed   \* entries signed so far

ciVars == <<clock, collab, clone, rn, signed>>

Conclusions == {"success", "failure", "error"}
Claims == [oid : Int, actor : Runners, ts : 0 .. CiMaxTime, attempt : 1 .. MaxAttempts]
Results == [oid : Int, actor : Runners, ts : 0 .. CiMaxTime, attempt : 1 .. MaxAttempts,
            claim : Int, conclusion : Conclusions]
Logs == [claims : SUBSET Claims, results : SUBSET Results]
Empty == [claims |-> {}, results |-> {}]

IdleRunner == [pc |-> "idle", attempt |-> 1, claim |-> 0, entry |-> Empty, errors |-> 0,
         processed |-> FALSE]

CiInit ==
    /\ clock = 0
    /\ collab = Empty
    /\ clone = [r \in Runners |-> Empty]
    /\ rn = [r \in Runners |-> IdleRunner]
    /\ signed = 0

Merge(k, l) == [claims |-> k.claims \cup l.claims, results |-> k.results \cup l.results]

(***************************************************************************)
(* attempt_view: log l, attempt a, time t.                                 *)
(***************************************************************************)

\* Mutant: a claim never expires.
LiveClaimForever(c, t) == TRUE

LiveClaim(c, t) == t <= c.ts + ClaimTtl

\* min_by_key (ts, actor, oid).
Before(x, y) ==
    \/ x.ts < y.ts
    \/ x.ts = y.ts /\ x.actor < y.actor
    \/ x.ts = y.ts /\ x.actor = y.actor /\ x.oid < y.oid
Earliest(S) == CHOOSE x \in S : \A y \in S \ {x} : Before(x, y)

ResultsOf(l, a) == {x \in l.results : x.attempt = a}
ClaimsOf(l, a) == {c \in l.claims : c.attempt = a}

\* Claims that are live and that no error result voids; the earliest wins.
Valid(l, a, t) ==
    LET voided == {x.claim : x \in {y \in ResultsOf(l, a) : y.conclusion = "error"}}
    IN  {c \in ClaimsOf(l, a) : LiveClaim(c, t) /\ c.oid \notin voided}

\* The results that answer the winner; all of them when there is none.
Answered(l, a, t) ==
    {x \in ResultsOf(l, a) : Valid(l, a, t) # {} => x.claim = Earliest(Valid(l, a, t)).oid}

Done(l, a, t) ==
    Answered(l, a, t) # {} /\ Earliest(Answered(l, a, t)).conclusion # "error"

(***************************************************************************)
(* decide.                                                                 *)
(***************************************************************************)

Attempts(l) == {c.attempt : c \in l.claims} \cup {x.attempt : x \in l.results}

Act(what, attempt, claim) == [what |-> what, attempt |-> attempt, claim |-> claim]

\* Mutant: a failed attempt is retried without end.
DecideNoBudget(l, r, t) ==
    LET a == IF Attempts(l) = {} THEN 1 ELSE Max(Attempts(l)) IN
    CASE Done(l, a, t) /\ Earliest(Answered(l, a, t)).conclusion = "success" -> Act("settled", a, 0)
      [] Done(l, a, t) /\ Earliest(Answered(l, a, t)).conclusion = "failure" -> Act("claim", a + 1, 0)
      [] ~Done(l, a, t) /\ Valid(l, a, t) # {} ->
            LET w == Earliest(Valid(l, a, t))
            IN  IF w.actor = r THEN Act("resume", a, w.oid) ELSE Act("stand_down", a, 0)
      [] OTHER -> Act("claim", a, 0)

\* Mutant: a claim that died is taken for a failed attempt.
DecideNextAttempt(l, r, t) ==
    LET a == IF Attempts(l) = {} THEN 0 ELSE Max(Attempts(l)) IN
    CASE a > 0 /\ Done(l, a, t) -> Act("settled", a, 0)
      [] a > 0 /\ ~Done(l, a, t) /\ Valid(l, a, t) # {} ->
            LET w == Earliest(Valid(l, a, t))
            IN  IF w.actor = r THEN Act("resume", a, w.oid) ELSE Act("stand_down", a, 0)
      [] OTHER -> IF a < MaxAttempts THEN Act("claim", a + 1, 0) ELSE Act("settled", a, 0)

\* Mutant: whoever wins, the run is resumed.
DecideResumesAny(l, r, t) ==
    LET a == IF Attempts(l) = {} THEN 1 ELSE Max(Attempts(l)) IN
    CASE Done(l, a, t) -> Act("settled", a, 0)
      [] ~Done(l, a, t) /\ Valid(l, a, t) # {} -> Act("resume", a, Earliest(Valid(l, a, t)).oid)
      [] OTHER -> Act("claim", a, 0)

\* On the latest attempt: done and to be retried, done, claimed, or open.
Decide(l, r, t) ==
    LET a == IF Attempts(l) = {} THEN 1 ELSE Max(Attempts(l))
        effective == Earliest(Answered(l, a, t))
        winner == Earliest(Valid(l, a, t))
        retry == effective.conclusion = "failure" /\ a < MaxAttempts
    IN  IF Done(l, a, t) THEN IF retry THEN Act("claim", a + 1, 0) ELSE Act("settled", a, 0)
        ELSE IF Valid(l, a, t) # {}
        THEN IF winner.actor = r THEN Act("resume", a, winner.oid) ELSE Act("stand_down", a, 0)
        ELSE Act("claim", IF ClaimsOf(l, a) = {} THEN 1 ELSE a, 0)

(***************************************************************************)
(* process_task.                                                           *)
(***************************************************************************)

\* run_view: the clone after a fetch, or as it is when the fetch fails.
Views(r) == {Merge(clone[r], collab)} \cup (IF "fetch" \in Faults THEN {clone[r]} ELSE {})

Defer(r) == [IdleRunner EXCEPT !.processed = rn[r].processed]

\* Mutant: a run that somebody else holds is recorded as processed.
LookRecordsAll(r) ==
    /\ rn[r].pc = "idle" /\ ~rn[r].processed
    /\ \E l \in Views(r) :
          LET d == Decide(l, r, clock) IN
          /\ clone' = [clone EXCEPT ![r] = l]
          /\ rn' = [rn EXCEPT ![r] =
                CASE d.what = "claim"  -> [@ EXCEPT !.pc = "claim", !.attempt = d.attempt]
                  [] d.what = "resume" -> [@ EXCEPT !.pc = "exec", !.attempt = d.attempt, !.claim = d.claim]
                  [] OTHER             -> [IdleRunner EXCEPT !.processed = TRUE]]
    /\ UNCHANGED <<clock, collab, signed>>

\* The head of the loop; a settled run is recorded and not looked at again.
Look(r) ==
    /\ rn[r].pc = "idle" /\ ~rn[r].processed
    /\ \E l \in Views(r) :
          LET d == Decide(l, r, clock) IN
          /\ clone' = [clone EXCEPT ![r] = l]
          /\ rn' = [rn EXCEPT ![r] =
                IF d.what = "settled" THEN [IdleRunner EXCEPT !.processed = TRUE]
                ELSE IF d.what = "stand_down" THEN Defer(r)
                ELSE IF d.what = "resume"
                THEN [rn[r] EXCEPT !.pc = "exec", !.attempt = d.attempt, !.claim = d.claim]
                ELSE [rn[r] EXCEPT !.pc = "claim", !.attempt = d.attempt]]
    /\ UNCHANGED <<clock, collab, signed>>

\* The oid is a hash: of two entries of one actor in one second either may come
\* first.
NewOids(r, entries) ==
    IF \E x \in entries : x.actor = r /\ x.ts = clock THEN {signed + 1, -(signed + 1)} ELSE {signed + 1}

\* publish: the entry is signed at `clock` and written to the clone.
Sign(r, entry, pc, claim) ==
    /\ signed < MaxEntries
    /\ signed' = signed + 1
    /\ clone' = [clone EXCEPT ![r] = Merge(@, entry)]
    /\ rn' = [rn EXCEPT ![r].pc = pc, ![r].entry = entry, ![r].claim = claim]
    /\ UNCHANGED <<clock, collab>>

SignClaim(r) ==
    /\ rn[r].pc = "claim"
    /\ \E o \in NewOids(r, clone[r].claims) :
          Sign(r, [Empty EXCEPT !.claims =
                     {[oid |-> o, actor |-> r, ts |-> clock, attempt |-> rn[r].attempt]}],
               "push_claim", o)

\* run_once: the command has run, or the infrastructure failed.
Execute(r) ==
    /\ rn[r].pc = "exec"
    /\ \E o \in NewOids(r, clone[r].results),
          e \in IF "error" \in Faults THEN Conclusions ELSE Conclusions \ {"error"} :
          Sign(r, [Empty EXCEPT !.results =
                     {[oid |-> o, actor |-> r, ts |-> clock, attempt |-> rn[r].attempt,
                       claim |-> rn[r].claim, conclusion |-> e]}],
               "push_result", rn[r].claim)

PushClaim(r) ==
    /\ rn[r].pc = "push_claim"
    /\ collab' = Merge(collab, rn[r].entry)
    /\ rn' = [rn EXCEPT ![r].pc = "recheck", ![r].entry = Empty]
    /\ UNCHANGED <<clock, clone, signed>>

\* Errors in a row are bounded, then the run is left to the next pass.
PushResult(r) ==
    LET errors == IF \E x \in rn[r].entry.results : x.conclusion = "error"
                  THEN rn[r].errors + 1 ELSE rn[r].errors
    IN  /\ rn[r].pc = "push_result"
        /\ collab' = Merge(collab, rn[r].entry)
        /\ rn' = [rn EXCEPT ![r] = IF errors < MaxErrors THEN [Defer(r) EXCEPT !.errors = errors]
                                   ELSE Defer(r)]
        /\ UNCHANGED <<clock, clone, signed>>

\* The log is read again: only a claim that wins is executed.
Recheck(r) ==
    /\ rn[r].pc = "recheck"
    /\ \E l \in Views(r) :
          LET d == Decide(l, r, clock) IN
          /\ clone' = [clone EXCEPT ![r] = l]
          /\ rn' = [rn EXCEPT ![r] = IF d.what = "resume" /\ d.claim = rn[r].claim
                                     THEN [rn[r] EXCEPT !.pc = "exec", !.attempt = d.attempt]
                                     ELSE Defer(r)]
    /\ UNCHANGED <<clock, collab, signed>>

\* A push fails, applied or not, and the pass gives up: the entry stays in the
\* clone.
Lost(r) ==
    /\ rn[r].pc \in {"push_claim", "push_result"}
    /\ \E f \in Faults \cap {"lost", "unanswered"} :
          collab' = IF f = "lost" THEN collab ELSE Merge(collab, rn[r].entry)
    /\ rn' = [rn EXCEPT ![r] = Defer(r)]
    /\ UNCHANGED <<clock, clone, signed>>

\* The runner dies; its clone and its state file stay.
RunnerCrash(r) ==
    /\ rn[r].pc \in {"claim", "recheck", "exec"}
    /\ rn' = [rn EXCEPT ![r] = Defer(r)]
    /\ UNCHANGED <<clock, collab, clone, signed>>

CiTick ==
    /\ clock < CiMaxTime
    /\ clock' = clock + 1
    /\ UNCHANGED <<collab, clone, rn, signed>>

CiNext ==
    \/ \E r \in Runners :
          \/ Look(r) \/ SignClaim(r) \/ PushClaim(r) \/ Recheck(r)
          \/ Execute(r) \/ PushResult(r) \/ Lost(r) \/ RunnerCrash(r)
    \/ CiTick

CiSpec == CiInit /\ [][CiNext]_ciVars

(***************************************************************************)
(* Properties.                                                             *)
(***************************************************************************)

\* Every variable holds a value of its kind.
CiTypeOK ==
    /\ clock \in 0 .. CiMaxTime
    /\ collab \in Logs
    /\ clone \in [Runners -> Logs]
    /\ rn \in [Runners ->
                 [pc : {"idle", "claim", "push_claim", "recheck", "exec", "push_result"},
                  attempt : 1 .. MaxAttempts, claim : Int, entry : Logs,
                  errors : 0 .. MaxErrors - 1, processed : BOOLEAN]]
    /\ signed \in 0 .. MaxEntries

\* An attempt that is settled stays settled, whatever expires and whoever
\* claims it again.
SettledStays ==
    [][\A a \in 1 .. MaxAttempts : Done(collab, a, clock) => Done(collab', a, clock')]_ciVars

\* Every result answers a claim of its own actor and attempt: nobody reports on
\* what another runner holds.
ResultsAnswerClaims ==
    \A x \in collab.results : \E c \in collab.claims :
        c.oid = x.claim /\ c.actor = x.actor /\ c.attempt = x.attempt

\* An attempt after the first is claimed only when the one before it failed:
\* errors and dead claims are retried under the same number.
RetriesFollowFailures ==
    \A c \in collab.claims : c.attempt > 1 =>
        \E x \in collab.results : x.attempt = c.attempt - 1 /\ x.conclusion = "failure"

\* A runner records the run as processed only when a verdict is on the server.
ProcessedSettled ==
    \A r \in Runners : rn[r].processed => \E x \in collab.results : x.conclusion # "error"

\* No claim outlives its ttl: once the present ones have expired nobody is told
\* to wait, or to resume.
SelfHeals ==
    \A r \in Runners :
        Decide(Merge(clone[r], collab), r, clock + ClaimTtl + 1).what \in {"claim", "settled"}

\* Two runners never execute one attempt under claims that are both valid.
OneExecutes ==
    \A q, r \in Runners :
        /\ rn[q].pc = "exec" /\ rn[r].pc = "exec" /\ rn[q].attempt = rn[r].attempt
        /\ \A s \in {q, r} : \E c \in Valid(collab, rn[s].attempt, clock) : c.oid = rn[s].claim
        => q = r

\* Claims, results and what runners have recorded fit together, whoever signs them and in
\* whatever order they arrive, and a run never stays with a runner that is gone.
RunsSound == ResultsAnswerClaims /\ RetriesFollowFailures /\ ProcessedSettled /\ SelfHeals
=============================================================================
