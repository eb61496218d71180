------------------------------- MODULE CiAgent ------------------------------
(* The CI agent around the runs of CiRuns: passes over the refs of a        *)
(* repository with the state file they share, tasks on a schedule, the      *)
(* rules of ci.toml (ci_cmd.rs), and the webhook that wakes an agent up     *)
(* (ci_wake.rs).  A run is known by its task, ref, commit and slot; slot 0  *)
(* is the run a new tip triggers.                                           *)
EXTENDS Integers, Globs
LOCAL INSTANCE Sequences
LOCAL INSTANCE SequencesExt
LOCAL INSTANCE FiniteSetsExt

CONSTANTS AgRefs,       \* refs, as names for globs
          AgPipelines,  \* ci.toml by commit, commits numbered as they are made
          AgFilters,    \* what --task of a pass may be: 0 for all tasks, or a task
          AgReturns,    \* whether a ref may go back to an earlier commit
          AgMaxTime,    \* time
          AgMaxFaults,  \* crashes and failed requests
          ScanMax,      \* COALESCE_SCAN_MAX
          DeliveryRing, \* DELIVERY_RING
          Deliveries    \* deliveries of a webhook: [id, body, signed]

VARIABLES agTips,    \* the refs on the server: commits, 0 for none
          agTop,     \* the latest commit each ref has had
          agClock,   \* the clock
          agFile,    \* the state file
          agSettled, \* runs that have a final result
          ag,        \* the agent
          agFaults,  \* faults so far
          wk         \* the wake-up endpoint and the loop it wakes

agentVars == <<agTips, agTop, agClock, agFile, agSettled, ag, agFaults, wk, glob>>

-----------------------------------------------------------------------------
(* ci.toml.  Numbers that are not given are 0; the limits are small ones.   *)

TimeoutMax == 3
AttemptsMax == 2
DefaultTimeout == 2
DefaultAttempts == 1
InLimits(n, max) == n \in 1..max
Given(n, default) == IF n = 0 THEN default ELSE n

\* A task: its name is its number; refs, timeout and attempts of its own or of the pipeline.
\* What has rules of its own and nothing else depends on (the command, the environment, the
\* form of a schedule, the paths of artifacts) is sound or not.
TaskErrors(c, t) ==
    (IF t.sound THEN {} ELSE {"V3", "V4", "V8", "V10", "V11"})
    \cup (IF t.timeout = 0 \/ InLimits(t.timeout, TimeoutMax) THEN {} ELSE {"V6"})
    \cup (IF InLimits(Given(t.attempts, Given(c.attempts, DefaultAttempts)), AttemptsMax) THEN {} ELSE {"V7"})
    \cup (IF t.refs # {} THEN {} ELSE {"V5"})
\* The claim's time to live has the limits of the timeout.
PipelineErrors(c) ==
    (IF c.version = 1 THEN {} ELSE {"V2"})
    \cup (IF c.tasks # <<>> /\ \A i, j \in 1..Len(c.tasks) : i # j => c.tasks[i].name # c.tasks[j].name
          THEN {} ELSE {"V3"})
    \cup (IF \A n \in {c.timeout, c.claim_ttl} : n = 0 \/ InLimits(n, TimeoutMax) THEN {} ELSE {"V6"})
    \cup (IF c.attempts = 0 \/ InLimits(c.attempts, AttemptsMax) THEN {} ELSE {"V7"})
    \cup UNION {TaskErrors(c, c.tasks[i]) : i \in 1..Len(c.tasks)}
\* Every error is collected; without one, the tasks with what they inherit.
Resolved(c) ==
    {[name |-> t.name, refs |-> t.refs, schedule |-> t.schedule,
      timeout |-> Given(t.timeout, Given(c.timeout, DefaultTimeout)),
      attempts |-> Given(t.attempts, Given(c.attempts, DefaultAttempts))] : t \in Range(c.tasks)}
Matching(tasks, ref) == {t \in tasks : \E p \in t.refs : GlobMatch(p, ref)}
\* The tasks of a commit for a ref; none without a valid file.
TasksAt(commit, ref) ==
    LET c == AgPipelines[commit]
    IN  IF c.present /\ PipelineErrors(c) = {} THEN Matching(Resolved(c), ref) ELSE {}

-----------------------------------------------------------------------------
(* Schedules.                                                               *)

\* A schedule fires at the multiples of a number.
Fires(period, last, now) == {s \in (last + 1)..now : s % period = 0}
\* The latest slot that is due, or, when the scan ends before it, a step towards it.
DueSlot(period, last, now) ==
    LET due == Fires(period, last, now)
        scanned == {s \in due : Cardinality({k \in due : k <= s}) <= ScanMax}
    IN  IF due = {} THEN [kind |-> "not due", slot |-> 0]
        ELSE [kind |-> IF scanned = due THEN "run" ELSE "skip", slot |-> Max(scanned)]

-----------------------------------------------------------------------------
(* Passes.                                                                  *)

AgTasks == {1, 2}
AgKeys == AgRefs \X AgTasks
NoMark == -1
\* What the file keeps: tips that are dealt with, slots and schedules by ref and task.
EmptyAgState == [processed |-> [r \in AgRefs |-> 0], cron |-> [k \in AgKeys |-> NoMark],
                 schedules |-> [k \in AgKeys |-> 0], migrate |-> {}]
\* A file of an earlier version has no schedules: refs with slots are looked at again.
ReadState(file) ==
    [processed |-> file.processed, cron |-> file.cron, schedules |-> file.schedules,
     migrate |-> IF file.old THEN {r \in AgRefs : \E t \in AgTasks : file.cron[<<r, t>>] # NoMark} ELSE {}]
AgResting == [pc |-> "idle", state |-> EmptyAgState, tips |-> [r \in AgRefs |-> 0], refs |-> {},
              keys |-> {}, now |-> 0, filter |-> 0, dirty |-> FALSE]
AgFault == agFaults < AgMaxFaults /\ agFaults' = agFaults + 1
AgEnds == ag' = AgResting
AgRest == <<agTips, agTop, agClock, wk, glob>>

PassStart ==
    /\ ag.pc = "idle" /\ ~agFile.torn
    /\ \E f \in AgFilters :
           ag' = [AgResting EXCEPT !.pc = "list", !.state = ReadState(agFile), !.filter = f]
    /\ UNCHANGED <<agFile, agSettled, agFaults, AgRest>>
\* Refs that are gone leave the state; the others are looked at when their tip is new.
Forget(s, gone) ==
    [s EXCEPT !.processed = [r \in AgRefs |-> IF r \in gone THEN 0 ELSE @[r]],
              !.cron = [k \in AgKeys |-> IF k[1] \in gone THEN NoMark ELSE @[k]],
              !.schedules = [k \in AgKeys |-> IF k[1] \in gone THEN 0 ELSE @[k]],
              !.migrate = @ \ gone]
ListTips ==
    /\ ag.pc = "list"
    /\ LET gone == {r \in AgRefs : agTips[r] = 0}
           stale == {r \in gone : ag.state.processed[r] # 0 \/ \E t \in AgTasks : ag.state.schedules[<<r, t>>] # 0}
           state == Forget(ag.state, stale)
       IN  ag' = [ag EXCEPT !.pc = "refs", !.state = state, !.tips = agTips, !.dirty = stale # {},
                     !.refs = {r \in AgRefs \ gone : state.processed[r] # agTips[r] \/ r \in state.migrate}]
    /\ UNCHANGED <<agFile, agSettled, agFaults, AgRest>>

\* Mutant: the slots of a ref are always forgotten with its schedules.
ApplySchedules_Forgets(s, ref, tasks, filter, preserve) ==
    LET mine(k) == k[1] = ref /\ (filter = 0 \/ k[2] = filter)
        expr(t) == {x \in tasks : x.name = t /\ x.schedule # 0}
    IN  [s EXCEPT !.schedules = [k \in AgKeys |-> IF mine(k)
                                    THEN IF expr(k[2]) = {} THEN 0 ELSE (CHOOSE x \in expr(k[2]) : TRUE).schedule
                                    ELSE @[k]],
                  !.cron = [k \in AgKeys |-> IF mine(k) THEN NoMark ELSE @[k]]]
\* The schedules of a ref are replaced; its slots go too, unless they are only moved over.
ApplySchedules(s, ref, tasks, filter, preserve) ==
    LET mine(k) == k[1] = ref /\ (filter = 0 \/ k[2] = filter)
        expr(t) == {x \in tasks : x.name = t /\ x.schedule # 0}
    IN  [s EXCEPT !.schedules = [k \in AgKeys |-> IF mine(k)
                                    THEN IF expr(k[2]) = {} THEN 0 ELSE (CHOOSE x \in expr(k[2]) : TRUE).schedule
                                    ELSE @[k]],
                  !.cron = [k \in AgKeys |-> IF mine(k) /\ ~preserve THEN NoMark ELSE @[k]]]

\* Each run is settled now, was before, or is left to somebody else.
Outcomes(runs) ==
    {[settled |-> s \cup (runs \cap agSettled), deferred |-> runs \ (s \cup agSettled)] : s \in SUBSET (runs \ agSettled)}

RunsOf(r) == {<<t.name, r, agTips[r], 0>> : t \in {x \in TasksAt(agTips[r], r) : ag.filter \in {0, x.name}}}
\* A ref: the commit is fetched now, and may be a later one than was listed.
ProcessRef ==
    /\ ag.pc = "refs"
    /\ \E r \in ag.refs :
           LET commit == agTips[r]
               tasks == IF commit = 0 THEN {} ELSE TasksAt(commit, r)
               preserve == r \in ag.state.migrate /\ ag.state.processed[r] = ag.tips[r]
               applied == ApplySchedules(ag.state, r, tasks, ag.filter, preserve)
               next == [ag EXCEPT !.refs = @ \ {r}]
           IN  IF commit = 0 THEN ag' = next /\ UNCHANGED agSettled    \* the fetch fails
               ELSE \E o \in Outcomes(RunsOf(r)) :
                        /\ agSettled' = agSettled \cup o.settled
                        /\ ag' = [next EXCEPT
                               !.dirty = @ \/ r \in ag.state.migrate \/ o.deferred = {},
                               !.state = [applied EXCEPT
                                   !.migrate = @ \ {r},
                                   !.processed[r] = IF o.deferred = {} THEN ag.tips[r] ELSE @]]
    /\ UNCHANGED <<agFile, agFaults, AgRest>>
\* A request of git fails after some of the runs: the ref is left for the next pass.
RefFails ==
    /\ ag.pc = "refs" /\ AgFault
    /\ \E r \in ag.refs :
           /\ ag' = [ag EXCEPT !.refs = @ \ {r}]
           /\ IF agTips[r] = 0 THEN UNCHANGED agSettled
              ELSE \E o \in Outcomes(RunsOf(r)) : agSettled' = agSettled \cup o.settled
    /\ UNCHANGED <<agFile, AgRest>>
\* Schedules of refs that rest at a tip that is dealt with.
SweepStart ==
    /\ ag.pc = "refs" /\ ag.refs = {}
    /\ ag' = [ag EXCEPT !.pc = "sweep", !.now = agClock,
                 !.keys = {k \in AgKeys : ag.state.schedules[k] # 0 /\ ag.filter \in {0, k[2]}
                                          /\ ag.tips[k[1]] # 0 /\ ag.state.processed[k[1]] = ag.tips[k[1]]}]
    /\ UNCHANGED <<agFile, agSettled, agFaults, AgRest>>
Swept(k, cron, schedule) ==
    ag' = [ag EXCEPT !.keys = @ \ {k}, !.dirty = TRUE, !.state.cron[k] = cron, !.state.schedules[k] = schedule]
CronSweep ==
    /\ ag.pc = "sweep"
    /\ \E k \in ag.keys :
           LET last == ag.state.cron[k]
               expr == ag.state.schedules[k]
               due == DueSlot(expr, last, ag.now)
               tip == ag.tips[k[1]]
               run == <<k[2], k[1], tip, due.slot>>
           IN  IF last = NoMark THEN Swept(k, ag.now, expr) /\ UNCHANGED agSettled    \* first sight
               ELSE CASE due.kind = "not due" -> ag' = [ag EXCEPT !.keys = @ \ {k}] /\ UNCHANGED agSettled
                      [] due.kind = "skip" -> Swept(k, due.slot, expr) /\ UNCHANGED agSettled
                      [] due.kind = "run" ->
                           IF ~\E t \in TasksAt(tip, k[1]) : t.name = k[2] /\ t.schedule = expr
                           THEN Swept(k, NoMark, 0) /\ UNCHANGED agSettled
                           ELSE \E o \in Outcomes({run}) :
                                    /\ agSettled' = agSettled \cup o.settled
                                    /\ IF o.deferred = {} THEN Swept(k, due.slot, expr)
                                       ELSE ag' = [ag EXCEPT !.keys = @ \ {k}]
    /\ UNCHANGED <<agFile, agFaults, AgRest>>
\* The file is written over in place, if anything changed.
PassEnds ==
    /\ ag.pc = "sweep" /\ ag.keys = {}
    /\ agFile' = IF ag.dirty THEN [processed |-> ag.state.processed, cron |-> ag.state.cron,
                                   schedules |-> ag.state.schedules, old |-> FALSE, torn |-> FALSE]
                 ELSE agFile
    /\ AgEnds
    /\ UNCHANGED <<agSettled, agFaults, AgRest>>
\* The agent dies; in the middle of a write the file is left in pieces, and no later pass
\* gets past reading it.
AgCrash ==
    /\ ag.pc # "idle" /\ AgFault
    /\ agFile' \in {agFile} \cup (IF ag.pc = "sweep" /\ ag.keys = {} /\ ag.dirty
                                  THEN {[agFile EXCEPT !.torn = TRUE]} ELSE {})
    /\ AgEnds
    /\ UNCHANGED <<agSettled, AgRest>>

\* Pushes, deletions and time.
AgMove ==
    /\ \E r \in AgRefs, c \in 0..Len(AgPipelines) :
           /\ c # agTips[r] /\ (c = 0 \/ c > agTop[r] \/ AgReturns)
           /\ agTips' = [agTips EXCEPT ![r] = c]
           /\ agTop' = [agTop EXCEPT ![r] = Max({c, @})]
    /\ UNCHANGED <<agClock, agFile, agSettled, ag, agFaults, wk, glob>>
AgTick ==
    /\ agClock < AgMaxTime /\ agClock' = agClock + 1
    /\ UNCHANGED <<agTips, agTop, agFile, agSettled, ag, agFaults, wk, glob>>

PassNext ==
    \/ PassStart \/ ListTips \/ ProcessRef \/ RefFails \/ SweepStart \/ CronSweep \/ PassEnds
    \/ AgCrash \/ AgMove \/ AgTick

-----------------------------------------------------------------------------
(* The wake-up endpoint.                                                    *)

IdleWake == [loop |-> "nap", chan |-> 0, seen |-> <<>>, answered |-> {}, fresh |-> FALSE]
\* A body with a branch or a tag in it is worth a pass.
Triggerable(body) == CASE body = "branch" -> "wake" [] body = "collab" -> "ignored" [] OTHER -> "malformed"
Remembered(seen, id) == Append(IF Len(seen) = DeliveryRing THEN Tail(seen) ELSE seen, id)
\* Mutant: a delivery is remembered before its signature is looked at.
Evaluate_RememberFirst(d) ==
    IF d.body = "huge" THEN [verdict |-> "malformed", seen |-> wk.seen]
    ELSE IF d.id \in Range(wk.seen) THEN [verdict |-> "duplicate", seen |-> wk.seen]
    ELSE IF ~d.signed THEN [verdict |-> "unauthorized", seen |-> Remembered(wk.seen, d.id)]
    ELSE [verdict |-> Triggerable(d.body), seen |-> Remembered(wk.seen, d.id)]
\* Size, signature, then the ring of deliveries that were seen, then the body.
Evaluate(d) ==
    IF d.body = "huge" THEN [verdict |-> "malformed", seen |-> wk.seen]
    ELSE IF ~d.signed THEN [verdict |-> "unauthorized", seen |-> wk.seen]
    ELSE IF d.id \in Range(wk.seen) THEN [verdict |-> "duplicate", seen |-> wk.seen]
    ELSE [verdict |-> Triggerable(d.body), seen |-> Remembered(wk.seen, d.id)]
\* The answer is 200 for all but the bad ones; a wake-up joins one that is waiting.
WakeArrives ==
    /\ \E d \in Deliveries :
           LET e == Evaluate(d)
               ok == e.verdict \in {"wake", "ignored", "duplicate"}
           IN  wk' = [wk EXCEPT !.seen = e.seen, !.chan = IF e.verdict = "wake" THEN 1 ELSE @,
                         !.answered = IF ok THEN @ \cup {d.id} ELSE @,
                         !.fresh = @ \/ (ok /\ d.signed /\ d.body = "branch" /\ d.id \notin wk.answered)]
    /\ UNCHANGED <<agTips, agTop, agClock, agFile, agSettled, ag, agFaults, glob>>
\* The loop: a nap until a wake-up or the interval, then a pass that lists the tips.
NapEnds ==
    /\ wk.loop = "nap"
    /\ wk' = [wk EXCEPT !.loop = "pass", !.chan = 0]
    /\ UNCHANGED <<agTips, agTop, agClock, agFile, agSettled, ag, agFaults, glob>>
WakeLists ==
    /\ wk.loop = "pass"
    /\ wk' = [wk EXCEPT !.loop = "listed", !.fresh = FALSE]
    /\ UNCHANGED <<agTips, agTop, agClock, agFile, agSettled, ag, agFaults, glob>>
WakeDone ==
    /\ wk.loop = "listed"
    /\ wk' = [wk EXCEPT !.loop = "nap"]
    /\ UNCHANGED <<agTips, agTop, agClock, agFile, agSettled, ag, agFaults, glob>>
WakeNext == WakeArrives \/ NapEnds \/ WakeLists \/ WakeDone

-----------------------------------------------------------------------------

\* A tip that the state file calls dealt with, and that is where the ref is, has a final
\* result for each of its tasks, within the limits of ci.toml; whatever moved while the
\* agent listed, fetched and ran, and wherever it died.
RestingRun ==
    ~agFile.torn =>
        \A r \in AgRefs : agTips[r] # 0 /\ agFile.processed[r] = agTips[r] =>
            \A t \in TasksAt(agTips[r], r) :
                /\ <<t.name, r, agTips[r], 0>> \in agSettled
                /\ InLimits(t.timeout, TimeoutMax) /\ InLimits(t.attempts, AttemptsMax)
\* An event that was answered with 200 and has not been followed by a listing of the tips
\* still has a pass coming.
WakesKept == wk.fresh => wk.chan = 1 \/ wk.loop = "pass"

AgentSound == RestingRun /\ WakesKept /\ GlobsExact

\* While a ref rests, its slots only move to one whose run has a final result, past ones
\* with a later one due, or out with the schedule itself: no slot is lost to a crash, a
\* deferral or a file of an earlier version.
SlotMoved(k) ==
    LET was == agFile.cron[k]
        is == agFile'.cron[k]
        tip == agFile.processed[k[1]]
    IN  \/ is > was /\ <<k[2], k[1], tip, is>> \in agSettled
        \/ is > was /\ \E p \in 1..AgMaxTime : Fires(p, is, agClock) # {} /\ agFile'.schedules[k] = p
        \/ is = NoMark /\ ~\E t \in TasksAt(tip, k[1]) : t.name = k[2] /\ t.schedule # 0
CronKept ==
    [][\A k \in AgKeys :
           /\ ~agFile'.torn /\ ag.tips[k[1]] \in {agTips[k[1]]} \ {0}
           /\ agFile.processed[k[1]] = ag.tips[k[1]] /\ agFile'.processed[k[1]] = ag.tips[k[1]]
           /\ agFile.cron[k] # NoMark /\ agFile'.cron[k] # agFile.cron[k]
           => SlotMoved(k)]_agFile

AgentInit(files) ==
    /\ agTips = [r \in AgRefs |-> 1] /\ agTop = agTips
    /\ agClock = 1
    /\ agFile \in files
    /\ agSettled = UNION {{<<t.name, r, 1, 0>> : t \in TasksAt(1, r)} : r \in AgRefs}
    /\ ag = AgResting /\ agFaults = 0 /\ wk = IdleWake /\ GlobsInit
FreshFile == [processed |-> [r \in AgRefs |-> 0], cron |-> [k \in AgKeys |-> NoMark],
              schedules |-> [k \in AgKeys |-> 0], old |-> FALSE, torn |-> FALSE]
\* A file that an earlier version left: the tip is dealt with, a slot is noted.
OldFile == [FreshFile EXCEPT !.processed = [r \in AgRefs |-> 1], !.old = TRUE,
                             !.cron = [k \in AgKeys |-> IF k[2] = 1 THEN 0 ELSE NoMark]]
=============================================================================
