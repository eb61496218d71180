------------------------------- MODULE Tasks -------------------------------
(***************************************************************************)
(* Background tasks of one repository on one instance (tasks.rs), the      *)
(* streams that attach to them (sse.rs) and the two phases of a shutdown   *)
(* (serve in server/lib.rs).  A task publishes its notices one by one and  *)
(* then finishes; a packet is the task's id and its number, a packet       *)
(* number 0 is the closing record.                                         *)
(***************************************************************************)
EXTENDS Integers, Sequences, FiniteSets

CONSTANTS
    Kinds,        \* kinds of tasks
    Streams,      \* clients that follow a task
    MaxTasks,     \* bound: tasks begun
    Notices,      \* notices a task publishes
    KeepRecords   \* KEEP_RECORDS

ASSUME TasksAssumption == {MaxTasks, Notices} \subseteq Nat /\ KeepRecords \in Nat \ {0}

VARIABLES
    tasks,    \* TaskState of every task, in the order they began
    running,  \* Tasks.running: kind -> task, 0 when none
    recent,   \* Tasks.recent
    stream,   \* task_stream of each client
    phase     \* DRAINING and SHUTTING_DOWN

taskVars == <<tasks, running, recent, stream, phase>>

NewTask(k) == [kind |-> k, pc |-> "begun", abort |-> FALSE, said |-> 0, ok |-> "none", outcome |-> "none",
               done |-> FALSE, replay |-> {}]
IdleStream == [pc |-> "idle", task |-> 0, got |-> {}, queue |-> {}, outcome |-> "none", result |-> "none"]
Ids == DOMAIN tasks
ById == {recent[i] : i \in DOMAIN recent}

TasksInit ==
    /\ tasks = <<>> /\ running = [k \in Kinds |-> 0] /\ recent = <<>>
    /\ stream = [c \in Streams |-> IdleStream] /\ phase = "serving"

\* Mutant: the look at the running tasks is left out.
begin_NoJoin(k) ==
    /\ Len(tasks) < MaxTasks /\ phase # "exit"
    /\ tasks' = Append(tasks, NewTask(k))
    /\ running' = [running EXCEPT ![k] = Len(tasks) + 1]
    /\ recent' = LET q == Append(recent, Len(tasks) + 1)
                 IN  SubSeq(q, IF Len(q) > KeepRecords THEN 2 ELSE 1, Len(q))
    /\ UNCHANGED <<stream, phase>>

\* begin: one task per kind; whoever comes second joins it (Attach).
begin(k) ==
    /\ Len(tasks) < MaxTasks /\ phase # "exit" /\ running[k] = 0
    /\ tasks' = Append(tasks, NewTask(k))
    /\ running' = [running EXCEPT ![k] = Len(tasks) + 1]
    /\ recent' = LET q == Append(recent, Len(tasks) + 1)
                 IN  SubSeq(q, IF Len(q) > KeepRecords THEN 2 ELSE 1, Len(q))
    /\ UNCHANGED <<stream, phase>>

\* ops::start spawns the work and then sets the abort handle; the two overlap.
SetAbortHandle(t) ==
    /\ ~tasks[t].abort
    /\ tasks' = [tasks EXCEPT ![t].abort = TRUE, ![t].pc = IF @ = "begun" THEN "run" ELSE @]
    /\ UNCHANGED <<running, recent, stream, phase>>

Work(t) ==
    /\ tasks[t].pc = "begun"
    /\ tasks' = [tasks EXCEPT ![t].pc = "run"]
    /\ UNCHANGED <<running, recent, stream, phase>>

\* publish, first half: into the replay buffer, under its lock.
PublishReplay(t) ==
    /\ tasks[t].pc = "run" /\ tasks[t].said < Notices
    /\ tasks' = [tasks EXCEPT ![t].pc = "send", ![t].said = @ + 1, ![t].replay = @ \cup {tasks[t].said + 1}]
    /\ UNCHANGED <<running, recent, stream, phase>>

\* publish, second half: to those who have subscribed.
PublishSend(t) ==
    /\ tasks[t].pc = "send"
    /\ tasks' = [tasks EXCEPT ![t].pc = "run"]
    /\ stream' = [c \in Streams |->
                     IF stream[c].task = t /\ stream[c].pc # "ended"
                     THEN [stream[c] EXCEPT !.queue = @ \cup {tasks[t].said}] ELSE stream[c]]
    /\ UNCHANGED <<running, recent, phase>>

\* finish: the record says how it ended, and the kind is free again.
FinishRecord(t, how) ==
    /\ tasks[t].pc = "run"
    /\ tasks' = [tasks EXCEPT ![t].pc = "record", ![t].ok = how]
    /\ running' = [running EXCEPT ![tasks[t].kind] = 0]
    /\ UNCHANGED <<recent, stream, phase>>

\* TaskHandle::drop: the work was aborted; while draining it counts as interrupted.
Aborted(t) ==
    /\ tasks[t].pc = "abort"
    /\ tasks' = [tasks EXCEPT ![t].pc = "record", ![t].ok = IF phase = "serving" THEN "error" ELSE "interrupted"]
    /\ running' = [running EXCEPT ![tasks[t].kind] = 0]
    /\ UNCHANGED <<recent, stream, phase>>

\* Mutant: those who wait are told before the outcome is there.
FinishOutcome_DoneFirst(t) ==
    /\ tasks[t].pc \in {"record", "outcome"}
    /\ tasks' = IF tasks[t].pc = "record" THEN [tasks EXCEPT ![t].pc = "outcome", ![t].done = TRUE]
                ELSE [tasks EXCEPT ![t].pc = "done", ![t].outcome = tasks[t].ok]
    /\ UNCHANGED <<running, recent, stream, phase>>

\* finish: the outcome, and then those who wait are told.
FinishOutcome(t) ==
    /\ tasks[t].pc \in {"record", "outcome"}
    /\ tasks' = IF tasks[t].pc = "record" THEN [tasks EXCEPT ![t].pc = "outcome", ![t].outcome = tasks[t].ok]
                ELSE [tasks EXCEPT ![t].pc = "done", ![t].done = TRUE]
    /\ UNCHANGED <<running, recent, stream, phase>>

\* finish: the closing record is a packet like the others.
FinishPublish(t) ==
    /\ tasks[t].pc = "done"
    /\ tasks' = [tasks EXCEPT ![t].pc = "finished", ![t].replay = @ \cup {0}]
    /\ stream' = [c \in Streams |->
                     IF stream[c].task = t /\ stream[c].pc # "ended"
                     THEN [stream[c] EXCEPT !.queue = @ \cup {0}] ELSE stream[c]]
    /\ UNCHANGED <<running, recent, phase>>

\* Mutant: what was published before is not replayed.
Attach_LiveOnly(c, t) ==
    /\ stream[c].pc = "idle" /\ t \in ById
    /\ stream' = [stream EXCEPT ![c] = [IdleStream EXCEPT !.pc = "live", !.task = t, !.outcome = tasks[t].outcome]]
    /\ UNCHANGED <<tasks, running, recent, phase>>

\* attach: replay, subscription and outcome, while no packet enters the replay.
Attach(c, t) ==
    /\ stream[c].pc = "idle" /\ t \in ById
    /\ stream' = [stream EXCEPT ![c] = [IdleStream EXCEPT !.pc = "live", !.task = t, !.got = tasks[t].replay,
                                                          !.outcome = tasks[t].outcome]]
    /\ UNCHANGED <<tasks, running, recent, phase>>

\* task_stream: the outcome was there, or is there once done is seen; the queue first.
StreamEnd(c) ==
    LET s == stream[c]
        t == tasks[s.task]
    IN  /\ s.pc = "live" /\ (s.outcome # "none" \/ t.done)
        /\ stream' = [stream EXCEPT ![c].pc = "ended",
                          ![c].got = IF s.outcome # "none" THEN @ ELSE @ \cup s.queue,
                          ![c].queue = {},
                          ![c].result = IF s.outcome # "none" THEN s.outcome ELSE t.outcome]
        /\ UNCHANGED <<tasks, running, recent, phase>>

StreamReceive(c) ==
    /\ stream[c].pc = "live" /\ stream[c].queue # {} /\ stream[c].outcome = "none"
    /\ stream' = [stream EXCEPT ![c].got = @ \cup stream[c].queue, ![c].queue = {}]
    /\ UNCHANGED <<tasks, running, recent, phase>>

\* SIGTERM: begin_drain, and interrupt_where aborts the operations that can be; an
\* abort acts where the work waits next.
BeginDrain ==
    /\ phase = "serving"
    /\ phase' = "draining"
    /\ tasks' = [t \in Ids |->
                    IF running[tasks[t].kind] = t /\ tasks[t].abort /\ tasks[t].pc \in {"begun", "run"}
                    THEN [tasks[t] EXCEPT !.pc = "abort"] ELSE tasks[t]]
    /\ UNCHANGED <<running, recent, stream>>

\* Phase 2 when no operation runs, or at the deadline (UNIT_STOP_MAX).
BeginShutdown(deadline) ==
    /\ phase = "draining"
    /\ deadline \/ \A k \in Kinds : running[k] = 0
    /\ phase' = "shutdown"
    /\ UNCHANGED <<tasks, running, recent, stream>>

TasksNext ==
    \/ \E k \in Kinds : begin(k)
    \/ \E t \in Ids : \/ SetAbortHandle(t) \/ Work(t) \/ PublishReplay(t) \/ PublishSend(t)
                      \/ \E how \in {"ok", "error"} : FinishRecord(t, how)
                      \/ Aborted(t) \/ FinishOutcome(t) \/ FinishPublish(t)
    \/ \E c \in Streams : \/ \E t \in Ids : Attach(c, t)
                          \/ StreamReceive(c) \/ StreamEnd(c)
    \/ BeginDrain \/ \E deadline \in BOOLEAN : BeginShutdown(deadline)

TasksSpec == TasksInit /\ [][TasksNext]_taskVars

(***************************************************************************)
(* Properties.                                                             *)
(***************************************************************************)

\* begin, finish and drop: two tasks of a kind never work at the same time, also when
\* one is aborted or a new one begins while the old one is still writing its outcome.
OneOfAKind ==
    \A t, u \in Ids : t # u /\ tasks[t].kind = tasks[u].kind =>
        ~({tasks[t].pc, tasks[u].pc} \subseteq {"begun", "run", "send", "abort"})

\* task_stream against finish: a stream never ends without how the task ended.
StreamHasOutcome == \A c \in Streams : stream[c].pc = "ended" => stream[c].result = tasks[stream[c].task].ok

\* attach against publish: whoever joins, early or late, has every notice in the end.
StreamHasNotices ==
    \A c \in Streams : stream[c].pc = "ended" => 1 .. tasks[stream[c].task].said \subseteq stream[c].got

\* "can be attached to live at any time": a task that runs is found by its id.
RunningFound == \A k \in Kinds : running[k] = 0 \/ running[k] \in ById

\* What attaching clients rely on: one task of a kind, and a stream that ends has the
\* outcome and every notice, however begin, finish, abort and attach interleave.
TasksSound == OneOfAKind /\ StreamHasOutcome /\ StreamHasNotices
============================================================================
