---------------------------- MODULE EventsBridge ----------------------------
(***************************************************************************)
(* The events bridge: the log of one repository, told to a webhook from a  *)
(* durable cursor.                                                         *)
(*                                                                         *)
(* A catch-up syncs the manifest, reads the cursor, reads the log after it *)
(* with a manifest of its own, delivers one batch and moves the cursor by  *)
(* compare-and-swap.  Writers commit, and checkpoints fold the log,        *)
(* meanwhile.  Every entry is taken to carry events.                       *)
(***************************************************************************)
EXTENDS Integers

CONSTANTS
    Bridges,    \* bridge processes; the service is meant to be one
    MaxSeq,     \* bound: sequence numbers the model can assign
    MaxFaults   \* bound: failed calls and crashes

ASSUME EventsAssumption == MaxSeq \in Nat /\ MaxFaults \in Nat

Seqs == 1 .. MaxSeq

VARIABLES
    head,       \* manifest: head_seq
    minSeq,     \* manifest: min_seq
    logged,        \* manifest: the entries in log_segments
    committed,  \* every entry ever committed
    cursor,     \* events/cursor.json: published_seq (-1: absent) and version
    delivered,  \* entries the webhook was sent
    skipped,    \* entries reported as a gap, or passed over by a cold start
    late,       \* entries folded between the two manifests of a catch-up
    br,         \* the bridges
    faults      \* faults so far

wal == <<head, minSeq, logged, committed, late>>
eventVars == <<head, minSeq, logged, committed, late, cursor, delivered, skipped, br, faults>>

NoCursor == [seq |-> -1, ver |-> 0]
IdleBridge == [pc |-> "idle", head |-> 0, min |-> 0, from |-> 0, ver |-> 0, batch |-> {}]

EventsInit ==
    /\ head = 0 /\ minSeq = 0 /\ logged = {} /\ committed = {}
    /\ cursor = NoCursor
    /\ delivered = {} /\ skipped = {} /\ late = {}
    /\ br = [b \in Bridges |-> IdleBridge]
    /\ faults = 0

(***************************************************************************)
(* The repository.                                                         *)
(***************************************************************************)

\* A push commits at the next seq, or past one that was burned.
Commit(s) ==
    /\ s \in head + 1 .. head + 2
    /\ head' = s /\ logged' = logged \cup {s} /\ committed' = committed \cup {s}
    /\ UNCHANGED <<minSeq, late, cursor, delivered, skipped, br, faults>>

\* A bridge has synced its manifest and not yet read the log up to s.
BetweenManifests(s) == \E b \in Bridges : br[b].pc \in {"cursor", "log"} /\ s <= br[b].head

\* A checkpoint at c: its entries leave the log.
FoldLog(c) ==
    /\ c \in minSeq .. head /\ c # 0
    /\ minSeq' = c + 1 /\ logged' = {s \in logged : s > c}
    /\ late' = late \cup {s \in logged : s <= c /\ BetweenManifests(s)}
    /\ UNCHANGED <<head, committed, cursor, delivered, skipped, br, faults>>

(***************************************************************************)
(* catch_up.                                                               *)
(***************************************************************************)

BrUnchanged == UNCHANGED <<wal, cursor, delivered, faults>>

\* A notification or the sweep; the manifest is synced.
Wake(b) ==
    /\ br[b].pc = "idle"
    /\ br' = [br EXCEPT ![b] = [pc |-> "cursor", head |-> head, min |-> minSeq,
                                from |-> 0, ver |-> 0, batch |-> {}]]
    /\ BrUnchanged /\ UNCHANGED skipped

\* Mutant: a cursor behind the log is moved up and nobody is told.
ReadCursorQuietly(b) ==
    LET readable == IF br[b].min = 0 THEN 0 ELSE br[b].min - 1
        from == IF cursor.seq < readable THEN readable ELSE cursor.seq
    IN  /\ br[b].pc = "cursor"
        /\ br' = [br EXCEPT ![b].pc = IF br[b].head > from THEN "log" ELSE "advance",
                            ![b].from = from, ![b].ver = cursor.ver]
        /\ UNCHANGED skipped
        /\ BrUnchanged

\* Mutant: an absent cursor is not told from one at zero.
ReadCursorCold(b) ==
    /\ br[b].pc = "cursor"
    /\ br' = [br EXCEPT ![b].pc = IF br[b].head > cursor.seq THEN "log" ELSE "advance",
                        ![b].from = cursor.seq, ![b].ver = cursor.ver]
    /\ BrUnchanged /\ UNCHANGED skipped

\* The cursor, or a cold start at the oldest readable seq; entries that were
\* folded before they were read are counted as a gap.
ReadCursor(b) ==
    LET readable == IF br[b].min = 0 THEN 0 ELSE br[b].min - 1
        from == IF cursor.seq < readable THEN readable ELSE cursor.seq
    IN  /\ br[b].pc = "cursor"
        /\ br' = [br EXCEPT ![b] =
                    IF br[b].head > from THEN [@ EXCEPT !.pc = "log", !.from = from, !.ver = cursor.ver]
                    ELSE IF cursor.seq # br[b].head THEN [@ EXCEPT !.pc = "advance", !.ver = cursor.ver]
                    ELSE IdleBridge]
        /\ skipped' = skipped \cup {s \in Seqs : cursor.seq < s /\ s <= readable}
        /\ BrUnchanged

\* read_log: the entries in (from, head] of a manifest read afresh.
ReadLog(b) ==
    /\ br[b].pc = "log"
    /\ br' = [br EXCEPT ![b].pc = "deliver",
                        ![b].batch = {s \in logged : br[b].from < s /\ s <= br[b].head}]
    /\ BrUnchanged /\ UNCHANGED skipped

\* The webhook answers 2xx.
Deliver(b) ==
    /\ br[b].pc = "deliver"
    /\ delivered' = delivered \cup br[b].batch
    /\ br' = [br EXCEPT ![b].pc = "advance", ![b].batch = {}]
    /\ UNCHANGED <<wal, cursor, skipped, faults>>

\* Mutant: the cursor goes to the head of the moment.
AdvanceToHead(b) ==
    /\ br[b].pc = "advance"
    /\ cursor' = IF cursor.ver = br[b].ver THEN [seq |-> head, ver |-> cursor.ver + 1] ELSE cursor
    /\ br' = [br EXCEPT ![b] = IdleBridge]
    /\ UNCHANGED <<wal, delivered, skipped, faults>>

\* The cursor's CAS; a lost one is another bridge's business.
Advance(b) ==
    /\ br[b].pc = "advance"
    /\ cursor' = IF cursor.ver = br[b].ver THEN [seq |-> br[b].head, ver |-> cursor.ver + 1]
                 ELSE cursor
    /\ br' = [br EXCEPT ![b] = IdleBridge]
    /\ UNCHANGED <<wal, delivered, skipped, faults>>

\* Mutant: a sink that fails does not keep the cursor where it was.
FailGoesOn(b) ==
    /\ br[b].pc = "deliver" /\ faults < MaxFaults
    /\ faults' = faults + 1
    /\ br' = [br EXCEPT ![b].pc = "advance", ![b].batch = {}]
    /\ UNCHANGED <<wal, cursor, delivered, skipped>>

\* A call fails, or the process dies: the webhook may have been reached and the
\* cursor may have been written.  The next wake-up starts over.
Fail(b) ==
    /\ br[b].pc # "idle" /\ faults < MaxFaults
    /\ faults' = faults + 1
    /\ br' = [br EXCEPT ![b] = IdleBridge]
    /\ \/ UNCHANGED <<delivered, cursor>>
       \/ /\ br[b].pc = "deliver"
          /\ delivered' = delivered \cup br[b].batch
          /\ UNCHANGED cursor
       \/ /\ br[b].pc = "advance" /\ cursor.ver = br[b].ver
          /\ cursor' = [seq |-> br[b].head, ver |-> cursor.ver + 1]
          /\ UNCHANGED delivered
    /\ UNCHANGED <<wal, skipped>>

Step(b) == Wake(b) \/ ReadCursor(b) \/ ReadLog(b) \/ Deliver(b) \/ Advance(b)

EventsNext ==
    \/ \E s \in Seqs : Commit(s) \/ FoldLog(s)
    \/ \E b \in Bridges : Step(b) \/ Fail(b)

\* The sweep wakes every bridge again and again, and a catch-up goes on.
EventsFairness == \A b \in Bridges : WF_eventVars(Step(b))
EventsSpec == EventsInit /\ [][EventsNext]_eventVars /\ EventsFairness

(***************************************************************************)
(* Properties.                                                             *)
(***************************************************************************)

\* Every variable holds a value of its kind.
EventsTypeOK ==
    /\ head \in 0 .. MaxSeq /\ minSeq \in 0 .. MaxSeq + 1
    /\ logged \subseteq Seqs /\ committed \subseteq Seqs
    /\ cursor \in [seq : -1 .. MaxSeq, ver : Nat]
    /\ delivered \subseteq Seqs /\ skipped \subseteq Seqs /\ late \subseteq Seqs
    /\ br \in [Bridges -> [pc : {"idle", "cursor", "log", "deliver", "advance"},
                           head : 0 .. MaxSeq, min : 0 .. MaxSeq + 1, from : 0 .. MaxSeq,
                           ver : Nat, batch : SUBSET Seqs]]
    /\ faults \in 0 .. MaxFaults

\* Nothing still in the log is behind the cursor undelivered, whatever failed
\* and however many bridges run.
DeliveredBehindCursor == \A s \in logged : s <= cursor.seq => s \in delivered

\* Every entry behind the cursor was delivered or reported: a gap is never
\* silent ("at-least-once, never a gap").
NoSilentGap == \A s \in committed : s <= cursor.seq => s \in delivered \cup skipped

\* The one way to a silent gap is a fold between the two manifests of a
\* catch-up: faults, cold starts and a second bridge never open one.
GapOnlyByLateFold ==
    \A s \in committed : s <= cursor.seq => s \in delivered \cup skipped \cup late

\* The cursor never moves back: what another bridge published stands.
CursorForward == [][cursor.seq <= cursor'.seq]_eventVars

\* An entry that stays in the log is delivered.
EventuallyDelivered == \A s \in Seqs : s \in logged ~> (s \in delivered \/ s \notin logged)

\* What the cursor has passed: nothing of it waits undelivered in the log, and the one
\* way to lose an entry is a fold between the two manifests of a catch-up.
BehindCursor == DeliveredBehindCursor /\ GapOnlyByLateFold
=============================================================================
