------------------------- MODULE CoordinationProofs -------------------------
(***************************************************************************)
(* What instances that share no memory agree on: the cursor of the events  *)
(* bridge (EventsBridge), the records of background tasks and their        *)
(* progress streams (Tasks), updates by compare-and-swap in the object     *)
(* store (Store), and leases: two unexpired guards never exist when the    *)
(* clocks differ by no more than the tolerance (Lease).                    *)
(*                                                                         *)
(* Each part has its own inductive invariant and a section that proves it. *)
(***************************************************************************)
EXTENDS EventsBridge, Tasks, Store, Lease, TLAPS

(***************************************************************************)
(* EventsBridge, for any number of bridges, entries and faults: what the   *)
(* cursor has passed was delivered, reported, or folded between the two    *)
(* manifests of a catch-up.                                                *)
(***************************************************************************)

\* The kinds of value, without their bounds.
BridgeRecs == [pc : {"idle", "cursor", "log", "deliver", "advance"}, head : Nat, min : Nat,
               from : Int, ver : Nat, batch : SUBSET Int]
EventsTypes ==
    /\ head \in Nat /\ minSeq \in Nat
    /\ logged \subseteq Seqs /\ committed \subseteq Seqs
    /\ cursor \in [seq : Int, ver : Nat]
    /\ br \in [Bridges -> BridgeRecs]

\* Nothing up to h waits in the log, and nothing up to h is lost but what is late; the
\* batch b is on its way to the webhook.
Told(h, b) ==
    /\ \A s \in logged : s <= h => s \in delivered \cup b
    /\ \A s \in committed : s <= h => s \in delivered \cup skipped \cup late \cup b

\* The same of the next state, up to an h of this one.
ToldNext(h, b) ==
    /\ \A s \in logged' : s <= h => s \in delivered' \cup b
    /\ \A s \in committed' : s <= h => s \in delivered' \cup skipped' \cup late' \cup b

\* The log holds exactly the entries that no checkpoint has folded.
LogInv ==
    /\ \A s \in committed : s <= head
    /\ \A s \in logged : s \in committed /\ s >= minSeq
    /\ \A s \in committed : s >= minSeq => s \in logged
    /\ minSeq <= head + 1
    /\ cursor.seq <= head

\* How far each catch-up has come: the manifest it works from is an older one; what it has
\* yet to read is in the log or late; what it is about to put behind the cursor is told.
BridgeInv(b) ==
    LET r == br[b]
    IN  /\ r.head <= head /\ r.min <= minSeq /\ r.min <= r.head + 1
        /\ r.pc \in {"cursor", "log"} =>
              \A s \in committed : r.min <= s /\ s <= r.head => s \in logged \cup late
        /\ r.pc = "log" => r.min <= r.from + 1 /\ r.from < r.head /\ Told(r.from, {})
        /\ r.pc = "deliver" => Told(r.head, r.batch)
        /\ r.pc = "advance" => Told(r.head, {})

EventsInv == EventsTypes /\ LogInv /\ Told(cursor.seq, {}) /\ \A b \in Bridges : BridgeInv(b)

-----------------------------------------------------------------------------

LEMMA SeqsAreNat == Seqs \subseteq Nat /\ MaxSeq \in Nat
  BY EventsAssumption DEF Seqs

LEMMA EventsInvInit == EventsInit => EventsInv
  BY DEF EventsInit, EventsInv, EventsTypes, BridgeRecs, LogInv, Told, BridgeInv, IdleBridge, NoCursor

\* A step of one bridge that leaves the repository alone and takes nothing back.
LEMMA BridgeStep ==
    ASSUME EventsInv, NEW b \in Bridges, NEW r \in BridgeRecs,
           br' = [br EXCEPT ![b] = r], UNCHANGED wal,
           cursor' \in [seq : Int, ver : Nat], cursor'.seq <= head,
           delivered \subseteq delivered', skipped \subseteq skipped',
           Told(cursor.seq, {})', BridgeInv(b)'
    PROVE  EventsInv'
<1>1. EventsTypes'
  BY DEF EventsInv, EventsTypes, wal
<1>2. LogInv'
  BY DEF EventsInv, LogInv, wal
<1>3. ASSUME NEW c \in Bridges, c # b PROVE BridgeInv(c)'
  <2>1. br'[c] = br[c]
    BY <1>3 DEF EventsInv, EventsTypes
  <2>2. BridgeInv(c)
    BY DEF EventsInv
  <2> QED BY <2>1, <2>2 DEF BridgeInv, Told, wal
<1>4. \A c \in Bridges : BridgeInv(c)'
  BY <1>3
<1> QED BY <1>1, <1>2, <1>4 DEF EventsInv

\* A push adds an entry past every manifest and past the cursor.
LEMMA CommitKeeps ==
    ASSUME EventsInv, NEW s \in Seqs, Commit(s)
    PROVE  EventsInv'
<1>0. s \in Nat /\ head \in Nat /\ s > head
  BY SeqsAreNat DEF Commit, EventsInv, EventsTypes
<1>1. EventsTypes'
  BY SeqsAreNat DEF EventsInv, EventsTypes, Commit
<1>2. LogInv'
  BY <1>0, SeqsAreNat DEF EventsInv, EventsTypes, LogInv, Commit
<1>3. ASSUME NEW h \in Int, h <= head, NEW B, Told(h, B) PROVE Told(h, B)'
  BY <1>0, <1>3 DEF Told, Commit
<1>4. Told(cursor.seq, {})'
  <2>1. Told(cursor.seq, {}) /\ cursor.seq \in Int /\ cursor.seq <= head /\ cursor' = cursor
    BY DEF EventsInv, EventsTypes, LogInv, Commit
  <2> QED BY <2>1, <1>0 DEF Told, Commit
<1>5. ASSUME NEW b \in Bridges PROVE BridgeInv(b)'
  <2>1. BridgeInv(b) /\ br' = br /\ br[b] \in BridgeRecs
    BY DEF EventsInv, EventsTypes, Commit
  <2> QED BY <2>1, <1>0, SeqsAreNat DEF BridgeInv, Told, Commit, BridgeRecs
<1> QED BY <1>1, <1>2, <1>4, <1>5 DEF EventsInv

\* A checkpoint takes entries from the log: those a catch-up still counts on become late.
LEMMA FoldLogKeeps ==
    ASSUME EventsInv, NEW c \in Seqs, FoldLog(c)
    PROVE  EventsInv'
<1>0. c \in Nat /\ head \in Nat /\ minSeq \in Nat /\ minSeq <= c /\ c <= head
      /\ logged' \subseteq logged /\ late \subseteq late'
  BY SeqsAreNat DEF FoldLog, EventsInv, EventsTypes
<1>1. EventsTypes'
  <2>1. logged' \subseteq Seqs /\ minSeq' \in Nat
    <3>1. logged \subseteq Seqs /\ minSeq' = c + 1
      BY DEF EventsInv, EventsTypes, FoldLog
    <3> QED BY <3>1, <1>0
  <2> QED BY <2>1 DEF EventsInv, EventsTypes, FoldLog
<1>2. LogInv'
  BY <1>0, SeqsAreNat DEF EventsInv, EventsTypes, LogInv, FoldLog
<1>4. Told(cursor.seq, {})'
  BY <1>0 DEF EventsInv, Told, FoldLog
<1>5. ASSUME NEW b \in Bridges PROVE BridgeInv(b)'
  <2>1. BridgeInv(b) /\ br' = br /\ br[b] \in BridgeRecs
    BY DEF EventsInv, EventsTypes, FoldLog
  <2>2. ASSUME br[b].pc \in {"cursor", "log"}, NEW s \in committed,
               br[b].min <= s, s <= br[b].head
        PROVE  s \in logged' \cup late'
    <3>1. s \in logged \cup late
      BY <2>1, <2>2 DEF BridgeInv
    <3>2. BetweenManifests(s)
      BY <2>2 DEF BetweenManifests
    <3>3. s \in Nat
      BY SeqsAreNat DEF EventsInv, EventsTypes
    <3> QED BY <3>1, <3>2, <3>3, <1>0 DEF FoldLog
  <2>3. committed' = committed /\ delivered' = delivered /\ skipped' = skipped /\ head' = head
        /\ minSeq' = c + 1
    BY DEF FoldLog
  <2>4. \A h, B : Told(h, B) => /\ \A s \in logged' : s <= h => s \in delivered \cup B
                                /\ \A s \in committed : s <= h => s \in delivered \cup skipped \cup late' \cup B
    BY <1>0 DEF Told
  <2> QED BY <2>1, <2>2, <2>3, <2>4, <1>0 DEF BridgeInv, BridgeRecs, Told
<1> QED BY <1>1, <1>2, <1>4, <1>5 DEF EventsInv

\* Nothing a bridge reads or delivers takes anything back, as long as the cursor stands.
LEMMA CursorStands ==
    ASSUME EventsInv, UNCHANGED <<wal, cursor>>,
           delivered \subseteq delivered', skipped \subseteq skipped'
    PROVE  cursor' \in [seq : Int, ver : Nat] /\ cursor'.seq <= head /\ Told(cursor.seq, {})'
  BY DEF EventsInv, EventsTypes, LogInv, Told, wal

LEMMA IdleStep ==
    ASSUME EventsInv, NEW b \in Bridges, br' = [br EXCEPT ![b] = IdleBridge], UNCHANGED wal
    PROVE  IdleBridge \in BridgeRecs /\ BridgeInv(b)'
<1>1. br'[b] = IdleBridge /\ head' = head /\ minSeq' = minSeq /\ head \in Nat /\ minSeq \in Nat
  BY DEF EventsInv, EventsTypes, wal
<1> QED BY <1>1 DEF IdleBridge, BridgeRecs, BridgeInv

LEMMA WakeKeeps ==
    ASSUME EventsInv, NEW b \in Bridges, Wake(b)
    PROVE  EventsInv'
<1> DEFINE r == [pc |-> "cursor", head |-> head, min |-> minSeq, from |-> 0, ver |-> 0, batch |-> {}]
<1>1. br' = [br EXCEPT ![b] = r] /\ UNCHANGED <<wal, cursor, delivered, skipped>>
  BY DEF Wake, BrUnchanged
<1>2. head \in Nat /\ minSeq \in Nat
  BY DEF EventsInv, EventsTypes
<1>3. r \in BridgeRecs /\ r.pc = "cursor" /\ r.head = head /\ r.min = minSeq
  BY <1>2 DEF BridgeRecs
<1>4. br'[b] = r
  BY <1>1 DEF EventsInv, EventsTypes
<1> HIDE DEF r
<1>5. BridgeInv(b)'
  BY <1>1, <1>2, <1>3, <1>4, SeqsAreNat DEF BridgeInv, EventsInv, LogInv, wal
<1> QED BY <1>1, <1>3, <1>5, CursorStands, BridgeStep

\* From the cursor or, past what was folded and reported, from the oldest readable seq.
LEMMA ReadCursorKeeps ==
    ASSUME EventsInv, NEW b \in Bridges, ReadCursor(b)
    PROVE  EventsInv'
<1> DEFINE readable == IF br[b].min = 0 THEN 0 ELSE br[b].min - 1
           from == IF cursor.seq < readable THEN readable ELSE cursor.seq
           gap == {s \in Seqs : cursor.seq < s /\ s <= readable}
           r == IF br[b].head > from THEN [br[b] EXCEPT !.pc = "log", !.from = from, !.ver = cursor.ver]
                ELSE IF cursor.seq # br[b].head THEN [br[b] EXCEPT !.pc = "advance", !.ver = cursor.ver]
                ELSE IdleBridge
<1>1. br' = [br EXCEPT ![b] = r] /\ UNCHANGED <<wal, cursor, delivered>>
      /\ skipped' = skipped \cup gap /\ br[b].pc = "cursor"
  BY DEF ReadCursor, BrUnchanged
<1>2. br[b] \in BridgeRecs /\ cursor \in [seq : Int, ver : Nat] /\ BridgeInv(b)
      /\ br[b].head \in Nat /\ br[b].min \in Nat /\ head \in Nat /\ minSeq \in Nat
      /\ cursor.seq \in Int /\ cursor.ver \in Nat
      /\ committed \subseteq Seqs /\ logged \subseteq Seqs
  BY DEF EventsInv, EventsTypes, BridgeRecs
<1>3. readable \in Int /\ from \in Int /\ br[b].min <= readable + 1 /\ readable <= from /\ cursor.seq <= from
      /\ (readable >= br[b].min => readable = 0)
  BY <1>2
<1>4. ToldNext(from, {})
  <2>1. ASSUME NEW s \in logged, s <= from PROVE s \in delivered
    <3>1. s \in Nat /\ s > 0 /\ s >= minSeq /\ br[b].min <= minSeq
      BY <1>2, SeqsAreNat DEF EventsInv, LogInv, BridgeInv, Seqs
    <3>2. CASE s <= cursor.seq
      BY <3>2 DEF EventsInv, Told
    <3>3. CASE s > cursor.seq
      BY <3>1, <3>3, <2>1, <1>2, <1>3
    <3> QED BY <3>1, <3>2, <3>3, <1>2
  <2>2. ASSUME NEW s \in committed, s <= from PROVE s \in delivered \cup (skipped \cup gap) \cup late
    <3>1. s \in Nat /\ s \in Seqs
      BY <1>2, SeqsAreNat
    <3>2. CASE s <= cursor.seq
      BY <3>2 DEF EventsInv, Told
    <3>3. CASE s > cursor.seq
      BY <3>1, <3>3, <2>2, <1>2, <1>3
    <3> QED BY <3>1, <3>2, <3>3, <1>2
  <2> QED BY <2>1, <2>2, <1>1 DEF ToldNext, wal
<1>5. br'[b] = r
  BY <1>1 DEF EventsInv, EventsTypes
<1>6. \A s \in committed : br[b].min <= s /\ s <= br[b].head => s \in logged \cup late
  BY <1>1, <1>2 DEF BridgeInv
<1>7. br[b].head <= head /\ br[b].min <= minSeq /\ br[b].min <= br[b].head + 1
  BY <1>2 DEF BridgeInv
<1> HIDE DEF readable, from, gap
<1>8. r \in BridgeRecs /\ BridgeInv(b)'
  <2>1. CASE br[b].head > from
    <3>1. r = [br[b] EXCEPT !.pc = "log", !.from = from, !.ver = cursor.ver]
      BY <2>1
    <3> HIDE DEF r
    <3>2. r \in BridgeRecs /\ r.pc = "log" /\ r.from = from /\ r.head = br[b].head /\ r.min = br[b].min
      BY <3>1, <1>2, <1>3 DEF BridgeRecs
    <3> QED BY <3>2, <1>1, <1>2, <1>3, <1>4, <1>5, <1>6, <1>7, <2>1 DEF BridgeInv, Told, ToldNext, wal
  <2>2. CASE ~(br[b].head > from) /\ cursor.seq # br[b].head
    <3>1. r = [br[b] EXCEPT !.pc = "advance", !.ver = cursor.ver]
      BY <2>2
    <3> HIDE DEF r
    <3>2. r \in BridgeRecs /\ r.pc = "advance" /\ r.head = br[b].head /\ r.min = br[b].min
      BY <3>1, <1>2, <1>3 DEF BridgeRecs
    <3>3. \A s \in Seqs : s <= br[b].head => s <= from
      <4>1. br[b].head \in Int /\ from \in Int /\ br[b].head <= from
        BY <2>2, <1>2, <1>3
      <4>2. \A s \in Int : s <= br[b].head => s <= from
        BY <4>1
      <4> QED BY <4>2, SeqsAreNat
    <3>4. ToldNext(br[b].head, {})
      BY <3>3, <1>4, <1>1, <1>2 DEF ToldNext, wal
    <3> QED BY <3>2, <3>4, <1>1, <1>2, <1>5, <1>7 DEF BridgeInv, Told, ToldNext, wal
  <2>3. CASE ~(br[b].head > from) /\ cursor.seq = br[b].head
    <3>1. r = IdleBridge
      BY <2>3
    <3> HIDE DEF r
    <3> QED BY <3>1, <1>1, IdleStep
  <2> QED BY <2>1, <2>2, <2>3
<1> HIDE DEF r
<1>9. delivered \subseteq delivered' /\ skipped \subseteq skipped'
  BY <1>1
<1> QED BY <1>1, <1>8, <1>9, CursorStands, BridgeStep

\* What is read is what the log still holds; what it no longer holds is late.
LEMMA ReadLogKeeps ==
    ASSUME EventsInv, NEW b \in Bridges, ReadLog(b)
    PROVE  EventsInv'
<1> DEFINE B == {s \in logged : br[b].from < s /\ s <= br[b].head}
           r == [br[b] EXCEPT !.pc = "deliver", !.batch = B]
<1>1. br' = [br EXCEPT ![b] = r] /\ UNCHANGED <<wal, cursor, delivered, skipped>> /\ br[b].pc = "log"
  BY DEF ReadLog, BrUnchanged
<1>2. br[b] \in BridgeRecs /\ BridgeInv(b) /\ committed \subseteq Nat /\ logged \subseteq Nat
  BY SeqsAreNat DEF EventsInv, EventsTypes
<1>3. r \in BridgeRecs /\ r.pc = "deliver" /\ r.batch = B /\ r.head = br[b].head /\ r.min = br[b].min
  <2>1. B \in SUBSET Int
    <3>1. B \subseteq logged
      OBVIOUS
    <3>2. logged \subseteq Int
      BY <1>2
    <3> HIDE DEF B
    <3> QED BY <3>1, <3>2
  <2> HIDE DEF B
  <2> QED BY <2>1, <1>2 DEF BridgeRecs
<1>4. br'[b] = r
  BY <1>1 DEF EventsInv, EventsTypes
<1>5. Told(br[b].head, B)
  <2>1. br[b].min \in Nat /\ br[b].from \in Int /\ br[b].head \in Nat /\ br[b].min <= br[b].from + 1
        /\ Told(br[b].from, {})
    BY <1>1, <1>2 DEF BridgeInv, BridgeRecs
  <2>2. \A s \in committed : br[b].min <= s /\ s <= br[b].head => s \in logged \cup late
    BY <1>1, <1>2 DEF BridgeInv
  <2>3. ASSUME NEW s \in committed, s <= br[b].head
        PROVE  s \in delivered \cup skipped \cup late \cup B
    <3>1. CASE s <= br[b].from
      BY <3>1, <2>1 DEF Told
    <3>2. CASE s > br[b].from
      BY <3>2, <2>1, <2>2, <2>3, <1>2
    <3> QED BY <3>1, <3>2, <2>1, <1>2
  <2>4. ASSUME NEW s \in logged, s <= br[b].head PROVE s \in delivered \cup B
    <3>1. CASE s <= br[b].from
      BY <3>1, <2>1 DEF Told
    <3>2. CASE s > br[b].from
      BY <3>2, <2>4
    <3> QED BY <3>1, <3>2, <2>1, <1>2
  <2> QED BY <2>3, <2>4 DEF Told
<1> HIDE DEF r, B
<1>6. BridgeInv(b)'
  BY <1>1, <1>2, <1>3, <1>4, <1>5 DEF BridgeInv, Told, wal
<1> QED BY <1>1, <1>3, <1>6, CursorStands, BridgeStep

LEMMA DeliverKeeps ==
    ASSUME EventsInv, NEW b \in Bridges, Deliver(b)
    PROVE  EventsInv'
<1> DEFINE r == [br[b] EXCEPT !.pc = "advance", !.batch = {}]
<1>1. br' = [br EXCEPT ![b] = r] /\ UNCHANGED <<wal, cursor, skipped>> /\ br[b].pc = "deliver"
      /\ delivered' = delivered \cup br[b].batch
  BY DEF Deliver
<1>2. br[b] \in BridgeRecs /\ BridgeInv(b)
  BY DEF EventsInv, EventsTypes
<1>3. r \in BridgeRecs /\ r.pc = "advance" /\ r.head = br[b].head /\ r.min = br[b].min
  BY <1>2 DEF BridgeRecs
<1>4. br'[b] = r
  BY <1>1 DEF EventsInv, EventsTypes
<1> HIDE DEF r
<1>6. BridgeInv(b)'
  BY <1>1, <1>2, <1>3, <1>4 DEF BridgeInv, Told, wal
<1> QED BY <1>1, <1>3, <1>6, CursorStands, BridgeStep

\* What the compare-and-swap puts behind the cursor is told.
LEMMA AdvanceTold ==
    ASSUME EventsInv, NEW b \in Bridges, br[b].pc = "advance", UNCHANGED <<wal, delivered, skipped>>,
           cursor' = [seq |-> br[b].head, ver |-> cursor.ver + 1]
    PROVE  cursor' \in [seq : Int, ver : Nat] /\ cursor'.seq <= head /\ Told(cursor.seq, {})'
<1>1. br[b] \in BridgeRecs /\ BridgeInv(b) /\ cursor \in [seq : Int, ver : Nat]
  BY DEF EventsInv, EventsTypes
<1>2. cursor'.seq = br[b].head /\ br[b].head \in Nat /\ br[b].head <= head /\ Told(br[b].head, {})
  BY <1>1 DEF BridgeInv, BridgeRecs
<1> QED BY <1>1, <1>2 DEF Told, wal

LEMMA AdvanceKeeps ==
    ASSUME EventsInv, NEW b \in Bridges, Advance(b)
    PROVE  EventsInv'
<1>1. br' = [br EXCEPT ![b] = IdleBridge] /\ UNCHANGED <<wal, delivered, skipped>> /\ br[b].pc = "advance"
  BY DEF Advance
<1>2. cursor' \in [seq : Int, ver : Nat] /\ cursor'.seq <= head /\ Told(cursor.seq, {})'
  <2>1. CASE cursor.ver = br[b].ver
    BY <1>1, <2>1, AdvanceTold DEF Advance
  <2>2. CASE cursor.ver # br[b].ver
    BY <1>1, <2>2, CursorStands DEF Advance
  <2> QED BY <2>1, <2>2
<1> QED BY <1>1, <1>2, IdleStep, BridgeStep

LEMMA FailKeeps ==
    ASSUME EventsInv, NEW b \in Bridges, Fail(b)
    PROVE  EventsInv'
<1>1. br' = [br EXCEPT ![b] = IdleBridge] /\ UNCHANGED <<wal, skipped>>
  BY DEF Fail
<1>2. CASE UNCHANGED cursor
  <2>1. delivered \subseteq delivered'
    BY DEF Fail
  <2> QED BY <1>1, <1>2, <2>1, CursorStands, IdleStep, BridgeStep
<1>3. CASE /\ br[b].pc = "advance" /\ UNCHANGED delivered
           /\ cursor' = [seq |-> br[b].head, ver |-> cursor.ver + 1]
  BY <1>1, <1>3, AdvanceTold, IdleStep, BridgeStep
<1> QED BY <1>2, <1>3 DEF Fail

LEMMA EventsInvStep == EventsInv /\ [EventsNext]_eventVars => EventsInv'
<1> SUFFICES ASSUME EventsInv, [EventsNext]_eventVars PROVE EventsInv'
  OBVIOUS
<1>1. ASSUME NEW s \in Seqs, Commit(s) \/ FoldLog(s) PROVE EventsInv'
  BY <1>1, CommitKeeps, FoldLogKeeps
<1>2. ASSUME NEW b \in Bridges, Step(b) \/ Fail(b) PROVE EventsInv'
  BY <1>2, WakeKeeps, ReadCursorKeeps, ReadLogKeeps, DeliverKeeps, AdvanceKeeps, FailKeeps DEF Step
<1>3. CASE UNCHANGED eventVars
  BY <1>3 DEF eventVars, EventsInv, EventsTypes, LogInv, Told, BridgeInv
<1> QED BY <1>1, <1>2, <1>3 DEF EventsNext

\* However many bridges run and whatever call fails, what the durable cursor has passed was
\* delivered, reported as a gap, or folded between the two manifests of one catch-up, and
\* nothing that is still in the log waits behind it (catch_up, write_cursor).
THEOREM CursorTellsTruth == EventsSpec => []BehindCursor
<1>1. EventsInv => BehindCursor
  BY DEF EventsInv, BehindCursor, DeliveredBehindCursor, GapOnlyByLateFold, Told
<1> QED BY <1>1, EventsInvInit, EventsInvStep, PTL DEF EventsSpec

(***************************************************************************)
(* Tasks: the inductive invariant.                                         *)
(***************************************************************************)

Works == {"begun", "run", "send", "abort"}
Ended == {"outcome", "done", "finished"}
TaskPcs == Works \cup Ended \cup {"record"}
Outcomes == {"none", "ok", "error", "interrupted"}

TaskRecs == [kind : Kinds, pc : TaskPcs, abort : BOOLEAN, said : Nat, ok : Outcomes,
             outcome : Outcomes, done : BOOLEAN, replay : SUBSET Nat]
StreamRecs == [pc : {"idle", "live", "ended"}, task : Nat, got : SUBSET Nat, queue : SUBSET Nat,
               outcome : Outcomes, result : Outcomes]

TaskTypes ==
    /\ tasks \in Seq(TaskRecs)
    /\ running \in [Kinds -> Nat]
    /\ stream \in [Streams -> StreamRecs]

\* A task that works holds its kind; its outcome is there before those who wait are
\* told; the replay has all that it said.
TaskGood(t, q, run) ==
    /\ q.pc \in Works => run[q.kind] = t /\ q.ok = "none"
    /\ q.pc \notin Works => q.ok # "none"
    /\ q.outcome # "none" => q.pc \in Ended
    /\ q.pc \in Ended => q.outcome = q.ok
    /\ q.done => q.pc \in Ended
    /\ 1 .. q.said \subseteq q.replay

\* A stream of task q lacks at most the notice the task is about to send; it knows the
\* outcome only when there is nothing more to be said, and so has it all when it ends.
StreamGood(s, q) ==
    /\ s.pc = "live" =>
          \A n \in 1 .. q.said : (q.pc = "send" => n # q.said) => n \in s.got \cup s.queue
    /\ s.pc = "live" /\ s.outcome # "none" =>
          q.pc \in Ended /\ s.outcome = q.ok /\ 1 .. q.said \subseteq s.got
    /\ s.pc = "ended" =>
          q.pc \in Ended /\ s.result = q.ok /\ 1 .. q.said \subseteq s.got

TasksInv ==
    /\ TaskTypes
    /\ \A t \in Ids : TaskGood(t, tasks[t], running)
    /\ \A c \in Streams : /\ stream[c].pc = "idle" => stream[c].task = 0
                          /\ stream[c].pc # "idle" => /\ stream[c].task \in Ids
                                                      /\ StreamGood(stream[c], tasks[stream[c].task])

\* Facts about the records.
LEMMA TaskFacts ==
    ASSUME TasksInv
    PROVE  /\ Ids = 1 .. Len(tasks) /\ Len(tasks) \in Nat
           /\ \A t \in Ids : t \in Nat /\ t # 0 /\ tasks[t] \in TaskRecs
           /\ \A c \in Streams : stream[c] \in StreamRecs
BY DEF TasksInv, TaskTypes, Ids

\* One task moves, and its streams with it.
LEMMA TaskMoves ==
    ASSUME TasksInv, NEW t \in Ids, NEW q \in TaskRecs,
           tasks' = [tasks EXCEPT ![t] = q], q.kind = tasks[t].kind, TaskGood(t, q, running'),
           \/ running' = running
           \/ running' = [running EXCEPT ![q.kind] = 0] /\ tasks[t].pc \in Works,
           stream' \in [Streams -> StreamRecs],
           \A c \in Streams :
               /\ stream[c].task # t => stream'[c] = stream[c]
               /\ stream[c].task = t => /\ stream'[c].pc = stream[c].pc /\ stream'[c].task = t
                                        /\ StreamGood(stream'[c], q)
    PROVE  TasksInv'
<1>0. TaskTypes /\ q.kind \in Kinds
  BY DEF TasksInv, TaskRecs
<1>1. Ids' = Ids /\ tasks' \in Seq(TaskRecs) /\ tasks'[t] = q /\ \A u \in Ids : u # t => tasks'[u] = tasks[u]
  BY <1>0 DEF TaskTypes, Ids
<1>2. running' \in [Kinds -> Nat] /\ \A k \in Kinds : k # q.kind => running'[k] = running[k]
  BY <1>0 DEF TaskTypes
<1>3. ASSUME NEW u \in Ids, u # t PROVE TaskGood(u, tasks[u], running')
  <2>1. TaskGood(u, tasks[u], running) /\ TaskGood(t, tasks[t], running) /\ tasks[u].kind \in Kinds
    BY <1>3, TaskFacts DEF TasksInv, TaskRecs
  <2>2. tasks[u].pc \in Works => running'[tasks[u].kind] = u
    BY <1>2, <1>3, <2>1 DEF TaskGood
  <2> QED
    BY <2>1, <2>2 DEF TaskGood
<1>4. ASSUME NEW c \in Streams
      PROVE  /\ stream'[c].pc = "idle" => stream'[c].task = 0
             /\ stream'[c].pc # "idle" => /\ stream'[c].task \in Ids
                                          /\ StreamGood(stream'[c], tasks'[stream'[c].task])
  <2>1. CASE stream[c].task = t
    <3>1. t # 0 /\ stream[c].pc # "idle"
      BY <2>1, TaskFacts DEF TasksInv
    <3> QED
      BY <1>1, <2>1, <3>1
  <2>2. CASE stream[c].task # t
    BY <1>1, <2>2 DEF TasksInv
  <2> QED
    BY <2>1, <2>2
<1> QED
  BY <1>0, <1>1, <1>2, <1>3, <1>4 DEF TasksInv, TaskTypes

\* A task moves, its streams stay.
LEMMA TaskMovesAlone ==
    ASSUME TasksInv, NEW t \in Ids, NEW q \in TaskRecs,
           tasks' = [tasks EXCEPT ![t] = q], q.kind = tasks[t].kind, TaskGood(t, q, running'),
           \/ running' = running
           \/ running' = [running EXCEPT ![q.kind] = 0] /\ tasks[t].pc \in Works,
           stream' = stream,
           tasks[t].pc \in Ended => q.pc \in Ended /\ q.ok = tasks[t].ok,
           q.said = tasks[t].said \/ (q.said = tasks[t].said + 1 /\ q.pc = "send" /\ tasks[t].pc = "run"),
           tasks[t].pc = "send" => q.pc = "send"
    PROVE  TasksInv'
<1>1. \A c \in Streams : stream[c].task = t => stream[c].pc # "idle" /\ StreamGood(stream[c], tasks[t])
  BY TaskFacts DEF TasksInv
<1>2. ASSUME NEW c \in Streams, stream[c].task = t PROVE StreamGood(stream[c], q)
  <2>1. StreamGood(stream[c], tasks[t]) /\ tasks[t].said \in Nat /\ q.said \in Nat
    BY <1>1, <1>2, TaskFacts DEF TaskRecs
  <2>2. "run" \notin Ended /\ "send" \notin Ended
    BY DEF Ended, Works
  <2> QED
    BY <2>1, <2>2 DEF StreamGood
<1>3. stream' \in [Streams -> StreamRecs]
  BY DEF TasksInv, TaskTypes
<1> QED
  BY <1>2, <1>3, TaskMoves

\* A stream moves.
LEMMA StreamMoves ==
    ASSUME TasksInv, NEW c \in Streams, NEW s \in StreamRecs, stream' = [stream EXCEPT ![c] = s],
           UNCHANGED <<tasks, running>>, s.pc # "idle", s.task \in Ids, StreamGood(s, tasks[s.task])
    PROVE  TasksInv'
<1>1. Ids' = Ids
  BY DEF Ids
<1>2. stream' \in [Streams -> StreamRecs] /\ stream'[c] = s /\ \A d \in Streams : d # c => stream'[d] = stream[d]
  BY DEF TasksInv, TaskTypes
<1> QED
  BY <1>1, <1>2 DEF TasksInv, TaskTypes

\* Each action of a task keeps the invariant.
LEMMA TaskActs ==
    ASSUME TasksInv, NEW t \in Ids,
           \/ SetAbortHandle(t) \/ Work(t) \/ PublishReplay(t)
           \/ \E how \in {"ok", "error"} : FinishRecord(t, how)
           \/ Aborted(t) \/ FinishOutcome(t)
    PROVE  TasksInv'
<1> DEFINE p == tasks[t]
<1>0. p \in TaskRecs /\ TaskGood(t, p, running) /\ tasks \in Seq(TaskRecs) /\ running \in [Kinds -> Nat]
  BY TaskFacts DEF TasksInv, TaskTypes
<1>1. CASE SetAbortHandle(t)
  <2> DEFINE q == [p EXCEPT !.abort = TRUE, !.pc = IF p.pc = "begun" THEN "run" ELSE p.pc]
  <2>1. tasks' = [tasks EXCEPT ![t] = q] /\ UNCHANGED <<running, stream>>
    BY <1>0, <1>1 DEF SetAbortHandle
  <2>2. q \in TaskRecs
    BY <1>0 DEF TaskRecs, TaskPcs, Works
  <2>3. /\ q.kind = p.kind /\ q.said = p.said /\ q.ok = p.ok /\ q.outcome = p.outcome /\ q.done = p.done
        /\ q.replay = p.replay /\ q.pc = IF p.pc = "begun" THEN "run" ELSE p.pc
    BY <1>0 DEF TaskRecs
  <2> HIDE DEF q
  <2>4. TaskGood(t, q, running')
    BY <1>0, <2>1, <2>3 DEF TaskGood, Works, Ended
  <2> QED
    BY <2>1, <2>2, <2>3, <2>4, TaskMovesAlone DEF Ended
<1>2. CASE Work(t)
  <2> DEFINE q == [p EXCEPT !.pc = "run"]
  <2>1. tasks' = [tasks EXCEPT ![t] = q] /\ UNCHANGED <<running, stream>> /\ p.pc = "begun"
    BY <1>0, <1>2 DEF Work
  <2>2. q \in TaskRecs
    BY <1>0 DEF TaskRecs, TaskPcs, Works
  <2>3. /\ q.kind = p.kind /\ q.said = p.said /\ q.ok = p.ok /\ q.outcome = p.outcome /\ q.done = p.done
        /\ q.replay = p.replay /\ q.pc = "run"
    BY <1>0 DEF TaskRecs
  <2> HIDE DEF q
  <2>4. TaskGood(t, q, running')
    BY <1>0, <2>1, <2>3 DEF TaskGood, Works, Ended
  <2> QED
    BY <2>1, <2>2, <2>3, <2>4, TaskMovesAlone DEF Ended
<1>3. CASE PublishReplay(t)
  <2> DEFINE q == [p EXCEPT !.pc = "send", !.said = p.said + 1, !.replay = p.replay \cup {p.said + 1}]
  <2>1. tasks' = [tasks EXCEPT ![t] = q] /\ UNCHANGED <<running, stream>> /\ p.pc = "run"
    BY <1>0, <1>3 DEF PublishReplay
  <2>2. p.said \in Nat /\ p.replay \in SUBSET Nat
    BY <1>0 DEF TaskRecs
  <2>3. q \in TaskRecs
    <3>1. p.said + 1 \in Nat /\ p.replay \cup {p.said + 1} \in SUBSET Nat
      BY <2>2
    <3> QED
      BY <1>0, <3>1 DEF TaskRecs, TaskPcs, Works
  <2>4. /\ q.kind = p.kind /\ q.said = p.said + 1 /\ q.ok = p.ok /\ q.outcome = p.outcome /\ q.done = p.done
        /\ q.replay = p.replay \cup {p.said + 1} /\ q.pc = "send"
    BY <1>0 DEF TaskRecs
  <2> HIDE DEF q
  <2>5. 1 .. q.said \subseteq q.replay
    BY <1>0, <2>2, <2>4 DEF TaskGood
  <2>6. TaskGood(t, q, running')
    BY <1>0, <2>1, <2>4, <2>5 DEF TaskGood, Works, Ended
  <2> QED
    BY <2>1, <2>3, <2>4, <2>6, TaskMovesAlone DEF Ended
<1>4. ASSUME NEW how \in {"ok", "error", "interrupted"}, p.pc \in {"run", "abort"},
             tasks' = [tasks EXCEPT ![t].pc = "record", ![t].ok = how],
             running' = [running EXCEPT ![p.kind] = 0], UNCHANGED stream
      PROVE  TasksInv'
  <2> DEFINE q == [p EXCEPT !.pc = "record", !.ok = how]
  <2>1. tasks' = [tasks EXCEPT ![t] = q]
    BY <1>0, <1>4
  <2>2. q \in TaskRecs
    BY <1>0 DEF TaskRecs, TaskPcs, Works, Outcomes
  <2>3. /\ q.kind = p.kind /\ q.said = p.said /\ q.ok = how /\ q.outcome = p.outcome /\ q.done = p.done
        /\ q.replay = p.replay /\ q.pc = "record"
    BY <1>0 DEF TaskRecs
  <2> HIDE DEF q
  <2>4. TaskGood(t, q, running')
    BY <1>0, <1>4, <2>3 DEF TaskGood, Works, Ended
  <2> QED
    BY <1>4, <2>1, <2>2, <2>3, <2>4, TaskMovesAlone DEF Ended, Works
<1>5. CASE \E how \in {"ok", "error"} : FinishRecord(t, how)
  BY <1>4, <1>5 DEF FinishRecord
<1>6. CASE Aborted(t)
  <2>1. p.pc = "abort" /\ running' = [running EXCEPT ![p.kind] = 0] /\ UNCHANGED stream
    BY <1>6 DEF Aborted
  <2>2. PICK how \in {"error", "interrupted"} : tasks' = [tasks EXCEPT ![t].pc = "record", ![t].ok = how]
    BY <1>6 DEF Aborted
  <2> QED
    BY <1>4, <2>1, <2>2
<1>7. CASE FinishOutcome(t) /\ p.pc = "record"
  <2> DEFINE q == [p EXCEPT !.pc = "outcome", !.outcome = p.ok]
  <2>1. tasks' = [tasks EXCEPT ![t] = q] /\ UNCHANGED <<running, stream>>
    BY <1>0, <1>7 DEF FinishOutcome
  <2>2. q \in TaskRecs
    BY <1>0 DEF TaskRecs, TaskPcs, Ended
  <2>3. /\ q.kind = p.kind /\ q.said = p.said /\ q.ok = p.ok /\ q.outcome = p.ok /\ q.done = p.done
        /\ q.replay = p.replay /\ q.pc = "outcome"
    BY <1>0 DEF TaskRecs
  <2> HIDE DEF q
  <2>4. TaskGood(t, q, running')
    BY <1>0, <1>7, <2>1, <2>3 DEF TaskGood, Works, Ended
  <2> QED
    BY <1>7, <2>1, <2>2, <2>3, <2>4, TaskMovesAlone DEF Ended
<1>8. CASE FinishOutcome(t) /\ p.pc # "record"
  <2> DEFINE q == [p EXCEPT !.pc = "done", !.done = TRUE]
  <2>1. tasks' = [tasks EXCEPT ![t] = q] /\ UNCHANGED <<running, stream>> /\ p.pc = "outcome"
    BY <1>0, <1>8 DEF FinishOutcome
  <2>2. q \in TaskRecs
    BY <1>0 DEF TaskRecs, TaskPcs, Ended
  <2>3. /\ q.kind = p.kind /\ q.said = p.said /\ q.ok = p.ok /\ q.outcome = p.outcome /\ q.done = TRUE
        /\ q.replay = p.replay /\ q.pc = "done"
    BY <1>0 DEF TaskRecs
  <2> HIDE DEF q
  <2>4. TaskGood(t, q, running')
    BY <1>0, <2>1, <2>3 DEF TaskGood, Works, Ended
  <2> QED
    BY <2>1, <2>2, <2>3, <2>4, TaskMovesAlone DEF Ended
<1> QED
  BY <1>1, <1>2, <1>3, <1>5, <1>6, <1>7, <1>8

\* A notice or the closing record goes to the streams that have subscribed.
LEMMA TaskSends ==
    ASSUME TasksInv, NEW t \in Ids, NEW q \in TaskRecs, NEW n \in Nat,
           tasks' = [tasks EXCEPT ![t] = q], UNCHANGED running,
           q.kind = tasks[t].kind, q.said = tasks[t].said, q.ok = tasks[t].ok, TaskGood(t, q, running),
           tasks[t].pc \in Ended => q.pc \in Ended,
           tasks[t].pc = "send" => n = q.said,
           stream' = [c \in Streams |->
                         IF stream[c].task = t /\ stream[c].pc # "ended"
                         THEN [stream[c] EXCEPT !.queue = @ \cup {n}] ELSE stream[c]]
    PROVE  TasksInv'
<1>0. \A c \in Streams : stream[c] \in StreamRecs
  BY TaskFacts
<1>1. ASSUME NEW c \in Streams
      PROVE  /\ stream'[c] \in StreamRecs
             /\ stream[c].task # t => stream'[c] = stream[c]
             /\ stream[c].task = t => /\ stream'[c].pc = stream[c].pc /\ stream'[c].task = t
                                      /\ StreamGood(stream'[c], q)
  <2>1. CASE stream[c].task # t
    BY <1>0, <2>1
  <2>2. CASE stream[c].task = t
    <3>1. StreamGood(stream[c], tasks[t]) /\ stream[c].pc # "idle"
      BY <2>2, TaskFacts DEF TasksInv
    <3>2. CASE stream[c].pc = "ended"
      BY <1>0, <2>2, <3>1, <3>2 DEF StreamGood
    <3>3. CASE stream[c].pc # "ended"
      <4> DEFINE Q == stream[c].queue \cup {n}
                 s == [stream[c] EXCEPT !.queue = Q]
      <4>1. stream'[c] = s /\ Q \in SUBSET Nat /\ stream[c] \in StreamRecs
        BY <1>0, <2>2, <3>3 DEF StreamRecs
      <4>2. \A m : m \in stream[c].queue => m \in Q
        OBVIOUS
      <4>3. n \in Q
        OBVIOUS
      <4> HIDE DEF Q
      <4>4. s \in StreamRecs
        BY <4>1 DEF StreamRecs
      <4>5. /\ s.pc = stream[c].pc /\ s.task = t /\ s.got = stream[c].got /\ s.queue = Q
            /\ s.outcome = stream[c].outcome /\ s.result = stream[c].result
        BY <2>2, <4>1 DEF StreamRecs
      <4> HIDE DEF s
      <4>6. StreamGood(s, q)
        BY <3>1, <3>3, <4>2, <4>3, <4>5 DEF StreamGood
      <4> QED
        BY <2>2, <4>1, <4>4, <4>5, <4>6
    <3> QED
      BY <3>2, <3>3
  <2> QED
    BY <2>1, <2>2
<1>2. stream' \in [Streams -> StreamRecs]
  BY <1>1
<1> QED
  BY <1>1, <1>2, TaskMoves

\* The sends of a task.
LEMMA SendActs ==
    ASSUME TasksInv, NEW t \in Ids, PublishSend(t) \/ FinishPublish(t)
    PROVE  TasksInv'
<1> DEFINE p == tasks[t]
<1>0. p \in TaskRecs /\ TaskGood(t, p, running) /\ tasks \in Seq(TaskRecs) /\ p.said \in Nat /\ p.replay \in SUBSET Nat
  BY TaskFacts DEF TasksInv, TaskTypes, TaskRecs
<1>1. CASE PublishSend(t)
  <2> DEFINE q == [p EXCEPT !.pc = "run"]
  <2>1. /\ tasks' = [tasks EXCEPT ![t] = q] /\ UNCHANGED running /\ p.pc = "send"
        /\ stream' = [c \in Streams |->
                         IF stream[c].task = t /\ stream[c].pc # "ended"
                         THEN [stream[c] EXCEPT !.queue = @ \cup {p.said}] ELSE stream[c]]
    BY <1>0, <1>1 DEF PublishSend
  <2>2. q \in TaskRecs
    BY <1>0 DEF TaskRecs, TaskPcs, Works
  <2>3. /\ q.kind = p.kind /\ q.said = p.said /\ q.ok = p.ok /\ q.outcome = p.outcome /\ q.done = p.done
        /\ q.replay = p.replay /\ q.pc = "run"
    BY <1>0 DEF TaskRecs
  <2> HIDE DEF q
  <2>4. TaskGood(t, q, running)
    BY <1>0, <2>1, <2>3 DEF TaskGood, Works, Ended
  <2> QED
    BY <1>0, <2>1, <2>2, <2>3, <2>4, TaskSends DEF Ended
<1>2. CASE FinishPublish(t)
  <2> DEFINE R == p.replay \cup {0}
             q == [p EXCEPT !.pc = "finished", !.replay = R]
  <2>1. /\ tasks' = [tasks EXCEPT ![t] = q] /\ UNCHANGED running /\ p.pc = "done"
        /\ stream' = [c \in Streams |->
                         IF stream[c].task = t /\ stream[c].pc # "ended"
                         THEN [stream[c] EXCEPT !.queue = @ \cup {0}] ELSE stream[c]]
    BY <1>0, <1>2 DEF FinishPublish
  <2>2. R \in SUBSET Nat /\ 1 .. p.said \subseteq R
    BY <1>0 DEF TaskGood
  <2> HIDE DEF R
  <2>3. q \in TaskRecs
    BY <1>0, <2>2 DEF TaskRecs, TaskPcs, Ended
  <2>4. /\ q.kind = p.kind /\ q.said = p.said /\ q.ok = p.ok /\ q.outcome = p.outcome /\ q.done = p.done
        /\ q.replay = R /\ q.pc = "finished"
    BY <1>0 DEF TaskRecs
  <2> HIDE DEF q
  <2>5. TaskGood(t, q, running)
    BY <1>0, <2>1, <2>2, <2>4 DEF TaskGood, Works, Ended
  <2> QED
    BY <2>1, <2>3, <2>4, <2>5, TaskSends DEF Ended
<1> QED
  BY <1>1, <1>2

\* A new task holds a kind nobody held.
LEMMA BeginActs ==
    ASSUME TasksInv, NEW k \in Kinds, begin(k)
    PROVE  TasksInv'
<1> DEFINE n == Len(tasks) + 1
<1>0. TaskTypes /\ n \in Nat /\ n \notin Ids /\ Ids = 1 .. Len(tasks) /\ Len(tasks) \in Nat
  BY TaskFacts DEF TasksInv
<1>1. NewTask(k) \in TaskRecs
  BY DEF NewTask, TaskRecs, TaskPcs, Works, Outcomes
<1>2. /\ tasks' \in Seq(TaskRecs) /\ Ids' = Ids \cup {n} /\ tasks'[n] = NewTask(k)
      /\ \A u \in Ids : tasks'[u] = tasks[u]
  BY <1>0, <1>1 DEF begin, TaskTypes, Ids
<1>3. /\ running' \in [Kinds -> Nat] /\ running'[k] = n /\ \A j \in Kinds : j # k => running'[j] = running[j]
      /\ running[k] = 0 /\ stream' = stream
  BY <1>0 DEF begin, TaskTypes
<1>4. ASSUME NEW u \in Ids PROVE TaskGood(u, tasks[u], running')
  <2>1. TaskGood(u, tasks[u], running) /\ tasks[u].kind \in Kinds /\ u # 0
    BY TaskFacts DEF TasksInv, TaskRecs
  <2> QED
    BY <1>3, <2>1 DEF TaskGood
<1>5. TaskGood(n, NewTask(k), running')
  BY <1>3 DEF TaskGood, NewTask, Works, Ended
<1> HIDE DEF n
<1> QED
  BY <1>0, <1>2, <1>3, <1>4, <1>5 DEF TasksInv, TaskTypes

\* The streams.
LEMMA StreamActs ==
    ASSUME TasksInv, NEW c \in Streams,
           (\E t \in Ids : Attach(c, t)) \/ StreamReceive(c) \/ StreamEnd(c)
    PROVE  TasksInv'
<1> DEFINE s == stream[c]
<1>0. s \in StreamRecs /\ stream \in [Streams -> StreamRecs]
  BY TaskFacts DEF TasksInv, TaskTypes
<1>1. ASSUME NEW t \in Ids, Attach(c, t) PROVE TasksInv'
  <2> DEFINE q == tasks[t]
             n == [IdleStream EXCEPT !.pc = "live", !.task = t, !.got = q.replay, !.outcome = q.outcome]
  <2>1. stream' = [stream EXCEPT ![c] = n] /\ UNCHANGED <<tasks, running>>
    BY <1>1 DEF Attach
  <2>2. q \in TaskRecs /\ TaskGood(t, q, running) /\ t \in Nat
    BY TaskFacts DEF TasksInv
  <2>3. /\ n.pc = "live" /\ n.task = t /\ n.got = q.replay /\ n.queue = {} /\ n.outcome = q.outcome
        /\ n \in StreamRecs
    BY <2>2 DEF IdleStream, StreamRecs, TaskRecs, Outcomes
  <2> HIDE DEF n
  <2>4. StreamGood(n, q)
    BY <2>2, <2>3 DEF StreamGood, TaskGood
  <2> QED
    BY <2>1, <2>3, <2>4, StreamMoves
<1>2. CASE StreamReceive(c)
  <2> DEFINE G == s.got \cup s.queue
             n == [s EXCEPT !.got = G, !.queue = {}]
  <2>1. stream' = [stream EXCEPT ![c] = n] /\ UNCHANGED <<tasks, running>> /\ s.pc = "live" /\ s.outcome = "none"
    BY <1>0, <1>2 DEF StreamReceive
  <2>2. G \in SUBSET Nat
    BY <1>0 DEF StreamRecs
  <2>3. s.task \in Ids /\ StreamGood(s, tasks[s.task])
    BY <2>1 DEF TasksInv
  <2>4. \A m : m \in s.got \cup s.queue <=> m \in G
    OBVIOUS
  <2> HIDE DEF G
  <2>5. /\ n \in StreamRecs /\ n.pc = "live" /\ n.task = s.task /\ n.got = G /\ n.queue = {}
        /\ n.outcome = "none"
    BY <1>0, <2>1, <2>2 DEF StreamRecs
  <2> HIDE DEF n
  <2>6. StreamGood(n, tasks[s.task])
    BY <2>1, <2>3, <2>4, <2>5 DEF StreamGood
  <2> QED
    BY <2>1, <2>3, <2>5, <2>6, StreamMoves
<1>3. CASE StreamEnd(c)
  <2> DEFINE q == tasks[s.task]
             G == IF s.outcome # "none" THEN s.got ELSE s.got \cup s.queue
             e == IF s.outcome # "none" THEN s.outcome ELSE q.outcome
             n == [s EXCEPT !.pc = "ended", !.got = G, !.queue = {}, !.result = e]
  <2>1. /\ stream' = [stream EXCEPT ![c] = n] /\ UNCHANGED <<tasks, running>>
        /\ s.pc = "live" /\ (s.outcome # "none" \/ q.done)
    BY <1>0, <1>3 DEF StreamEnd
  <2>2. s.task \in Ids /\ StreamGood(s, q)
    BY <2>1 DEF TasksInv
  <2>3. q \in TaskRecs /\ TaskGood(s.task, q, running)
    BY <2>2, TaskFacts DEF TasksInv
  <2>4. G \in SUBSET Nat /\ e \in Outcomes
    BY <1>0, <2>3 DEF StreamRecs, TaskRecs
  <2>5. q.pc \in Ended /\ e = q.ok
    BY <2>1, <2>2, <2>3 DEF StreamGood, TaskGood
  <2>6. 1 .. q.said \subseteq G
    BY <2>1, <2>2, <2>5 DEF StreamGood, Ended
  <2> HIDE DEF G, e
  <2>7. /\ n \in StreamRecs /\ n.pc = "ended" /\ n.task = s.task /\ n.got = G /\ n.result = e
    BY <1>0, <2>4 DEF StreamRecs
  <2> HIDE DEF n
  <2>8. StreamGood(n, q)
    BY <2>5, <2>6, <2>7 DEF StreamGood
  <2> QED
    BY <2>1, <2>2, <2>7, <2>8, StreamMoves
<1> QED
  BY <1>1, <1>2, <1>3

\* A drain aborts tasks that work; they still hold their kinds.
LEMMA DrainActs ==
    ASSUME TasksInv, BeginDrain
    PROVE  TasksInv'
<1>0. TaskTypes /\ Ids = 1 .. Len(tasks) /\ Len(tasks) \in Nat
  BY TaskFacts DEF TasksInv
<1>1. ASSUME NEW t \in Ids
      PROVE  /\ tasks'[t] \in TaskRecs
             /\ TaskGood(t, tasks'[t], running)
             /\ \A s \in StreamRecs : StreamGood(s, tasks[t]) => StreamGood(s, tasks'[t])
  <2> DEFINE p == tasks[t]
             q == [p EXCEPT !.pc = "abort"]
  <2>1. p \in TaskRecs /\ TaskGood(t, p, running)
    BY TaskFacts DEF TasksInv
  <2>2. CASE tasks'[t] = p
    BY <2>1, <2>2
  <2>3. CASE tasks'[t] # p
    <3>1. tasks'[t] = q /\ p.pc \in {"begun", "run"}
      BY <2>3 DEF BeginDrain
    <3>2. q \in TaskRecs
      BY <2>1 DEF TaskRecs, TaskPcs, Works
    <3>3. /\ q.kind = p.kind /\ q.said = p.said /\ q.ok = p.ok /\ q.outcome = p.outcome /\ q.done = p.done
          /\ q.replay = p.replay /\ q.pc = "abort"
      BY <2>1 DEF TaskRecs
    <3> HIDE DEF q
    <3>4. TaskGood(t, q, running)
      BY <2>1, <3>1, <3>3 DEF TaskGood, Works, Ended
    <3>5. \A s \in StreamRecs : StreamGood(s, p) => StreamGood(s, q)
      BY <3>1, <3>3 DEF StreamGood, Ended
    <3> QED
      BY <3>1, <3>2, <3>4, <3>5
  <2> QED
    BY <2>2, <2>3
<1>2. DOMAIN tasks' = Ids /\ UNCHANGED <<running, stream>>
  BY DEF BeginDrain
<1>3. tasks' \in Seq(TaskRecs) /\ Ids' = Ids
  <2>1. tasks' \in [1 .. Len(tasks) -> TaskRecs]
    BY <1>0, <1>1, <1>2 DEF BeginDrain
  <2> QED
    BY <1>0, <1>2, <2>1 DEF Ids
<1>4. ASSUME NEW c \in Streams, stream[c].pc # "idle"
      PROVE  StreamGood(stream[c], tasks'[stream[c].task])
  BY <1>1, <1>4, TaskFacts DEF TasksInv
<1> QED
  BY <1>0, <1>1, <1>2, <1>3, <1>4 DEF TasksInv, TaskTypes

\* The invariant of tasks and their streams.
LEMMA TasksInvariance == TasksSpec => []TasksInv
<1>1. TasksInit => TasksInv
  <2> SUFFICES ASSUME TasksInit PROVE TasksInv
    OBVIOUS
  <2>1. Ids = {} /\ tasks \in Seq(TaskRecs)
    BY DEF TasksInit, Ids
  <2>2. IdleStream \in StreamRecs
    BY DEF IdleStream, StreamRecs, Outcomes
  <2> QED
    BY <2>1, <2>2 DEF TasksInit, TasksInv, TaskTypes, IdleStream
<1>2. TasksInv /\ [TasksNext]_taskVars => TasksInv'
  <2> SUFFICES ASSUME TasksInv, [TasksNext]_taskVars PROVE TasksInv'
    OBVIOUS
  <2>1. CASE \E k \in Kinds : begin(k)
    BY <2>1, BeginActs
  <2>2. ASSUME NEW t \in Ids,
               \/ SetAbortHandle(t) \/ Work(t) \/ PublishReplay(t) \/ PublishSend(t)
               \/ \E how \in {"ok", "error"} : FinishRecord(t, how)
               \/ Aborted(t) \/ FinishOutcome(t) \/ FinishPublish(t)
        PROVE  TasksInv'
    BY <2>2, TaskActs, SendActs
  <2>3. ASSUME NEW c \in Streams, (\E t \in Ids : Attach(c, t)) \/ StreamReceive(c) \/ StreamEnd(c)
        PROVE  TasksInv'
    BY <2>3, StreamActs
  <2>4. CASE BeginDrain
    BY <2>4, DrainActs
  <2>5. CASE (\E deadline \in BOOLEAN : BeginShutdown(deadline)) \/ UNCHANGED taskVars
    <3>1. UNCHANGED <<tasks, running, stream>>
      BY <2>5 DEF BeginShutdown, taskVars
    <3> QED
      BY <3>1 DEF TasksInv, TaskTypes, Ids
  <2> QED
    BY <2>1, <2>2, <2>3, <2>4, <2>5 DEF TasksNext
<1> QED
  BY <1>1, <1>2, PTL DEF TasksSpec

\* For any number of tasks, kinds, notices and clients: two tasks of a kind never work at
\* once, and a stream that ends has every notice of its task and the task's outcome,
\* whenever it was attached and however the task ended, a shutdown included.
THEOREM TasksAreSound == TasksSpec => []TasksSound
<1>1. TasksInv => TasksSound
  <2> SUFFICES ASSUME TasksInv PROVE TasksSound
    OBVIOUS
  <2>1. OneOfAKind
    <3> SUFFICES ASSUME NEW t \in Ids, NEW u \in Ids, tasks[t].kind = tasks[u].kind,
                        tasks[t].pc \in Works, tasks[u].pc \in Works
                 PROVE  t = u
      BY DEF OneOfAKind, Works
    <3> QED
      BY DEF TasksInv, TaskGood
  <2>2. StreamHasOutcome /\ StreamHasNotices
    BY DEF StreamHasOutcome, StreamHasNotices, TasksInv, StreamGood
  <2> QED
    BY <2>1, <2>2 DEF TasksSound
<1> QED
  BY <1>1, TasksInvariance, PTL

(***************************************************************************)
(* Store: read-modify-write loops over versioned puts.                     *)
(***************************************************************************)

\* The part of the store that updates one object.
CasSpec(keys, budget) ==
    stBackend \in StBackends /\ StoreInit(keys, budget) /\ [][CasNext]_storeVars

ObjRecs == [there : BOOLEAN, n : Nat, tags : SUBSET StClients]
CasRecs == [pc : {"idle", "read", "put", "delete", "erase", "done", "failed", "exhausted",
                  "erased", "refused"},
            tries : Nat, want : ObjRecs, erase : BOOLEAN]

\* An object that is gone holds nothing, a late put adds to what was read, and nobody
\* is between the two requests of a delete on S3.
CasInv ==
    /\ stObj \in ObjRecs
    /\ stCas \in [StClients -> CasRecs]
    /\ stLate \subseteq [want : ObjRecs, tags : SUBSET StClients]
    /\ ~stObj.there => stObj.tags = {}
    /\ \A p \in stLate : p.want.tags \subseteq p.tags
    /\ \A c \in StClients : stCas[c].erase \/ stCas[c].pc \in {"delete", "erase"} => stBackend # "s3"
    /\ CasKept

\* The version of an object says what is in it.
LEMMA VersionSays ==
    ASSUME CasInv
    PROVE  VersionOf(stObj) \in ObjRecs /\ VersionOf(stObj).tags = stObj.tags
BY DEF CasInv, VersionOf, ObjRecs, Nothing

\* An accepted put of more than was read loses nothing.
LEMMA PutKeeps ==
    ASSUME CasInv, NEW want \in ObjRecs, NEW tags \in SUBSET StClients, want.tags \subseteq tags,
           PutAccepted(want), stObj' = StWritten(tags)
    PROVE  stObj' \in ObjRecs /\ stObj'.there /\ stObj'.tags = tags /\ stObj.tags \subseteq tags
<1>1. stObj.tags = want.tags
  BY VersionSays DEF PutAccepted
<1>2. stObj.n + 1 \in Nat
  BY DEF CasInv, ObjRecs
<1> QED
  BY <1>1, <1>2 DEF StWritten, ObjRecs

\* A client's record after one more attempt.
LEMMA AgainType ==
    ASSUME CasInv, NEW c \in StClients, stCas[c].pc = "put", CasAgain(c)
    PROVE  /\ stCas' \in [StClients -> CasRecs]
           /\ \A d \in StClients : stCas'[d].erase = stCas[d].erase
           /\ \A d \in StClients : stCas'[d].pc \in {"delete", "erase"} => stCas'[d].pc = stCas[d].pc
<1> DEFINE tries == stCas[c].tries + 1
           pc == IF tries > CasRetries THEN "exhausted" ELSE "read"
           q == [stCas[c] EXCEPT !.tries = tries, !.pc = pc]
<1>1. stCas[c] \in CasRecs /\ stCas \in [StClients -> CasRecs]
  BY DEF CasInv
<1>2. stCas' = [stCas EXCEPT ![c] = q]
  BY <1>1 DEF CasAgain
<1>3. tries \in Nat /\ pc \in {"exhausted", "read"}
  BY <1>1 DEF CasRecs
<1> HIDE DEF tries, pc
<1>4. q \in CasRecs /\ q.erase = stCas[c].erase /\ q.pc \in {"exhausted", "read"}
  BY <1>1, <1>3 DEF CasRecs
<1> HIDE DEF q
<1> QED
  BY <1>1, <1>2, <1>4

\* A client whose record moves to pc, while the object stays.
LEMMA CasMoves ==
    ASSUME CasInv, NEW c \in StClients, NEW q \in CasRecs, stCas' = [stCas EXCEPT ![c] = q],
           q.erase \/ q.pc \in {"delete", "erase"} => stBackend # "s3",
           UNCHANGED <<stBackend, stObj, stLate, stTold, stErased>>
    PROVE  CasInv'
BY DEF CasInv, CasKept

\* Every step of the loop keeps the invariant.
LEMMA CasStep ==
    ASSUME S3Deletes = FALSE, CasInv, [CasNext]_storeVars
    PROVE  CasInv'
<1>0. stCas \in [StClients -> CasRecs] /\ stObj \in ObjRecs /\ CasKept
  BY DEF CasInv
<1>1. ASSUME NEW c \in StClients, CasStart(c) PROVE CasInv'
  <2>1. PICK e \in {x \in BOOLEAN : x => stBackend # "s3" \/ S3Deletes} :
               stCas' = [stCas EXCEPT ![c].pc = "read", ![c].erase = e]
    BY <1>1 DEF CasStart
  <2> DEFINE q == [stCas[c] EXCEPT !.pc = "read", !.erase = e]
  <2>2. stCas' = [stCas EXCEPT ![c] = q] /\ q \in CasRecs /\ q.erase = e /\ q.pc = "read"
    BY <1>0, <2>1 DEF CasRecs
  <2> HIDE DEF q
  <2>3. UNCHANGED <<stBackend, stObj, stLate, stTold, stErased>>
    BY <1>1 DEF CasStart
  <2> QED
    BY <2>1, <2>2, <2>3, CasMoves
<1>2. ASSUME NEW c \in StClients, CasRead(c) PROVE CasInv'
  <2>1. UNCHANGED <<stBackend, stObj, stLate, stTold, stErased>>
    BY <1>2 DEF CasRead
  <2>2. CASE stCas' = [stCas EXCEPT ![c].want = GetMessage,
                          ![c].pc = IF stCas[c].erase THEN "delete" ELSE "put"]
    <3> DEFINE q == [stCas[c] EXCEPT !.want = GetMessage, !.pc = IF stCas[c].erase THEN "delete" ELSE "put"]
    <3>1. GetMessage \in ObjRecs
      BY VersionSays DEF GetMessage
    <3>2. /\ stCas' = [stCas EXCEPT ![c] = q] /\ q \in CasRecs /\ q.erase = stCas[c].erase
          /\ q.pc \in {"delete", "put"} /\ (q.pc = "delete" => stCas[c].erase)
      BY <1>0, <2>2, <3>1 DEF CasRecs
    <3>3. stCas[c].erase => stBackend # "s3"
      BY DEF CasInv
    <3> HIDE DEF q
    <3> QED
      BY <2>1, <3>2, <3>3, CasMoves
  <2>3. CASE stCas' = [stCas EXCEPT ![c].pc = "failed"]
    <3> DEFINE q == [stCas[c] EXCEPT !.pc = "failed"]
    <3>1. stCas' = [stCas EXCEPT ![c] = q] /\ q \in CasRecs /\ q.erase = stCas[c].erase /\ q.pc = "failed"
      BY <1>0, <2>3 DEF CasRecs
    <3>2. stCas[c].erase => stBackend # "s3"
      BY DEF CasInv
    <3> HIDE DEF q
    <3> QED
      BY <2>1, <3>1, <3>2, CasMoves
  <2> QED
    BY <1>2, <2>2, <2>3 DEF CasRead
<1>3. ASSUME NEW c \in StClients, CasPut(c) PROVE CasInv'
  <2> DEFINE want == stCas[c].want
             new == want.tags \cup {c}
  <2>1. /\ want \in ObjRecs /\ new \in SUBSET StClients /\ want.tags \subseteq new /\ c \in new
        /\ UNCHANGED <<stBackend, stErased>> /\ stCas[c].pc = "put"
    BY <1>0, <1>3 DEF CasRecs, ObjRecs, CasPut
  <2>2. CASE /\ PutAccepted(want) /\ stObj' = StWritten(new) /\ stTold' = stTold \cup {c}
             /\ stCas' = [stCas EXCEPT ![c].pc = "done"] /\ UNCHANGED stLate
    <3>1. stObj' \in ObjRecs /\ stObj'.there /\ stObj'.tags = new /\ stObj.tags \subseteq new
      BY <2>1, <2>2, PutKeeps
    <3> DEFINE q == [stCas[c] EXCEPT !.pc = "done"]
    <3>2. stCas' = [stCas EXCEPT ![c] = q] /\ q \in CasRecs /\ q.erase = stCas[c].erase /\ q.pc = "done"
      BY <1>0, <2>2 DEF CasRecs
    <3> HIDE DEF q
    <3>3. /\ stCas' \in [StClients -> CasRecs]
          /\ \A d \in StClients : stCas'[d].erase = stCas[d].erase
          /\ \A d \in StClients : stCas'[d].pc \in {"delete", "erase"} => stCas'[d].pc = stCas[d].pc
      BY <1>0, <3>2
    <3>4. CasKept'
      BY <2>1, <2>2, <3>1 DEF CasInv, CasKept
    <3> QED
      BY <2>1, <2>2, <3>1, <3>3, <3>4 DEF CasInv
  <2>3. CASE CasAgain(c) /\ UNCHANGED <<stObj, stTold, stLate>>
    <3>1. /\ stCas' \in [StClients -> CasRecs]
          /\ \A d \in StClients : stCas'[d].erase = stCas[d].erase
          /\ \A d \in StClients : stCas'[d].pc \in {"delete", "erase"} => stCas'[d].pc = stCas[d].pc
      BY <2>1, <2>3, AgainType
    <3> QED
      BY <2>1, <2>3, <3>1 DEF CasInv, CasKept
  <2>4. CASE PutUnanswered(want, new) /\ CasAgain(c) /\ UNCHANGED stTold
    <3>1. /\ stCas' \in [StClients -> CasRecs]
          /\ \A d \in StClients : stCas'[d].erase = stCas[d].erase
          /\ \A d \in StClients : stCas'[d].pc \in {"delete", "erase"} => stCas'[d].pc = stCas[d].pc
      BY <2>1, <2>4, AgainType
    <3>2. CASE PutAccepted(want) /\ stObj' = StWritten(new) /\ UNCHANGED stLate
      <4>1. stObj' \in ObjRecs /\ stObj'.there /\ stObj'.tags = new /\ stObj.tags \subseteq new
        BY <2>1, <3>2, PutKeeps
      <4>2. CasKept'
        BY <2>1, <2>4, <4>1 DEF CasInv, CasKept
      <4> QED
        BY <2>1, <2>4, <3>1, <3>2, <4>1, <4>2 DEF CasInv
    <3>3. CASE UNCHANGED <<stObj, stLate>>
      BY <2>1, <2>4, <3>1, <3>3 DEF CasInv, CasKept
    <3>4. CASE stLate' = stLate \cup {[want |-> want, tags |-> new]} /\ UNCHANGED stObj
      <4> DEFINE p == [want |-> want, tags |-> new]
      <4>1. /\ p \in [want : ObjRecs, tags : SUBSET StClients] /\ p.want.tags \subseteq p.tags
            /\ stLate' = stLate \cup {p}
        BY <2>1, <3>4
      <4> HIDE DEF p
      <4>2. /\ stLate' \subseteq [want : ObjRecs, tags : SUBSET StClients]
            /\ \A r \in stLate' : r.want.tags \subseteq r.tags
        BY <4>1 DEF CasInv
      <4> QED
        BY <2>1, <2>4, <3>1, <3>4, <4>2 DEF CasInv, CasKept
    <3> QED
      BY <2>4, <3>2, <3>3, <3>4 DEF PutUnanswered
  <2> QED
    BY <1>3, <2>2, <2>3, <2>4 DEF CasPut
<1>4. CASE LatePut
  <2>1. PICK p \in stLate : /\ stLate' = stLate \ {p}
                            /\ stObj' = IF PutAccepted(p.want) THEN StWritten(p.tags) ELSE stObj
    BY <1>4 DEF LatePut
  <2>2. UNCHANGED <<stBackend, stCas, stTold, stErased>>
    BY <1>4 DEF LatePut
  <2>3. p.want \in ObjRecs /\ p.tags \in SUBSET StClients /\ p.want.tags \subseteq p.tags
    BY DEF CasInv
  <2>4. stObj' \in ObjRecs /\ (~stObj'.there => stObj'.tags = {}) /\ stObj.tags \subseteq stObj'.tags
    BY <2>1, <2>3, PutKeeps DEF CasInv
  <2> QED
    BY <2>1, <2>2, <2>4 DEF CasInv, CasKept
<1>5. ASSUME NEW c \in StClients, CasDelete(c) PROVE CasInv'
  <2>1. UNCHANGED <<stBackend, stLate, stTold>> /\ stCas[c] \in CasRecs /\ stBackend # "s3"
    BY <1>0, <1>5 DEF CasDelete
  <2>2. CASE Named(stCas[c].want)
    <3>1. stCas[c].want.tags = stObj.tags
      BY <2>2, VersionSays DEF Named
    <3>2. Erase(c)
      BY <1>5, <2>2 DEF CasDelete
    <3>3. stObj' \in ObjRecs /\ ~stObj'.there /\ stObj'.tags = {} /\ stErased' = stErased \cup stObj.tags
      BY <1>0, <3>1, <3>2 DEF Erase, ObjRecs
    <3> DEFINE q == [stCas[c] EXCEPT !.pc = "erased"]
    <3>4. stCas' = [stCas EXCEPT ![c] = q] /\ q \in CasRecs
      BY <1>0, <2>1, <3>2 DEF Erase, CasRecs
    <3> HIDE DEF q
    <3>5. stCas' \in [StClients -> CasRecs]
      BY <1>0, <3>4
    <3>6. CasKept'
      BY <2>1, <3>3 DEF CasInv, CasKept
    <3> QED
      BY <2>1, <3>3, <3>5, <3>6 DEF CasInv
  <2>3. CASE ~Named(stCas[c].want)
    <3> DEFINE q == [stCas[c] EXCEPT !.pc = "refused"]
    <3>1. stCas' = [stCas EXCEPT ![c] = q] /\ q \in CasRecs /\ UNCHANGED <<stObj, stErased>>
      BY <1>0, <1>5, <2>1, <2>3 DEF CasDelete, CasRecs
    <3> HIDE DEF q
    <3> QED
      BY <2>1, <3>1, CasMoves
  <2> QED
    BY <2>2, <2>3
<1>6. ASSUME NEW c \in StClients, S3Delete(c) PROVE FALSE
  BY <1>6 DEF S3Delete, CasInv
<1>7. CASE UNCHANGED storeVars
  BY <1>7 DEF storeVars, casVars, CasInv, CasKept
<1> QED
  BY <1>1, <1>2, <1>3, <1>4, <1>5, <1>6, <1>7 DEF CasNext

\* An update whose caller was told it is in stays in until somebody deletes a version that
\* holds it, for any number of clients, retries, and failed, lost or late requests, on
\* counted versions and on content hashes; on S3 only as long as nothing deletes by version.
THEOREM UpdatesAreKept ==
    ASSUME S3Deletes = FALSE, NEW keys, NEW budget
    PROVE  CasSpec(keys, budget) => []CasKept
<1>1. stBackend \in StBackends /\ StoreInit(keys, budget) => CasInv
  BY DEF StoreInit, CasInv, CasKept, Nothing, NewCas, ObjRecs, CasRecs
<1>2. CasInv /\ [CasNext]_storeVars => CasInv'
  BY CasStep
<1>3. CasInv => CasKept
  BY DEF CasInv
<1> QED
  BY <1>1, <1>2, <1>3, PTL DEF CasSpec

(***************************************************************************)
(* Leases.                                                                 *)
(***************************************************************************)

\* No clock is ahead of another by more than the grace before stealing.
SkewTolerated == \A g, h \in Holders : Ahead[g] <= Ahead[h] + Tolerance

\* Versions in use were given out.
VersionsGiven ==
    /\ lease.ver <= version
    /\ \A h \in Holders : hold[h].ver <= version /\ hold[h].seen.ver <= version
    /\ \A v \in dropped : v <= version

\* A clock reading is in the past, and a guard ends within a ttl of one.
TimesRead ==
    \A h \in Holders :
        /\ hold[h].pc # "idle" => hold[h].at <= Clock(h)
        /\ Holding(h) => hold[h].expires <= Clock(h) + Ttl
        /\ hold[h].pc = "beat" => hold[h].expires <= hold[h].at + Ttl

\* A thief saw an expired lease; if its version is still there, that lease is.
SeenExpired ==
    \A h \in Holders :
        hold[h].pc = "steal" =>
            /\ hold[h].at >= hold[h].seen.expires + Tolerance
            /\ lease.holder # Nobody /\ lease.ver = hold[h].seen.ver
               => lease.expires = hold[h].seen.expires

\* The version in a guard is of an object that its process wrote.
OwnVersion ==
    \A h \in Holders :
        Holding(h) /\ lease.holder # Nobody /\ lease.ver = hold[h].ver => lease.holder = h

\* A delete left behind by a dropped guard hits nobody's unexpired lease.
DropsHarmless ==
    lease.ver \in dropped => \A h \in Holders : ~Live(h)

Inv == TypeOK /\ VersionsGiven /\ TimesRead /\ SeenExpired /\ OwnVersion
       /\ DropsHarmless /\ GuardBacked

-----------------------------------------------------------------------------

LEMMA IdleIsProc == Idle \in Procs /\ Absent \in Leases
BY ConstantsAssumption DEF Idle, Procs, Absent, Leases

LEMMA ClockNat ==
    ASSUME TypeOK, NEW h \in Holders
    PROVE  Clock(h) \in Nat
BY ConstantsAssumption DEF TypeOK, Clock

\* What each of the three writes may leave in hold[h]: a guard on what was
\* written, or what the caller names.
LEMMA PutTyped ==
    ASSUME TypeOK, NEW h \in Holders, NEW c \in BOOLEAN,
           NEW refused \in Procs, NEW failed \in Procs, Put(h, c, refused, failed)
    PROVE  TypeOK'
<1>1. Written(h) \in Leases /\ Guarded(h) \in Procs
  BY ConstantsAssumption, IdleIsProc DEF TypeOK, Written, Guarded, Procs, Leases
<1>2. lease' \in Leases /\ version' \in Nat
  BY <1>1 DEF Put, Write, TypeOK
<1>3. \E x \in Procs : hold' = [hold EXCEPT ![h] = x]
  BY <1>1 DEF Put
<1>4. hold' \in [Holders -> Procs]
  BY <1>3 DEF TypeOK
<1> QED BY <1>2, <1>4 DEF TypeOK, Put

LEMMA TypeStep == TypeOK /\ [Next]_vars => TypeOK'
<1> SUFFICES ASSUME TypeOK, [Next]_vars PROVE TypeOK'
  OBVIOUS
<1> USE ConstantsAssumption, IdleIsProc
<1>1. ASSUME NEW h \in Holders, Begin(h) PROVE TypeOK'
  <2>1. hold' = [hold EXCEPT ![h] = [hold[h] EXCEPT !.pc = hold'[h].pc, !.at = Clock(h)]]
        /\ hold'[h].pc \in {"create", "get"}
    BY <1>1 DEF TypeOK, Begin, Procs
  <2>2. [hold[h] EXCEPT !.pc = hold'[h].pc, !.at = Clock(h)] \in Procs
    BY <2>1, ClockNat DEF TypeOK, Procs
  <2> QED BY <1>1, <2>1, <2>2 DEF TypeOK, Begin
<1>2. ASSUME NEW h \in Holders, Create(h) PROVE TypeOK'
  <2>1. [hold[h] EXCEPT !.pc = "get"] \in Procs
    BY DEF TypeOK, Procs
  <2> QED BY <1>2, <2>1, PutTyped DEF Create
<1>3. ASSUME NEW h \in Holders, Get(h) PROVE TypeOK'
  <2>1. /\ [hold[h] EXCEPT !.pc = "recreate"] \in Procs
        /\ [hold[h] EXCEPT !.pc = "steal", !.seen = lease] \in Procs
    BY DEF TypeOK, Procs
  <2>2. \E x \in Procs : hold' = [hold EXCEPT ![h] = x]
    BY <1>3, <2>1 DEF Get, TypeOK
  <2> QED BY <1>3, <2>2 DEF Get, TypeOK
<1>4. ASSUME NEW h \in Holders, Steal(h) PROVE TypeOK'
  BY <1>4, PutTyped DEF Steal
<1>5. ASSUME NEW h \in Holders, BeatStart(h) PROVE TypeOK'
  <2>1. [hold[h] EXCEPT !.pc = "beat", !.at = Clock(h)] \in Procs
    BY ClockNat DEF TypeOK, Procs
  <2>2. hold' = [hold EXCEPT ![h] = [hold[h] EXCEPT !.pc = "beat", !.at = Clock(h)]]
    BY <1>5 DEF TypeOK, BeatStart, Procs
  <2> QED BY <1>5, <2>1, <2>2 DEF TypeOK, BeatStart
<1>6. ASSUME NEW h \in Holders, Beat(h) PROVE TypeOK'
  <2>1. [hold[h] EXCEPT !.pc = "held", !.at = 0] \in Procs
    BY DEF TypeOK, Procs
  <2> QED BY <1>6, <2>1, PutTyped DEF Beat
<1>7. ASSUME NEW h \in Holders, Release(h) PROVE TypeOK'
  BY <1>7 DEF TypeOK, Release, DeleteVersion
<1>8. ASSUME NEW h \in Holders, DropGuard(h) PROVE TypeOK'
  BY <1>8 DEF TypeOK, DropGuard, Procs
<1>9. ASSUME NEW h \in Holders, Crash(h) PROVE TypeOK'
  BY <1>9 DEF TypeOK, Crash
<1>10. ASSUME NEW v \in dropped, DropDelete(v) PROVE TypeOK'
  BY <1>10 DEF TypeOK, DropDelete, DeleteVersion
<1>11. CASE Tick
  BY <1>11 DEF TypeOK, Tick
<1>12. CASE UNCHANGED vars
  BY <1>12 DEF TypeOK, vars
<1> QED BY <1>1, <1>2, <1>3, <1>4, <1>5, <1>6, <1>7, <1>8, <1>9, <1>10, <1>11, <1>12 DEF Next

-----------------------------------------------------------------------------

\* Facts about one process are kept by a step that changes another one only.
LEMMA Others ==
    ASSUME TypeOK, NEW h \in Holders, NEW x \in Procs, hold' = [hold EXCEPT ![h] = x]
    PROVE  hold'[h] = x /\ \A g \in Holders \ {h} : hold'[g] = hold[g]
BY DEF TypeOK

\* A step that changes nothing but what h does.
LEMMA LocalStep ==
    ASSUME Inv, TypeOK', NEW h \in Holders, NEW x \in Procs,
           hold' = [hold EXCEPT ![h] = x], UNCHANGED <<now, lease, version, dropped>>,
           x.ver <= version /\ x.seen.ver <= version,
           x.pc # "idle" => x.at <= Clock(h),
           x.pc \in {"held", "beat"} => /\ Holding(h) /\ x.ver = hold[h].ver
                                       /\ x.expires = hold[h].expires,
           x.pc = "beat" => x.expires <= x.at + Ttl,
           x.pc = "steal" => x.seen = lease /\ x.at >= lease.expires + Tolerance
    PROVE  Inv'
<1>1. hold'[h] = x /\ \A g \in Holders \ {h} : hold'[g] = hold[g]
  BY Others DEF Inv
<1>2. \A g \in Holders : Clock(g)' = Clock(g)
  BY DEF Clock
<1>3. \A g \in Holders : Holding(g)' => /\ Holding(g) /\ hold'[g].ver = hold[g].ver
                                         /\ hold'[g].expires = hold[g].expires
  BY <1>1 DEF Holding
<1>4. \A g \in Holders : Live(g)' => Live(g)
  BY <1>2, <1>3 DEF Live
<1>5. VersionsGiven'
  BY <1>1 DEF Inv, VersionsGiven
<1>6. TimesRead'
  BY <1>1, <1>2, <1>3 DEF Inv, TimesRead, Holding
<1>7. SeenExpired'
  <2> SUFFICES ASSUME NEW g \in Holders, hold'[g].pc = "steal"
               PROVE  /\ hold'[g].at >= hold'[g].seen.expires + Tolerance
                      /\ lease'.holder # Nobody /\ lease'.ver = hold'[g].seen.ver
                         => lease'.expires = hold'[g].seen.expires
    BY DEF SeenExpired
  <2>1. CASE g = h
    BY <1>1, <2>1
  <2>2. CASE g # h
    BY <1>1, <2>2 DEF Inv, SeenExpired
  <2> QED BY <2>1, <2>2
<1>8. OwnVersion'
  BY <1>3 DEF Inv, OwnVersion
<1>9. DropsHarmless'
  BY <1>4 DEF Inv, DropsHarmless
<1>10. GuardBacked'
  BY <1>3, <1>4 DEF Inv, GuardBacked, Live
<1> QED BY <1>5, <1>6, <1>7, <1>8, <1>9, <1>10 DEF Inv

\* A write by h while nobody else has an unexpired guard; x is what becomes of
\* h: it has the guard, or it gives up, or its heartbeat does not know.
LEMMA WriteStep ==
    ASSUME Inv, TypeOK', NEW h \in Holders, NEW x \in Procs,
           hold' = [hold EXCEPT ![h] = x], Write(h), UNCHANGED <<now, dropped>>,
           hold[h].pc # "idle",
           \A g \in Holders \ {h} : ~Live(g),
           \/ x = Guarded(h)
           \/ x.pc = "idle" /\ x.ver = 0 /\ x.seen.ver = 0
           \/ /\ hold[h].pc = "beat" /\ x.pc = "held"
              /\ x.ver = hold[h].ver /\ x.seen = hold[h].seen
              /\ x.at = 0 /\ x.expires = hold[h].expires
    PROVE  Inv'
<1> USE ConstantsAssumption
<1>1. hold'[h] = x /\ \A g \in Holders \ {h} : hold'[g] = hold[g]
  BY Others DEF Inv
<1>2. \A g \in Holders : Clock(g)' = Clock(g) /\ Clock(g) \in Nat
  BY ClockNat DEF Clock, Inv
<1>3. /\ lease'.holder = h /\ lease'.expires = hold[h].at + Ttl
      /\ lease'.ver = version + 1 /\ version' = version + 1
  BY DEF Write, Written
<1>4. \/ x.pc = "idle" /\ x.ver = 0 /\ x.seen.ver = 0
      \/ /\ x.pc = "held" /\ x.at = 0 /\ x.expires <= hold[h].at + Ttl
         /\ x.seen.ver <= version /\ x.ver <= version + 1
  BY DEF Guarded, Absent, Inv, TypeOK, Procs, Leases, VersionsGiven, TimesRead
<1>5. \A g \in Holders : Live(g)' => g = h
  BY <1>1, <1>2 DEF Live, Holding
<1>6. VersionsGiven'
  BY <1>1, <1>3, <1>4 DEF Inv, VersionsGiven, TypeOK, Procs, Leases
<1>7. TimesRead'
  <2>1. hold[h].at <= Clock(h)
    BY DEF Inv, TimesRead
  <2>2. hold[h].at + Ttl <= Clock(h) + Ttl
    BY <2>1, <1>2 DEF Inv, TypeOK, Procs
  <2>3. \A g \in Holders \ {h} : (Holding(g)' <=> Holding(g))
    BY <1>1 DEF Holding
  <2>4. x.pc # "idle" => x.at <= Clock(h) /\ x.expires <= Clock(h) + Ttl /\ x.pc # "beat"
    BY <1>2, <1>4, <2>2 DEF Inv, TypeOK, Procs
  <2> QED BY <1>1, <1>2, <2>3, <2>4 DEF Inv, TimesRead, Holding
<1>8. SeenExpired'
  <2>1. \A g \in Holders \ {h} : hold'[g].seen.ver # lease'.ver
    BY <1>1, <1>3 DEF Inv, VersionsGiven, TypeOK, Procs, Leases
  <2> QED BY <1>1, <1>4, <2>1 DEF Inv, SeenExpired
<1>9. OwnVersion'
  <2>1. \A g \in Holders \ {h} : hold'[g].ver # lease'.ver
    BY <1>1, <1>3 DEF Inv, VersionsGiven, TypeOK, Procs, Leases
  <2> QED BY <1>3, <2>1 DEF OwnVersion
<1>10. DropsHarmless'
  <2>1. lease'.ver \notin dropped
    BY <1>3 DEF Inv, VersionsGiven, TypeOK
  <2> QED BY <2>1 DEF DropsHarmless
<1>11. GuardBacked'
  BY <1>1, <1>3, <1>4, <1>5 DEF GuardBacked, Live, Holding
<1> QED BY <1>6, <1>7, <1>8, <1>9, <1>10, <1>11 DEF Inv

\* The object goes away, or stays, when nobody's unexpired guard is on it.
LEMMA DeleteStep ==
    ASSUME Inv, TypeOK', UNCHANGED <<now, version>>, dropped' \subseteq dropped,
           \/ lease' = lease
           \/ lease' = Absent /\ \A h \in Holders : ~Live(h)',
           \/ hold' = hold
           \/ \E h \in Holders : hold' = [hold EXCEPT ![h] = Idle]
    PROVE  Inv'
<1> USE ConstantsAssumption
<1>1. \A g \in Holders : hold'[g] = hold[g] \/ hold'[g] = Idle
  BY Others, IdleIsProc DEF Inv
<1>2. \A g \in Holders : Clock(g)' = Clock(g) /\ Clock(g) \in Nat
  BY ClockNat DEF Clock, Inv
<1>3. \A g \in Holders : Holding(g)' => Holding(g) /\ hold'[g] = hold[g]
  BY <1>1 DEF Holding, Idle
<1>4. \A g \in Holders : Live(g)' => Live(g) /\ hold'[g] = hold[g]
  BY <1>2, <1>3 DEF Live
<1>5. VersionsGiven'
  BY <1>1 DEF Inv, VersionsGiven, Idle, Absent, TypeOK
<1>6. TimesRead'
  BY <1>1, <1>2, <1>3 DEF Inv, TimesRead, Idle
<1>7. SeenExpired'
  BY <1>1 DEF Inv, SeenExpired, Idle, Absent
<1>8. OwnVersion'
  BY <1>3 DEF Inv, OwnVersion, Absent
<1>9. DropsHarmless'
  BY <1>4 DEF Inv, DropsHarmless
<1>10. GuardBacked'
  BY <1>4 DEF Inv, GuardBacked
<1> QED BY <1>5, <1>6, <1>7, <1>8, <1>9, <1>10 DEF Inv

\* A delete of the version in h's guard takes away nobody else's.
LEMMA OwnDelete ==
    ASSUME Inv, NEW h \in Holders, Holding(h), lease.holder # Nobody, lease.ver = hold[h].ver,
           NEW g \in Holders, Live(g)
    PROVE  g = h
BY DEF Inv, OwnVersion, GuardBacked

\* A thief that finds the version it read finds a lease that is over on every
\* clock: this is where the tolerance must cover the skew.
LEMMA StealsExpired ==
    ASSUME Inv, SkewTolerated, NEW h \in Holders, hold[h].pc = "steal",
           lease.holder # Nobody, lease.ver = hold[h].seen.ver, NEW g \in Holders
    PROVE  ~Live(g)
<1> SUFFICES ASSUME Live(g) PROVE FALSE
  OBVIOUS
<1>1. Clock(g) < hold[g].expires /\ hold[g].expires <= lease.expires
  BY DEF Live, Inv, GuardBacked
<1>2. lease.expires + Tolerance <= hold[h].at /\ hold[h].at <= Clock(h)
  BY DEF Inv, SeenExpired, TimesRead
<1>3. Ahead[h] <= Ahead[g] + Tolerance
  BY DEF SkewTolerated
<1>4. /\ now \in Nat /\ Ahead[g] \in Nat /\ Ahead[h] \in Nat /\ Tolerance \in Nat
      /\ hold[g].expires \in Nat /\ lease.expires \in Nat /\ hold[h].at \in Nat
  BY ConstantsAssumption DEF Inv, TypeOK, Procs, Leases
<1> QED BY <1>1, <1>2, <1>3, <1>4 DEF Clock

-----------------------------------------------------------------------------

LEMMA InvInit == Init => Inv
<1> SUFFICES ASSUME Init PROVE Inv
  OBVIOUS
<1>1. TypeOK
  BY IdleIsProc DEF Init, TypeOK
<1>2. \A h \in Holders : hold[h] = Idle
  BY DEF Init
<1>3. ASSUME NEW h \in Holders PROVE ~Holding(h)
  <2>1. hold[h] = Idle /\ Idle.pc = "idle"
    BY <1>2 DEF Idle
  <2> QED BY <2>1 DEF Holding
<1>4. \A h \in Holders : ~Live(h)
  BY <1>3 DEF Live
<1> QED BY <1>1, <1>2, <1>3, <1>4 DEF Inv, VersionsGiven, TimesRead, SeenExpired, OwnVersion,
             DropsHarmless, GuardBacked, Idle, Absent, Init

LEMMA InvStep == SkewTolerated /\ Inv /\ [Next]_vars => Inv'
<1> SUFFICES ASSUME SkewTolerated, Inv, [Next]_vars PROVE Inv'
  OBVIOUS
<1> USE ConstantsAssumption, IdleIsProc
<1>t. TypeOK /\ TypeOK'
  BY TypeStep DEF Inv
<1>i. Idle.pc = "idle" /\ Idle.ver = 0 /\ Idle.seen.ver = 0
  BY DEF Idle, Absent
\* h gives up: nothing else changes.
<1>idle. ASSUME NEW h \in Holders, hold' = [hold EXCEPT ![h] = Idle],
                UNCHANGED <<now, lease, version, dropped>>
         PROVE  Inv'
  <2>1. Idle.ver <= version /\ Idle.seen.ver <= version
    BY <1>t, <1>i DEF TypeOK
  <2> QED BY <1>idle, <1>t, <1>i, <2>1, LocalStep
<1>1. ASSUME NEW h \in Holders, Begin(h) PROVE Inv'
  <2> DEFINE x == hold'[h]
  <2>1. x \in Procs /\ hold' = [hold EXCEPT ![h] = x]
    BY <1>1, <1>t DEF TypeOK, Begin, Procs
  <2>2. /\ x.pc \in {"create", "get"} /\ x.at = Clock(h)
        /\ x.ver = hold[h].ver /\ x.seen = hold[h].seen
    BY <1>1, <1>t DEF TypeOK, Begin, Procs
  <2>3. x.ver <= version /\ x.seen.ver <= version
    BY <2>2 DEF Inv, VersionsGiven
  <2>4. x.at <= Clock(h)
    BY <2>2, <1>t, ClockNat
  <2> QED BY <1>1, <1>t, <2>1, <2>2, <2>3, <2>4, LocalStep DEF Begin
<1>2. ASSUME NEW h \in Holders, Create(h) PROVE Inv'
  <2> DEFINE r == IF hold[h].pc = "create" /\ CreateFirst THEN [hold[h] EXCEPT !.pc = "get"]
                  ELSE Idle
  <2>1. hold[h].pc # "idle" /\ Put(h, lease.holder = Nobody, r, Idle)
    BY <1>2 DEF Create
  <2>2. CASE lease.holder = Nobody /\ Write(h) /\ UNCHANGED <<now, dropped>>
    <3>1. \A g \in Holders : ~Live(g)
      BY <2>2 DEF Inv, GuardBacked
    <3>2. \E x \in {Guarded(h), Idle} : hold' = [hold EXCEPT ![h] = x]
      BY <2>1, <2>2 DEF Put
    <3>3. Guarded(h) \in Procs
      BY <1>t DEF Guarded, TypeOK, Procs
    <3> QED BY <1>t, <1>i, <2>1, <2>2, <3>1, <3>2, <3>3, WriteStep
  <2>3. CASE hold' = [hold EXCEPT ![h] = r] /\ UNCHANGED <<now, lease, version, dropped>>
    <3>1. CASE r = Idle
      BY <2>3, <3>1, <1>idle
    <3>2. CASE r = [hold[h] EXCEPT !.pc = "get"]
      <4>1. /\ r \in Procs /\ r.pc = "get" /\ r.at = hold[h].at
            /\ r.ver = hold[h].ver /\ r.seen = hold[h].seen
        BY <3>2, <1>t DEF TypeOK, Procs
      <4>2. r.at <= Clock(h) /\ r.ver <= version /\ r.seen.ver <= version
        BY <4>1, <2>1 DEF Inv, TimesRead, VersionsGiven
      <4> HIDE DEF r
      <4> QED BY <1>t, <2>3, <4>1, <4>2, LocalStep
    <3> QED BY <3>1, <3>2
  <2>4. CASE hold' = [hold EXCEPT ![h] = Idle] /\ UNCHANGED <<now, lease, version, dropped>>
    BY <2>4, <1>idle
  <2> HIDE DEF r
  <2> QED BY <2>1, <2>2, <2>3, <2>4 DEF Put
<1>3. ASSUME NEW h \in Holders, Get(h) PROVE Inv'
  <2> DEFINE a == [hold[h] EXCEPT !.pc = "recreate"]
             b == [hold[h] EXCEPT !.pc = "steal", !.seen = lease]
  <2>1. \/ hold' = [hold EXCEPT ![h] = Idle]
        \/ hold' = [hold EXCEPT ![h] = a]
        \/ hold' = [hold EXCEPT ![h] = b] /\ Expired(lease, hold[h].at)
    BY <1>3, <1>t DEF Get, TypeOK
  <2>2. UNCHANGED <<now, lease, version, dropped>> /\ hold[h].at <= Clock(h)
    BY <1>3 DEF Get, Inv, TimesRead
  <2>3. CASE hold' = [hold EXCEPT ![h] = Idle]
    BY <2>2, <2>3, <1>idle
  <2>4. CASE hold' = [hold EXCEPT ![h] = a]
    <3>1. a \in Procs /\ a.pc = "recreate" /\ a.at = hold[h].at
          /\ a.ver = hold[h].ver /\ a.seen = hold[h].seen
      BY <1>t DEF TypeOK, Procs
    <3>2. a.ver <= version /\ a.seen.ver <= version
      BY <3>1 DEF Inv, VersionsGiven
    <3> HIDE DEF a
    <3> QED BY <1>t, <2>2, <2>4, <3>1, <3>2, LocalStep
  <2>5. CASE hold' = [hold EXCEPT ![h] = b] /\ Expired(lease, hold[h].at)
    <3>1. b \in Procs /\ b.pc = "steal" /\ b.at = hold[h].at
          /\ b.ver = hold[h].ver /\ b.seen = lease
      BY <1>t DEF TypeOK, Procs
    <3>2. b.ver <= version /\ b.seen.ver <= version /\ b.at >= lease.expires + Tolerance
      BY <2>5, <3>1 DEF Inv, VersionsGiven, Expired
    <3> HIDE DEF b
    <3> QED BY <1>t, <2>2, <2>5, <3>1, <3>2, LocalStep
  <2> HIDE DEF a, b
  <2> QED BY <2>1, <2>3, <2>4, <2>5
<1>4. ASSUME NEW h \in Holders, Steal(h) PROVE Inv'
  <2> DEFINE c == lease.holder # Nobody /\ lease.ver = hold[h].seen.ver
  <2>1. hold[h].pc = "steal" /\ Put(h, c, Idle, Idle)
    BY <1>4 DEF Steal
  <2>2. CASE c /\ Write(h) /\ UNCHANGED <<now, dropped>>
    <3>1. \A g \in Holders : ~Live(g)
      BY <2>1, <2>2, StealsExpired
    <3>2. \E x \in {Guarded(h), Idle} : hold' = [hold EXCEPT ![h] = x]
      BY <2>1, <2>2 DEF Put
    <3>3. Guarded(h) \in Procs
      BY <1>t DEF Guarded, TypeOK, Procs
    <3> HIDE DEF c
    <3> QED BY <1>t, <1>i, <2>1, <2>2, <3>1, <3>2, <3>3, WriteStep
  <2>3. CASE hold' = [hold EXCEPT ![h] = Idle] /\ UNCHANGED <<now, lease, version, dropped>>
    BY <2>3, <1>idle
  <2> HIDE DEF c
  <2> QED BY <2>1, <2>2, <2>3 DEF Put
<1>5. ASSUME NEW h \in Holders, BeatStart(h) PROVE Inv'
  <2> DEFINE x == hold'[h]
  <2>1. x \in Procs /\ hold' = [hold EXCEPT ![h] = x]
    BY <1>5, <1>t DEF TypeOK, BeatStart, Procs
  <2>2. /\ x.pc = "beat" /\ x.at = Clock(h) /\ x.expires = hold[h].expires
        /\ x.ver = hold[h].ver /\ x.seen = hold[h].seen /\ Holding(h)
    BY <1>5, <1>t DEF TypeOK, BeatStart, Procs, Holding
  <2>3. x.ver <= version /\ x.seen.ver <= version
    BY <2>2 DEF Inv, VersionsGiven
  <2>4. x.at <= Clock(h) /\ x.expires <= x.at + Ttl
    BY <2>2, <1>t, ClockNat DEF Inv, TimesRead
  <2> HIDE DEF x
  <2> QED BY <1>5, <1>t, <2>1, <2>2, <2>3, <2>4, LocalStep DEF BeatStart
<1>6. ASSUME NEW h \in Holders, Beat(h) PROVE Inv'
  <2> DEFINE c == lease.holder # Nobody /\ lease.ver = hold[h].ver
             f == [hold[h] EXCEPT !.pc = "held", !.at = 0]
  <2>1. hold[h].pc = "beat" /\ Holding(h) /\ Put(h, c, Idle, f)
    BY <1>6 DEF Beat, Holding
  <2>2. /\ f \in Procs /\ f.pc = "held" /\ f.at = 0 /\ f.ver = hold[h].ver
        /\ f.seen = hold[h].seen /\ f.expires = hold[h].expires
    BY <1>t DEF TypeOK, Procs
  <2>3. CASE c /\ Write(h) /\ UNCHANGED <<now, dropped>>
    <3>1. \A g \in Holders \ {h} : ~Live(g)
      BY <2>1, <2>3, OwnDelete
    <3>2. \E x \in {Guarded(h), f} : hold' = [hold EXCEPT ![h] = x]
      BY <2>1, <2>3 DEF Put
    <3>3. Guarded(h) \in Procs
      BY <1>t DEF Guarded, TypeOK, Procs
    <3> HIDE DEF c, f
    <3> QED BY <1>t, <2>1, <2>2, <2>3, <3>1, <3>2, <3>3, WriteStep
  <2>4. CASE hold' = [hold EXCEPT ![h] = Idle] /\ UNCHANGED <<now, lease, version, dropped>>
    BY <2>4, <1>idle
  <2>5. CASE hold' = [hold EXCEPT ![h] = f] /\ UNCHANGED <<now, lease, version, dropped>>
    <3>1. f.ver <= version /\ f.seen.ver <= version
      BY <2>2 DEF Inv, VersionsGiven
    <3>2. f.at <= Clock(h)
      BY <2>2, <1>t, ClockNat
    <3> HIDE DEF c, f
    <3> QED BY <1>t, <2>1, <2>2, <2>5, <3>1, <3>2, LocalStep
  <2> HIDE DEF c, f
  <2> QED BY <2>1, <2>3, <2>4, <2>5 DEF Put
<1>7. ASSUME NEW h \in Holders, Release(h) PROVE Inv'
  <2>1. hold'[h] = Idle /\ \A g \in Holders \ {h} : hold'[g] = hold[g]
    BY <1>7, <1>t, Others DEF Release
  <2>2. Holding(h) /\ \A g \in Holders : Live(g)' => Live(g) /\ g # h
    BY <1>7, <2>1 DEF Release, Live, Holding, Clock, Idle
  <2>3. \/ lease' = lease
        \/ lease' = Absent /\ \A g \in Holders : ~Live(g)'
    BY <1>7, <2>2, OwnDelete DEF Release, DeleteVersion
  <2> QED BY <1>7, <1>t, <2>3, DeleteStep DEF Release
<1>8. ASSUME NEW h \in Holders, DropGuard(h) PROVE Inv'
  <2>1. hold'[h] = Idle /\ \A g \in Holders \ {h} : hold'[g] = hold[g]
    BY <1>8, <1>t, Others DEF DropGuard
  <2>2. \A g \in Holders : Holding(g)' => Holding(g) /\ g # h /\ hold'[g] = hold[g]
    BY <2>1 DEF Holding, Idle
  <2>3. \A g \in Holders : Live(g)' => Live(g) /\ g # h
    BY <1>8, <2>2 DEF Live, Clock, DropGuard
  <2>4. VersionsGiven'
    BY <1>8, <1>t, <2>1 DEF Inv, VersionsGiven, DropGuard, TypeOK, Idle, Absent
  <2>5. TimesRead'
    BY <1>8, <1>t, <2>1, <2>2 DEF Inv, TimesRead, DropGuard, Clock, Idle
  <2>6. SeenExpired'
    BY <1>8, <2>1 DEF Inv, SeenExpired, DropGuard, Idle
  <2>7. OwnVersion'
    BY <1>8, <2>2 DEF Inv, OwnVersion, DropGuard
  <2>8. GuardBacked'
    BY <1>8, <2>2, <2>3 DEF Inv, GuardBacked, DropGuard, Live
  <2>9. DropsHarmless'
    <3> SUFFICES ASSUME lease'.ver \in dropped', NEW g \in Holders, Live(g)' PROVE FALSE
      BY DEF DropsHarmless
    <3>1. Live(g) /\ g # h /\ lease' = lease /\ Holding(h)
      BY <1>8, <2>3 DEF DropGuard, Holding
    <3>2. lease.ver \notin dropped
      BY <3>1 DEF Inv, DropsHarmless
    <3>3. lease.ver = hold[h].ver
      BY <1>8, <3>1, <3>2 DEF DropGuard
    <3>4. lease.holder # Nobody
      BY <3>1 DEF Inv, GuardBacked
    <3> QED BY <3>1, <3>3, <3>4, OwnDelete
  <2> QED BY <1>t, <2>4, <2>5, <2>6, <2>7, <2>8, <2>9 DEF Inv
<1>9. ASSUME NEW h \in Holders, Crash(h) PROVE Inv'
  BY <1>9, <1>idle DEF Crash
<1>10. ASSUME NEW v \in dropped, DropDelete(v) PROVE Inv'
  <2>1. \A g \in Holders : Live(g)' => Live(g)
    BY <1>10 DEF DropDelete, Live, Holding, Clock
  <2>2. \/ lease' = lease
        \/ lease' = Absent /\ \A g \in Holders : ~Live(g)'
    BY <1>10, <2>1 DEF DropDelete, DeleteVersion, Inv, DropsHarmless
  <2> QED BY <1>10, <1>t, <2>2, DeleteStep DEF DropDelete
<1>11. CASE Tick
  <2>1. /\ UNCHANGED <<lease, version, hold, dropped>>
        /\ \A g \in Holders : Clock(g)' = Clock(g) + 1 /\ Clock(g) \in Nat
    BY <1>11, <1>t, ClockNat DEF Tick, Clock, TypeOK
  <2>2. \A g \in Holders : (Holding(g)' <=> Holding(g)) /\ (Live(g)' => Live(g))
    BY <2>1, <1>t DEF Holding, Live, TypeOK, Procs
  <2>3. TimesRead'
    BY <2>1, <2>2, <1>t DEF Inv, TimesRead, TypeOK, Procs
  <2> QED BY <1>t, <2>1, <2>2, <2>3 DEF Inv, VersionsGiven, SeenExpired, OwnVersion,
             DropsHarmless, GuardBacked
<1>12. CASE UNCHANGED vars
  BY <1>12 DEF vars, Inv, TypeOK, VersionsGiven, TimesRead, SeenExpired, OwnVersion,
        DropsHarmless, GuardBacked, Live, Holding, Clock
<1> QED BY <1>1, <1>2, <1>3, <1>4, <1>5, <1>6, <1>7, <1>8, <1>9, <1>10, <1>11, <1>12 DEF Next

-----------------------------------------------------------------------------

\* Types are kept by every operation on the lease.
THEOREM TypeCorrect == Spec => []TypeOK
<1>1. Init => TypeOK
  BY InvInit DEF Inv
<1> QED BY <1>1, TypeStep, PTL DEF Spec

\* Two processes never both hold a guard that is unexpired on their own clock
\* (try_acquire, heartbeat, release, drop and crash in any order), provided
\* LEASE_SKEW_TOLERANCE covers the difference of any two clocks.
THEOREM MutualExclusion ==
    ASSUME SkewTolerated
    PROVE  Spec => []OneLiveGuard
<1>1. Inv => OneLiveGuard
  BY DEF Inv, GuardBacked, OneLiveGuard
<1>2. Inv /\ [Next]_vars => Inv'
  BY InvStep
<1> QED BY <1>1, <1>2, InvInit, PTL DEF Spec

\* An unexpired guard is backed by the object: it names the guard's process
\* and lasts at least as long, under the same proviso.
THEOREM GuardsBacked ==
    ASSUME SkewTolerated
    PROVE  Spec => []GuardBacked
<1>1. Inv => GuardBacked
  BY DEF Inv
<1>2. Inv /\ [Next]_vars => Inv'
  BY InvStep
<1> QED BY <1>1, <1>2, InvInit, PTL DEF Spec
=============================================================================
