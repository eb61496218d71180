------------------------------ MODULE CiCommand -----------------------------
(* One execution of a CI task (ci_cmd.rs): the command with its processes,  *)
(* pipes, log and deadline; then the objects of the run, from the files the *)
(* command leaves to the readers that download them (ci_cmd.rs, and the     *)
(* endpoints of api.rs).                                                    *)
EXTENDS Integers, Sequences

CONSTANTS CmdKinds,   \* processes a command may start: "child" of its group, "daemon" that left it
          CmdBytes,   \* bytes the processes write
          PipeMax,    \* bytes a pipe holds
          ChunkMax,   \* bytes of one read
          LogMax,     \* LOG_CAPTURE_MAX
          ObRounds,   \* runs of the task
          ObRewrites, \* times a process that was left rewrites the artifact
          ObFaults,   \* failed pushes
          ObShadows   \* refs that others push under any digest

\* One read is smaller than what the log keeps.
ASSUME CommandAssumption ==
    /\ LogMax \in Nat /\ ChunkMax \in Nat /\ ChunkMax < LogMax
    /\ CmdKinds \subseteq {"child", "daemon"}

VARIABLES cmd,       \* the command, its log and the runner that waits for it
          ob,        \* the runner that collects and publishes
          obRemote,  \* refs of objects on the server, by actor and digest
          obLocal,   \* the same in the clone of the reader
          obResult,  \* the last result: digests of its log and its artifact
          rd         \* the reader

commandVars == <<cmd, ob, obRemote, obLocal, obResult, rd>>

-----------------------------------------------------------------------------
(* The command.  Bytes are numbers in the order in which they are written.  *)

Pipes == {"out", "err"}
\* procs: who runs, and which of them still hold the pipes; read: bytes as the readers took them.
NewCommand == [pc |-> "poll", procs |-> {"shell"}, holders |-> {"shell"}, status |-> "none",
               pipe |-> [p \in Pipes |-> <<>>], open |-> Pipes, written |-> 0, read |-> <<>>,
               log |-> <<>>, truncated |-> FALSE, late |-> FALSE, conclusion |-> "none"]
InGroup == {"shell", "child"}

\* Mutant: room is made by the length of the log alone.
Appended_Overfull(c, chunk) ==
    LET drop == IF Len(c.log) > LogMax THEN Len(c.log) - LogMax ELSE 0
    IN  [c EXCEPT !.log = SubSeq(@, drop + 1, Len(@)) \o chunk, !.truncated = @ \/ drop > 0]
\* Bytes of n that the log does not keep.
Beyond(n) == IF n > LogMax THEN n - LogMax ELSE 0
\* The log keeps its last bytes.
Appended(c, chunk) ==
    IF Len(chunk) >= LogMax
    THEN [c EXCEPT !.log = SubSeq(chunk, Len(chunk) - LogMax + 1, Len(chunk)), !.truncated = TRUE]
    ELSE LET drop == Beyond(Len(c.log) + Len(chunk))
         IN  [c EXCEPT !.log = SubSeq(@, drop + 1, Len(@)) \o chunk, !.truncated = @ \/ drop > 0]

ProcStarts ==
    \E k \in CmdKinds \ cmd.procs :
        /\ "shell" \in cmd.procs
        /\ cmd' = [cmd EXCEPT !.procs = @ \cup {k}, !.holders = @ \cup {k}]
\* A process with the pipes open writes; a full pipe holds it up.
ProcWrites ==
    \E k \in cmd.holders, p \in Pipes :
        /\ cmd.written < CmdBytes /\ Len(cmd.pipe[p]) < PipeMax
        /\ cmd' = [cmd EXCEPT !.pipe[p] = Append(@, cmd.written + 1), !.written = @ + 1]
ProcCloses ==
    \E k \in cmd.holders \ {"shell"} : cmd' = [cmd EXCEPT !.holders = @ \ {k}]
ProcExits ==
    \E k \in cmd.procs, code \in {"zero", "other"} :
        /\ (k # "shell" => code = "zero")
        /\ cmd' = [cmd EXCEPT !.procs = @ \ {k}, !.holders = @ \ {k},
                              !.status = IF k = "shell" THEN code ELSE @]
\* A reader takes what there is, under the lock of the log, until nobody holds the pipe.
DrainReads ==
    \E p \in cmd.open :
        \E n \in 1..Len(cmd.pipe[p]) :
            LET chunk == SubSeq(cmd.pipe[p], 1, n)
            IN  /\ n <= ChunkMax
                /\ cmd' = [Appended(cmd, chunk) EXCEPT !.pipe[p] = SubSeq(@, n + 1, Len(@)),
                                                       !.read = @ \o chunk]
DrainEnds ==
    \E p \in cmd.open :
        /\ cmd.pipe[p] = <<>> /\ cmd.holders = {}
        /\ cmd' = [cmd EXCEPT !.open = @ \ {p}]
Deadline == ~cmd.late /\ cmd' = [cmd EXCEPT !.late = TRUE]
\* The status is looked at first, then the time.
SeesExit ==
    /\ cmd.pc = "poll" /\ cmd.status # "none"
    /\ cmd' = [cmd EXCEPT !.pc = "join",
                          !.conclusion = IF cmd.status = "zero" THEN "success" ELSE "failure"]
\* Mutant: only the shell is killed.
KillsTree_ShellOnly ==
    /\ cmd.pc = "poll" /\ cmd.late
    /\ cmd' = [cmd EXCEPT !.pc = "join", !.conclusion = "timeout",
                          !.procs = @ \ {"shell"}, !.holders = @ \ {"shell"}]
\* The whole process group goes, also when the shell has exited since it was looked at.
KillsTree ==
    /\ cmd.pc = "poll" /\ cmd.late
    /\ cmd' = [cmd EXCEPT !.pc = "join", !.conclusion = "timeout",
                          !.procs = @ \ InGroup, !.holders = @ \ InGroup]
\* Both readers are joined, without a limit, and the log is taken.
Joined ==
    /\ cmd.pc = "join" /\ cmd.open = {}
    /\ cmd' = [cmd EXCEPT !.pc = "done"]
CommandNext ==
    /\ \/ ProcStarts \/ ProcWrites \/ ProcCloses \/ ProcExits
       \/ DrainReads \/ DrainEnds \/ Deadline \/ SeesExit \/ KillsTree \/ Joined
    /\ UNCHANGED <<ob, obRemote, obLocal, obResult, rd>>

\* When a run ends, its log is the end of everything that was written on either pipe, as it
\* was read; it is called truncated when, and only when, something is missing; and after a
\* timeout no process of the command's group is left to write into the worktree.
LogExact ==
    /\ cmd.log = SubSeq(cmd.read, Beyond(Len(cmd.read)) + 1, Len(cmd.read))
    /\ cmd.truncated = (Len(cmd.read) > LogMax)
    /\ cmd.pc = "done" =>
           /\ {cmd.read[i] : i \in 1..Len(cmd.read)} = 1..cmd.written
           /\ cmd.conclusion = "timeout" => cmd.procs \cap InGroup = {}
           /\ cmd.conclusion = "success" => cmd.status = "zero"

\* A command that is past its deadline comes to an end, while the threads of the runner run.
EndsInTime == cmd.late ~> cmd.pc = "done"
RunnerRuns ==
    /\ WF_cmd(DrainReads) /\ WF_cmd(DrainEnds)
    /\ WF_cmd(SeesExit \/ KillsTree \/ Joined)

-----------------------------------------------------------------------------
(* The objects of a run.  A content is a number and its own digest: 1 is    *)
(* the log, 2 and 3 an artifact, 4 one that is over the cap.                *)

Contents == 1..4
Fits(c) == c # 4
Log == 1
CiActors == {1, 2}
RunnerActor == 1
NoObjects == [a \in CiActors |-> [c \in Contents |-> 0]]
RunnerAtRest == [pc |-> "idle", file |-> 0, oid |-> 0, sha |-> 0, ok |-> FALSE,
                 rounds |-> 0, rewrites |-> 0, faults |-> 0, shadows |-> 0]

\* The command leaves an artifact, or none.
ObExecute ==
    /\ ob.pc = "idle" /\ ob.rounds < ObRounds
    /\ \E f \in {0} \cup (Contents \ {Log}) :
           ob' = [ob EXCEPT !.pc = "stat", !.file = f, !.oid = 0, !.sha = 0, !.rounds = @ + 1]
    /\ UNCHANGED <<obRemote, obLocal, obResult, rd>>
\* A process that closed the pipes may still write.
ObRewrite ==
    /\ ob.pc \in {"stat", "hash", "digest"} /\ ob.file # 0 /\ ob.rewrites < ObRewrites
    /\ \E f \in Contents \ {Log, ob.file} : ob' = [ob EXCEPT !.file = f, !.rewrites = @ + 1]
    /\ UNCHANGED <<obRemote, obLocal, obResult, rd>>
\* A file that is there and within the cap is stored as an object, then read again for its digest.
CollectArtifact ==
    /\ \/ ob.pc = "stat" /\ ob' = [ob EXCEPT !.pc = IF ob.file # 0 /\ Fits(ob.file) THEN "hash" ELSE "upload"]
       \/ ob.pc = "hash" /\ ob' = [ob EXCEPT !.pc = "digest", !.oid = ob.file]
       \/ ob.pc = "digest" /\ ob' = [ob EXCEPT !.pc = "upload", !.sha = ob.file]
    /\ UNCHANGED <<obRemote, obLocal, obResult, rd>>
\* The refs of a run: its log and its artifact, by digest.
RunRefs == [c \in {Log} \cup ({ob.sha} \ {0}) |-> IF c = Log THEN Log ELSE ob.oid]
\* One push of all of them.  A ref that holds another object is refused, the others land.
UploadObjects ==
    /\ ob.pc = "upload"
    /\ LET refused == {c \in DOMAIN RunRefs : obRemote[RunnerActor][c] \notin {0, RunRefs[c]}}
           lands(cs) == obRemote' = [obRemote EXCEPT ![RunnerActor] =
                                        [c \in Contents |-> IF c \in cs THEN RunRefs[c] ELSE @[c]]]
       IN  \/ /\ lands(DOMAIN RunRefs \ refused)
              /\ ob' = [ob EXCEPT !.pc = "publish", !.ok = (refused = {})]
           \/ /\ ob.faults < ObFaults
              /\ \/ lands({}) \/ lands(DOMAIN RunRefs \ refused)     \* not sent, or not answered
              /\ ob' = [ob EXCEPT !.pc = "publish", !.ok = FALSE, !.faults = @ + 1]
    /\ UNCHANGED <<obLocal, obResult, rd>>
\* Mutant: the artifact is named although the upload failed.
PublishResult_Always ==
    /\ ob.pc = "publish" /\ ob' = [ob EXCEPT !.pc = "idle"]
    /\ obResult' = [log |-> Log, artifact |-> ob.sha, oid |-> ob.oid]
    /\ UNCHANGED <<obRemote, obLocal, rd>>
\* The result names the log in any case, the artifact only when the upload went through.
PublishResult ==
    /\ ob.pc = "publish" /\ ob' = [ob EXCEPT !.pc = "idle"]
    /\ obResult' = [log |-> Log, artifact |-> IF ob.ok THEN ob.sha ELSE 0, oid |-> ob.oid]
    /\ UNCHANGED <<obRemote, obLocal, rd>>
\* Another actor pushes an object under a digest that it need not have; the clone of the
\* reader may fetch it too.
Shadows ==
    /\ ob.shadows < ObShadows /\ ob' = [ob EXCEPT !.shadows = @ + 1]
    /\ \E c, o \in Contents :
           /\ obRemote[2][c] = 0 /\ obRemote' = [obRemote EXCEPT ![2][c] = o]
           /\ obLocal' \in {obLocal, [obLocal EXCEPT ![2][c] = o]}
    /\ UNCHANGED <<obResult, rd>>

\* The objects that somebody's ref has under a digest.
Candidates(refs, c) == {refs[a][c] : a \in CiActors} \ {0}
\* Mutant: the first candidate decides.
Verified_First(refs, c) == c \in Candidates(refs, c) /\ Fits(c) /\ \A o \in Candidates(refs, c) : o <= c
\* Some candidate fits and hashes to the digest.
Verified(refs, c) == \E o \in Candidates(refs, c) : Fits(o) /\ o = c
\* What the server says of the size of an object.
SizeAnswer(o) == IF o = 0 THEN 404 ELSE IF Fits(o) THEN 200 ELSE 413
NotReading == [pc |-> "idle", sha |-> 0, got |-> 0, there |-> FALSE]
\* The log or an artifact of the latest result.
ReadStarts ==
    /\ rd.pc \in {"idle", "done"}
    /\ \E c \in {obResult.log, obResult.artifact} \ {0} :
           rd' = [pc |-> "local", sha |-> c, got |-> 0, there |-> obRemote[RunnerActor][c] = c /\ Fits(c)]
    /\ UNCHANGED <<ob, obRemote, obLocal, obResult>>
ReadLocal ==
    /\ rd.pc \in {"local", "again"}
    /\ rd' = IF Verified(obLocal, rd.sha) THEN [rd EXCEPT !.pc = "done", !.got = rd.sha]
             ELSE [rd EXCEPT !.pc = IF rd.pc = "local" THEN "head" ELSE "done"]
    /\ UNCHANGED <<ob, obRemote, obLocal, obResult>>
\* The size on the server of what the actor of the result has under the digest.
HeadSize ==
    /\ rd.pc = "head"
    /\ rd' = [rd EXCEPT !.pc = IF SizeAnswer(obRemote[RunnerActor][rd.sha]) = 200 THEN "fetch" ELSE "done"]
    /\ UNCHANGED <<ob, obRemote, obLocal, obResult>>
FetchArtifact ==
    /\ rd.pc = "fetch"
    /\ obLocal' = [obLocal EXCEPT ![RunnerActor][rd.sha] = obRemote[RunnerActor][rd.sha]]
    /\ rd' = [rd EXCEPT !.pc = "again"]
    /\ UNCHANGED <<ob, obRemote, obResult>>
\* The server's own endpoint looks at every actor's ref.
WebGet ==
    /\ rd.pc \in {"idle", "done"}
    /\ \E c \in {obResult.log, obResult.artifact} \ {0} :
           rd' = [pc |-> "done", sha |-> c, got |-> IF Verified(obRemote, c) THEN c ELSE 0,
                  there |-> obRemote[RunnerActor][c] = c /\ Fits(c)]
    /\ UNCHANGED <<ob, obRemote, obLocal, obResult>>
ObjectsNext ==
    /\ \/ ObExecute \/ ObRewrite \/ CollectArtifact \/ UploadObjects \/ PublishResult \/ Shadows
       \/ ReadStarts \/ ReadLocal \/ HeadSize \/ FetchArtifact \/ WebGet
    /\ UNCHANGED cmd

\* What a result names as an artifact is on the server under the name of its runner before the
\* result is, and stays; whatever else was pushed under the same digest, a reader ends with
\* these bytes or, when the file changed between its two readings, with none.
ObjectsServed ==
    /\ obResult.artifact # 0 => obRemote[RunnerActor][obResult.artifact] = obResult.oid
    /\ rd.pc = "done" /\ rd.there => rd.got = rd.sha
    /\ rd.pc = "done" /\ rd.got # 0 => Fits(rd.got)

CommandSound == LogExact /\ ObjectsServed

CommandInit ==
    /\ cmd = NewCommand /\ ob = RunnerAtRest /\ obRemote = NoObjects /\ obLocal = NoObjects
    /\ obResult = [log |-> 0, artifact |-> 0, oid |-> 0] /\ rd = NotReading

\* The command runs; or objects of earlier runs are published and read.
CommandSpec == CommandInit /\ [][CommandNext \/ ObjectsNext]_commandVars
=============================================================================
