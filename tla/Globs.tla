-------------------------------- MODULE Globs -------------------------------
(* The two glob matchers of the command line: the one of ci.toml, a loop    *)
(* that goes back to the last star (ci_cmd.rs), and the one of import       *)
(* filters, which looks for the parts between the stars (import.rs).  Both  *)
(* are compared with what a glob means.  Names are sequences of characters. *)
EXTENDS Naturals
LOCAL INSTANCE Sequences
LOCAL INSTANCE SequencesExt
LOCAL INSTANCE FiniteSetsExt

VARIABLE glob     \* a pattern and a name

\* What a glob means: a star is any run of characters, a question mark any one.
RECURSIVE Means(_, _, _)
Means(p, n, any) ==
    IF p = <<>> THEN n = <<>>
    ELSE IF Head(p) = "*"
         THEN Means(Tail(p), n, any) \/ (n # <<>> /\ Means(p, Tail(n), any))
         ELSE /\ n # <<>> /\ Head(p) \in {Head(n)} \cup any
              /\ Means(Tail(p), Tail(n), any)

\* Mutant: a mismatch after a star is final.
GlobStep_NoRetry(p, n, at) ==
    LET same == at.pi <= Len(p) /\ p[at.pi] \in {"?", n[at.ni]}
    IN  IF same THEN [at EXCEPT !.pi = @ + 1, !.ni = @ + 1]
        ELSE IF at.pi <= Len(p) /\ p[at.pi] = "*"
             THEN [at EXCEPT !.star = at.pi, !.mark = at.ni, !.pi = @ + 1]
             ELSE [at EXCEPT !.failed = TRUE]
\* One turn of the loop: a character in step, a star that takes nothing yet, or back to the
\* last star, which takes one more.
GlobStep(p, n, at) ==
    LET same == at.pi <= Len(p) /\ p[at.pi] \in {"?", n[at.ni]}
    IN  IF same THEN [at EXCEPT !.pi = @ + 1, !.ni = @ + 1]
        ELSE IF at.pi <= Len(p) /\ p[at.pi] = "*"
             THEN [at EXCEPT !.star = at.pi, !.mark = at.ni, !.pi = @ + 1]
        ELSE IF at.star # 0
             THEN [at EXCEPT !.pi = at.star + 1, !.mark = @ + 1, !.ni = at.mark + 1]
             ELSE [at EXCEPT !.failed = TRUE]
RECURSIVE GlobLoop(_, _, _)
GlobLoop(p, n, at) == IF at.ni > Len(n) \/ at.failed THEN at ELSE GlobLoop(p, n, GlobStep(p, n, at))
GlobMatch(p, n) ==
    LET end == GlobLoop(p, n, [pi |-> 1, ni |-> 1, star |-> 0, mark |-> 0, failed |-> FALSE])
    IN  ~end.failed /\ \A i \in end.pi..Len(p) : p[i] = "*"

\* The parts between stars: the first begins the name, the last ends what is left, the
\* others are found from left to right.
RECURSIVE PartsOfGlob(_, _)
PartsOfGlob(p, part) ==
    IF p = <<>> THEN <<part>>
    ELSE IF Head(p) = "*" THEN <<part>> \o PartsOfGlob(Tail(p), <<>>)
    ELSE PartsOfGlob(Tail(p), Append(part, Head(p)))
Rest(n, pos) == SubSeq(n, pos + 1, Len(n))
FoundAt(part, n) == {i \in 0..Len(n) : IsPrefix(part, Rest(n, i))}
RECURSIVE PartsMatch(_, _)
PartsMatch(parts, n) ==
    IF Len(parts) = 1 THEN IsSuffix(parts[1], n)
    ELSE /\ FoundAt(parts[1], n) # {}
         /\ PartsMatch(Tail(parts), Rest(n, Min(FoundAt(parts[1], n)) + Len(parts[1])))
RefGlobMatch(p, n) ==
    LET parts == PartsOfGlob(p, <<>>)
    IN  IF Len(parts) = 1 THEN p = n
        ELSE IsPrefix(parts[1], n) /\ PartsMatch(Tail(parts), Rest(n, Len(parts[1])))

\* A pattern of a task or of an import filter matches the names that its stars and question
\* marks stand for, however often the loop has to go back.
GlobsExact ==
    /\ GlobMatch(glob.p, glob.n) = Means(glob.p, glob.n, {"?"})
    /\ RefGlobMatch(glob.p, glob.n) = Means(glob.p, glob.n, {})

Words(chars, len) == UNION {[1..k -> chars] : k \in 0..len}
GlobsInit == glob = [p |-> <<>>, n |-> <<>>]
GlobsNext(patterns, names) == glob.p = <<>> /\ glob' \in [p : patterns, n : names]
=============================================================================
