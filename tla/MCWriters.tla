----------------------------- MODULE MCWriters ------------------------------
(* What comes in: the request of a push on its host and at the broker, the  *)
(* writers of the manifest on two instances, refs that follow an upstream,  *)
(* and the mirror.  The parts share nothing, so each behaviour is a         *)
(* behaviour of one of them while the others rest.                          *)
EXTENDS WalWriters, Receive, Follow, TLC

VARIABLE part    \* the module whose behaviour this is

\* Requests 1 and 2 on h1, 3 on h2, all about main; 2 follows 1, 3 competes with 1.
MCRefOf == [r \in Requests |-> "main"]
MCOldOf == [r \in Requests |-> IF r = 2 THEN 1 ELSE 0]
MCHostOf == [r \in Requests |-> IF r = 3 THEN "h2" ELSE "h1"]
MCPackOf == [r \in Requests |-> <<"a", "b", "c">>[r]]

\* Commits 2 and 3 both follow 1: a push that follows, one that forces, one that
\* creates a tag, a delete, and an atomic one.
U(o, n) == [old |-> o, new |-> n]
P(who, txn, atomic, objs, small) ==
    [who |-> who, txn |-> txn, atomic |-> atomic, objs |-> objs, small |-> small]
MCParent == <<0, 1, 1>>
MCPushes ==
    {P("ann", "main" :> U(1, 2), FALSE, {2}, TRUE),
     P("bob", "main" :> U(2, 3), FALSE, {3}, TRUE),
     P("bob", "main" :> U(1, 3) @@ "tag" :> U(0, 3), FALSE, {3}, FALSE),
     P("ann", "main" :> U(2, 1) @@ "tag" :> U(0, 2), TRUE, {}, TRUE),
     P("bob", "main" :> U(1, 0), FALSE, {}, TRUE)}

Rule(refs, people, restricts, bypass) ==
    [refs |-> refs, people |-> people, restricts |-> restricts, bypass |-> bypass]
All == {"ann", "bob"}
MCPolicies ==
    {{}, {Rule({"main"}, All, {"force-push", "delete"}, {"ann"})},
     {Rule({"main", "tag"}, All, AllRestricts, {"bob"}), Rule({"tag"}, {"bob"}, {"update"}, {"ann"})},
     {Rule({"main"}, All, {"force-push"}, {}), Rule({"tag"}, All, {"force-push"}, {"bob"})}}

\* Commits 2 and 3 of the upstream both follow 1.
MCFwReach == <<{1}, {1, 2}, {1, 3}>>

\* Two writers of other kinds over a log of two, or one over a log of three.
Many == INSTANCE WalWriters WITH MaxLog <- 2
Long == INSTANCE WalWriters WITH MaxOthers <- 1

Init ==
    /\ part \in {"many writers", "long log", "receive", "follow", "mirror"}
    /\ WritersInit /\ ReceiveInit /\ FollowInit

Next ==
    /\ UNCHANGED part
    /\ \/ part = "many writers" /\ Many!WritersNext /\ UNCHANGED <<receiveVars, followVars>>
       \/ part = "long log" /\ Long!WritersNext /\ UNCHANGED <<receiveVars, followVars>>
       \/ part = "receive" /\ ReceiveNext /\ UNCHANGED <<writerVars, followVars>>
       \/ part = "follow" /\ FollowNext /\ UNCHANGED <<writerVars, receiveVars>>
       \/ part = "mirror" /\ MirrorNext /\ UNCHANGED <<writerVars, receiveVars>>

Spec == Init /\ [][Next]_<<part, writerVars, receiveVars, followVars>>
=============================================================================
