------------------------------ MODULE Receive ------------------------------
(***************************************************************************)
(* git-receive-pack: admission, the hop to a push broker and the fallback  *)
(* when its answer does not come, unpacking, the connectivity check, the   *)
(* repository's policy, the publish and the report to the client.          *)
(*                                                                         *)
(* Commits are numbers; Parent gives the history.  A tip or an old or new  *)
(* value of 0 is the null id.  The publish itself is one step: its CAS     *)
(* loop is module WalPublish.                                              *)
(***************************************************************************)
EXTENDS Integers, Sequences, FiniteSets

CONSTANTS Branches, Tags,  \* ref names under refs/heads/ and refs/tags/
          Parent,          \* commit -> its parent, 0 at a root
          Pushes,          \* the pushes clients send
          Policies,        \* documents an admin may PUT
          Clients,         \* concurrent pushes
          Broker           \* wal.push_broker_url is set

Names == Branches \cup Tags
RcvCommits == DOMAIN Parent

\* No request yet.
NoPush == [who |-> "", txn |-> <<>>, atomic |-> FALSE, objs |-> {}, small |-> TRUE]

ASSUME ReceiveAssumption ==
    /\ Broker \in BOOLEAN
    /\ \A c \in RcvCommits : Parent[c] \in RcvCommits \cup {0} /\ Parent[c] < c
    /\ NoPush \notin Pushes

VARIABLES tipOf,     \* ref name -> commit
          stored,    \* commits whose objects are in live packs
          doc,       \* policy.json: a set of protect rules, {} when there is none
          push,      \* client -> its request
          run,       \* client, host -> the receive_pack_process of the request there
          hop,       \* client -> how its hop to the broker stands
          told,      \* client -> ref -> what the client was told
          landed     \* committed transactions in order

receiveVars == <<tipOf, stored, doc, push, run, hop, told, landed>>

Where == {"front", "broker"}
NoRun == [pc |-> "none", has |-> {}, rules |-> {}, denied |-> {}]

ReceiveInit ==
    /\ tipOf = [b \in Names |-> IF b \in Branches THEN 1 ELSE 0]
    /\ stored = {1}
    /\ doc = {}
    /\ push = [c \in Clients |-> NoPush]
    /\ run = [c \in Clients |-> [w \in Where |-> NoRun]]
    /\ hop = [c \in Clients |-> "none"]
    /\ told = [c \in Clients |-> <<>>]
    /\ landed = <<>>

-----------------------------------------------------------------------------
(* policy.rs                                                                *)

AllRestricts == {"create", "update", "delete", "force-push"}

\* A document is refused when two rules on the same refs and operations let
\* different people through, so that nobody passes both.
validate(rules) ==
    \A a, b \in rules : a # b =>
        \/ a.refs \cap b.refs = {} \/ a.restricts \cap b.restricts = {}
        \/ a.bypass = {} \/ b.bypass = {} \/ a.bypass \cap b.bypass # {}

classify(u) ==
    CASE u.old = u.new -> "noop"
      [] u.old = 0 /\ u.new # 0 -> "create"
      [] u.old # 0 /\ u.new = 0 -> "delete"
      [] OTHER -> "update"

\* Which restrictions of a rule an update runs into.
Hits(op, force) ==
    CASE op = "noop" -> {}
      [] op = "update" /\ force -> {"force-push", "update"}
      [] OTHER -> {op}

\* Patterns with * ? ** and ^ exclusions, as the set of names they match.
pattern_list_matches(patterns, name) == name \in patterns

\* People and groups, nested groups and exclusions, as the set of their members.
actor_list_matches(actors, who) == who \in actors

\* A tag never moves by fast-forward.
deny_reason(rules, who, name, u, force) ==
    \E rule \in rules :
        /\ pattern_list_matches(rule.refs, name) /\ actor_list_matches(rule.people, who)
        /\ ~actor_list_matches(rule.bypass, who)
        /\ Hits(classify(u), force \/ name \in Tags) \cap rule.restricts # {}

PutPolicy(rules) ==
    /\ validate(rules) /\ rules # doc
    /\ doc' = rules
    /\ UNCHANGED <<tipOf, stored, push, run, hop, told, landed>>

-----------------------------------------------------------------------------
(* git: ancestry, connectivity                                              *)
ancestry[c \in RcvCommits \cup {0}] == IF c = 0 THEN {} ELSE {c} \cup ancestry[Parent[c]]

\* merge-base --is-ancestor; an object the copy lacks is an error.
is_ancestor(old, new, has) == {old, new} \subseteq has /\ old \in ancestry[new]

check_connectivity(news, has) == \A c \in news \ {0} : ancestry[c] \subseteq has

-----------------------------------------------------------------------------
(* Admission and the hop                                                    *)
Txn(c) == push[c].txn
Tell(c, verdict) == told' = [told EXCEPT ![c] = [b \in DOMAIN Txn(c) |-> verdict]]
Start(c, w) == run' = [run EXCEPT ![c][w] = [NoRun EXCEPT !.pc = "ingest"]]

\* No rights, a URL without .git, a host that drains or does not serve or write
\* the repository, a copy that does not fit: refused with a report.
RefusePush(c) ==
    /\ push[c] = NoPush
    /\ \E p \in Pushes : push' = [push EXCEPT ![c] = p]
    /\ told' = [told EXCEPT ![c] = [b \in DOMAIN push'[c].txn |-> "refused"]]
    /\ UNCHANGED <<tipOf, stored, doc, run, hop, landed>>

AcceptPush(c) ==
    /\ push[c] = NoPush
    /\ \E p \in Pushes : push' = [push EXCEPT ![c] = p]
    /\ hop' = [hop EXCEPT ![c] = IF Broker THEN "sent" ELSE "none"]
    /\ IF Broker THEN UNCHANGED run ELSE Start(c, "front")
    /\ UNCHANGED <<tipOf, stored, doc, told, landed>>

\* The request reaches the broker, which does not forward it again.
BrokerReceives(c) ==
    /\ hop[c] \in {"sent", "given up"} /\ run[c]["broker"] = NoRun
    /\ Start(c, "broker")
    /\ UNCHANGED <<tipOf, stored, doc, push, hop, told, landed>>

\* No connection, a gateway error, 401 or a lost answer: a body that was
\* buffered is processed here, a larger one answered with 503.
ForwardFails(c) ==
    /\ hop[c] = "sent"
    /\ hop' = [hop EXCEPT ![c] = "given up"]
    /\ IF push[c].small
       THEN Start(c, "front") /\ UNCHANGED told
       ELSE Tell(c, "unavailable") /\ UNCHANGED run
    /\ UNCHANGED <<tipOf, stored, doc, push, landed>>

-----------------------------------------------------------------------------
(* receive_pack_process on host w                                           *)
At(c, w, pc) == run[c][w].pc = pc

\* The report goes to the client when the front ran it or still waits for the
\* broker; otherwise it is lost with the hop.
Report(c, w, verdicts) ==
    /\ run' = [run EXCEPT ![c][w] = [NoRun EXCEPT !.pc = "done"]]
    /\ IF w = "front" \/ hop[c] = "sent"
       THEN told' = [told EXCEPT ![c] = verdicts]
       ELSE UNCHANGED told
    /\ hop' = [hop EXCEPT ![c] = IF @ = "sent" THEN "answered" ELSE @]

RefusalReport(c, w) == Report(c, w, [b \in DOMAIN Txn(c) |-> "refused"])

\* The pack is indexed; a bad or too large one is refused.
Ingest(c, w) ==
    /\ At(c, w, "ingest")
    /\ \/ /\ run' = [run EXCEPT ![c][w].pc = "connectivity",
                                ![c][w].has = stored \cup push[c].objs]
          /\ UNCHANGED <<told, hop>>
       \/ RefusalReport(c, w)
    /\ UNCHANGED <<tipOf, stored, doc, push, landed>>

\* Checked only when the push brought objects.
CheckConnectivity(c, w) ==
    /\ At(c, w, "connectivity")
    /\ IF push[c].objs = {} \/ check_connectivity({Txn(c)[b].new : b \in DOMAIN Txn(c)}, run[c][w].has)
       THEN /\ run' = [run EXCEPT ![c][w].pc = "policy"]
            /\ UNCHANGED <<told, hop>>
       ELSE RefusalReport(c, w)
    /\ UNCHANGED <<tipOf, stored, doc, push, landed>>

\* Mutant: an update is forced when the tip the copy has now is not an ancestor.
Forced_LocalTip(c, b, has) == ~is_ancestor(tipOf[b], Txn(c)[b].new, has)
\* An update is forced when the old value the client names is not an ancestor.
Forced(c, b, has) == ~is_ancestor(Txn(c)[b].old, Txn(c)[b].new, has)

Denied(c, has) ==
    {b \in DOMAIN Txn(c) : deny_reason(doc, push[c].who, b, Txn(c)[b], Forced(c, b, has))}

\* policy::load and evaluate; an atomic push with a denied ref publishes nothing
\* and reports the others ok.
Evaluate(c, w) ==
    /\ At(c, w, "policy")
    /\ LET denied == Denied(c, run[c][w].has)
           nothing == denied = DOMAIN Txn(c) \/ (push[c].atomic /\ denied # {})
       IN IF nothing
          THEN Report(c, w, [b \in DOMAIN Txn(c) |-> IF b \in denied THEN "refused" ELSE "ok"])
          ELSE /\ run' = [run EXCEPT ![c][w].pc = "publish", ![c][w].rules = doc,
                                     ![c][w].denied = denied]
               /\ UNCHANGED <<told, hop>>
    /\ UNCHANGED <<tipOf, stored, doc, push, landed>>

\* Mutant: the report keeps the policy's verdicts when the publish refuses.
Verdicts_PolicyOnly(c, w, published) ==
    [b \in DOMAIN Txn(c) |-> IF b \in run[c][w].denied THEN "refused" ELSE "ok"]
\* Verdicts of the policy, overwritten by those of the publish.
Verdicts(c, w, published) ==
    [b \in DOMAIN Txn(c) |-> IF b \in run[c][w].denied \/ ~published THEN "refused" ELSE "ok"]

\* Why a request ends without verdicts: the answer is an error, not a report.
Errors(c) == [b \in DOMAIN Txn(c) |-> "error"]

\* publish_push_synced: every old value is the tip, or nothing is committed; the
\* process may end between the commit and the report.
PublishPush(c, w) ==
    /\ At(c, w, "publish")
    /\ LET refs == DOMAIN Txn(c) \ run[c][w].denied
           ok == \A b \in refs : Txn(c)[b].old = tipOf[b]
       IN \/ /\ ok
             /\ landed' = Append(landed, [client |-> c, refs |-> refs, was |-> tipOf,
                                          rules |-> run[c][w].rules])
             /\ tipOf' = [b \in Names |-> IF b \in refs THEN Txn(c)[b].new ELSE tipOf[b]]
             /\ stored' = stored \cup push[c].objs
             /\ \/ Report(c, w, Verdicts(c, w, TRUE))
                \/ Report(c, w, Errors(c))
          \/ /\ ~ok
             /\ Report(c, w, Verdicts(c, w, FALSE))
             /\ UNCHANGED <<tipOf, stored, landed>>
    /\ UNCHANGED <<doc, push>>

\* The publish gives up without committing, or the process ends.
RunFails(c, w) ==
    /\ run[c][w].pc \notin {"none", "done"}
    /\ Report(c, w, Errors(c))
    /\ UNCHANGED <<tipOf, stored, doc, push, landed>>

-----------------------------------------------------------------------------
ReceiveNext ==
    \/ \E rules \in Policies : PutPolicy(rules)
    \/ \E c \in Clients :
          \/ RefusePush(c) \/ AcceptPush(c) \/ BrokerReceives(c) \/ ForwardFails(c)
          \/ \E w \in Where : \/ Ingest(c, w) \/ CheckConnectivity(c, w) \/ Evaluate(c, w)
                              \/ PublishPush(c, w) \/ RunFails(c, w)

ReceiveSpec == ReceiveInit /\ [][ReceiveNext]_receiveVars

LandedBy(c, b) == \E k \in DOMAIN landed : landed[k].client = c /\ b \in landed[k].refs

\* What git is told is what happened (smart.rs:1490-1537, forward.rs): a ref
\* reported ok landed, unless an atomic push was held back by another ref, which
\* git reports; a refused one did not, unless the broker's answer was lost.
ReportTrue ==
    \A c \in Clients : \A b \in DOMAIN told[c] :
        /\ told[c][b] = "ok" =>
              \/ LandedBy(c, b)
              \/ push[c].atomic /\ \E o \in DOMAIN told[c] : told[c][o] = "refused"
        /\ told[c][b] = "refused" => ~LandedBy(c, b) \/ hop[c] = "given up"

\* No update lands that the rules read for it forbid, judged by the tip it
\* really replaced, however tips and rules move between the check and the
\* commit (smart.rs:1474-1513); and an atomic push lands whole.
PushesGuarded ==
    \A k \in DOMAIN landed :
        LET e == landed[k] IN
        /\ \A b \in e.refs :
              LET u == [old |-> e.was[b], new |-> Txn(e.client)[b].new] IN
              ~deny_reason(e.rules, push[e.client].who, b, u, u.old \notin ancestry[u.new])
        /\ push[e.client].atomic => e.refs = DOMAIN Txn(e.client)

\* No request lands twice, whatever becomes of its hop.
LandsOnce == \A j, k \in DOMAIN landed : landed[j].client = landed[k].client => j = k

\* Every tip's objects are stored.
TipsStored == \A b \in Names : ancestry[tipOf[b]] \subseteq stored
=============================================================================
