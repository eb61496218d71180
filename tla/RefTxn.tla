------------------------------- MODULE RefTxn -------------------------------
(***************************************************************************)
(* Ref transactions and what replaying them does to a set of refs.         *)
(*                                                                         *)
(* A set of refs is a function from ref names to object ids, NoOid where   *)
(* the ref does not exist.  A transaction is a function from the refs it   *)
(* touches to records [old, new]; old = Unchecked stands for a symbolic    *)
(* update (HEAD -> target), which verify_txn lets through.  Deleting a ref *)
(* is new = NoOid.                                                         *)
(***************************************************************************)
EXTENDS Integers

CONSTANTS
    Refs,       \* ref names
    Oids,       \* object ids a ref can hold
    NoOid,      \* the empty or all-zero id: "does not exist"
    Unchecked   \* the old value of a symbolic update

RefValues == Oids \cup {NoOid}

RefMaps == [Refs -> RefValues]

Txns == UNION {[S -> [old : RefValues \cup {Unchecked}, new : RefValues]] :
                  S \in SUBSET Refs}

NoRefs == [r \in Refs |-> NoOid]

\* The transaction as a whole is valid: every update's old value is the
\* working value (the null id: the ref must not exist).
VerifyTxn(txn, refs) ==
    \A r \in DOMAIN txn : txn[r].old = Unchecked \/ txn[r].old = refs[r]

ApplyTxn(txn, refs) ==
    [r \in Refs |-> IF r \in DOMAIN txn THEN txn[r].new ELSE refs[r]]

\* Entries of the log that write r: entry[s] is the transaction at s.
Writers(r, seqs, entry) == {s \in seqs : r \in DOMAIN entry[s]}

LastOf(S) == CHOOSE s \in S : \A t \in S : t <= s

\* Replaying the transactions at seqs over refs.  The updates are merged in
\* seq order and written once, so each ref ends with its last writer's value.
Replay(refs, seqs, entry) ==
    [r \in Refs |-> LET W == Writers(r, seqs, entry)
                    IN  IF W = {} THEN refs[r] ELSE entry[LastOf(W)][r].new]

\* The refs a log defines: the replay of all of it from nothing.
Fold(seqs, entry) == Replay(NoRefs, seqs, entry)
=============================================================================
