---------------------------- MODULE MCWalPublish ----------------------------
(* WalPublish on two instances and a handful of pushes.                    *)
EXTENDS WalPublish, TLC

CONSTANTS i1, i2, p1, p2, p3, x, y, main, dev

Update(old, new) == [old |-> old, new |-> new]

\* p1 creates main; p2 moves it on and creates dev; p3 also creates main.
MCTxnOf == [p \in Pushes |->
    CASE p = p1 -> main :> Update(NoOid, x)
      [] p = p2 -> (main :> Update(x, y)) @@ (dev :> Update(NoOid, x))
      [] OTHER  -> main :> Update(NoOid, y)]

Symmetry == Permutations(Instances)
=============================================================================
