------------------------- MODULE MCTransactionPool -------------------------
(***************************************************************************)
(* Two coins.  a has two outputs; b spends one; c spends the other and is  *)
(* a double spend of d, which also forms a contract that r and s revise;   *)
(* e joins the families of b and d; x has no objects.                      *)
(***************************************************************************)
EXTENDS TransactionPool, TLC

CONSTANTS a, b, c, d, e, r, s, x

T(ins, outs, forms, revises, number, fee) ==
    [ins |-> ins, outs |-> outs, forms |-> forms, revises |-> revises, number |-> number, fee |-> fee]
MCTxnOf ==
    a :> T({"o1"}, {"a1", "a2"}, {}, {}, 0, 0) @@
    b :> T({"a1"}, {"b1"}, {}, {}, 0, 2) @@
    c :> T({"a2", "o2"}, {"c1"}, {}, {}, 0, 2) @@
    d :> T({"o2"}, {"d1"}, {"k"}, {}, 0, 0) @@
    e :> T({"b1", "d1"}, {"e1"}, {}, {}, 0, 4) @@
    r :> T({}, {}, {}, {"k"}, 1, 2) @@
    s :> T({}, {}, {}, {"k"}, 2, 1) @@
    x :> T({}, {}, {}, {}, 0, 1)
MCSets == {<<a>>, <<b>>, <<b, c>>, <<d>>, <<e>>, <<a, b>>, <<d, r>>, <<s>>, <<x, d>>, <<x>>}
MCBlockTxns == {<<>>, <<a>>, <<b>>, <<a, c>>, <<d, r>>, <<a, b>>, <<d, x>>, <<s>>}
B(n, blocks) == [revert |-> n, blocks |-> blocks]
MCBranches ==
    {B(1, << <<>>, <<a, c>> >>), B(1, << <<>>, <<>> >>), B(1, << <<d, r>>, <<>> >>), B(1, << <<a>>, <<b>> >>),
     B(2, << <<>>, <<d>>, <<a>> >>), B(2, << <<>> >>)}
Budget(changes, submits, faults) == [changes |-> changes, submits |-> submits, faults |-> faults]
MCBudgets == {Budget(1, 3, 0), Budget(3, 1, 0), Budget(2, 2, 0), Budget(2, 1, 1)}
MCFeeAt(n) == n \div 2
=============================================================================
