------------------------------ MODULE MCMiner ------------------------------
(***************************************************************************)
(* Five transactions; b spends a, and the pool holds both as one set.  Not *)
(* all of them fit into a block.                                           *)
(***************************************************************************)
EXTENDS Miner

CONSTANTS a, b, c, d, z

T(size, fee, spends) == [size |-> size, fee |-> fee, spends |-> spends]
MCTxnOf == a :> T(1, 1, {}) @@ b :> T(3, 11, {a}) @@ c :> T(2, 4, {}) @@ d :> T(1, 5, {}) @@ z :> T(3, 9, {})
MCPoolSets == {<<a>>, <<a, b>>, <<b>>, <<c>>, <<d>>, <<z>>}
Branch(n, blocks) == [revert |-> n, blocks |-> blocks]
MCBranches ==
    {Branch(0, << <<a>> >>), Branch(0, << <<c, d>> >>), Branch(1, << <<>>, <<d>> >>)}
Budget(changes, submits, headers, solved, faults) ==
    [changes |-> changes, submits |-> submits, headers |-> headers, solved |-> solved, faults |-> faults]
MCBudgets ==
    {Budget(1, 4, 0, 0, 0), Budget(2, 1, 3, 0, 0), Budget(0, 0, 6, 0, 0), Budget(1, 1, 1, 1, 0),
     Budget(0, 1, 2, 2, 0), Budget(1, 1, 0, 1, 1), Budget(1, 2, 0, 0, 2)}
=============================================================================
