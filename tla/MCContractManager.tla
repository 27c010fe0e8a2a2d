------------------------- MODULE MCContractManager -------------------------
(***************************************************************************)
(* Three sectors and two folders of one or two words of two slots.         *)
(***************************************************************************)
EXTENDS ContractManager

CONSTANTS a, b, c, f1, f2, t1, t2

At(folder, i, n) == [folder |-> folder, index |-> i, count |-> n]
MCLayouts ==
  {[words |-> [x \in Folder |-> IF x = f1 THEN 2 ELSE 1], loc |-> (a :> At(f1, 3, 1) @@ b :> At(f1, 2, 1))],
   [words |-> [x \in Folder |-> IF x = f1 THEN 1 ELSE 0], loc |-> (a :> At(f1, 1, 1) @@ b :> At(f1, 0, 2))]}
MCSymmetry == Permutations({t1, t2})
=============================================================================
