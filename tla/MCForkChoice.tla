---------------------------- MODULE MCForkChoice ----------------------------
(***************************************************************************)
(* A small block tree for TLC.  Depths are multiples of one fifth of a     *)
(* block's difficulty, so that the surpass threshold is met exactly (b2    *)
(* against a2), missed and passed.                                         *)
(*                                                                         *)
(*   g - a1 - a2 - a3        the chain of usual difficulty                 *)
(*     |    \ x2 - x3        x2 breaks a consensus rule                    *)
(*     \ b1 - b2 - b3        b2 arrives early; b3 carries more work        *)
(*     \ c1 - c2             a short chain with much work                  *)
(***************************************************************************)
EXTENDS ForkChoice

CONSTANTS g, a1, a2, a3, b1, b2, b3, c1, c2, x2, x3

MCTree == {g, a1, a2, a3, b1, b2, b3, c1, c2, x2, x3}
MCTreeLive == {g, a1, a2, a3, b1, b2, x2}

Parents == [b \in {a1, a2, a3, b1, b2, b3, c1, c2, x2, x3} |->
    CASE b \in {a1, b1, c1} -> g
      [] b \in {a2, x2} -> a1
      [] b = a3 -> a2
      [] b = x3 -> x2
      [] b = b2 -> b1
      [] b = b3 -> b2
      [] b = c2 -> c1]

MCParent == [b \in Block \ {g} |-> Parents[b]]

MCHeight == [b \in Block |->
    CASE b = g -> 0 [] b \in {a1, b1, c1} -> 1 [] b \in {a2, b2, c2, x2} -> 2 [] OTHER -> 3]

MCDifficulty == [b \in Block |->
    CASE b = b1 -> 6 [] b = b2 -> 9 [] b = c1 -> 20 [] OTHER -> 5]

MCDepth == [b \in Block |->
    CASE b = g -> 0 [] b \in {a1, b1, c1} -> 5 [] b \in {a2, x2} -> 10
      [] b = b2 -> 11 [] b = b3 -> 20 [] b = c2 -> 25 [] OTHER -> 15]

MCValid == Block \ {x2}
MCFullyValid == Block \ {x2, x3}

MCBatches ==
    {<<b>> : b \in Block} \cup
    (Seq(Block) \cap {<<a1, a2, a3>>, <<a1, x2>>, <<b1, b2, b3>>, <<c1, c2>>, <<a1, b2>>})

=============================================================================
