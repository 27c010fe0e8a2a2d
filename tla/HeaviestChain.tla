--------------------------- MODULE HeaviestChain ---------------------------
(***************************************************************************)
(* What a node promises about its current block: the committed tip only    *)
(* ever moves to a block that is fully valid and sufficiently heavier than *)
(* the tip it replaces.  How the node gets there (reverting, applying,     *)
(* rolling back, crashing) is not visible here; ForkChoice implements it.  *)
(***************************************************************************)
CONSTANTS Genesis,           \* the genesis block
          FullyValid,        \* blocks valid together with all their ancestors
          Heavier(_, _)      \* Heavier(b, c): b is sufficiently heavier than c

VARIABLE tip

Init == tip = Genesis

Extend(b) == Heavier(b, tip) /\ tip' = b

Next == \E b \in FullyValid : Extend(b)

Spec == Init /\ [][Next]_tip
=============================================================================
