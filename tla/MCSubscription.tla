--------------------------- MODULE MCSubscription ---------------------------
(***************************************************************************)
(* Subscription for TLC.  No symmetry: the run also checks liveness.       *)
(***************************************************************************)
EXTENDS Subscription
=============================================================================
