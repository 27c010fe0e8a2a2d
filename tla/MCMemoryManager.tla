-------------------------- MODULE MCMemoryManager --------------------------
(***************************************************************************)
(* MemoryManager for TLC.  No symmetry: the run also checks liveness.      *)
(***************************************************************************)
EXTENDS MemoryManager
=============================================================================
