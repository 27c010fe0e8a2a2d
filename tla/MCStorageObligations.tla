------------------------ MODULE MCStorageObligations ------------------------
(***************************************************************************)
(* One contract and its renewal, with one sector, for TLC.                 *)
(***************************************************************************)
EXTENDS StorageObligations

CONSTANTS a, b, s

MCWindowStart == [o \in {a, b} |-> IF o = a THEN 2 ELSE 3]
MCWindowEnd == [o \in {a, b} |-> IF o = a THEN 4 ELSE 5]
=============================================================================
