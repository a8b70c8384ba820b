--------------------------- MODULE MCEventListener ---------------------------
(***************************************************************************)
(* Small ledgers for EventListener: the first two events share a block, so *)
(* that a resume inside a block differs from one at a block boundary.      *)
(***************************************************************************)
EXTENDS EventListener

MCBlock == <<1, 1, 2>>
MCBlockFour == <<1, 2, 2, 3>>
MCNextCommit == -1
MCNegative == -2
=============================================================================
