-------------------------- MODULE MCBlockListener --------------------------
(***************************************************************************)
(* BlockListener with the bounds of its .cfg file.                         *)
(***************************************************************************)
EXTENDS BlockListener
=============================================================================
