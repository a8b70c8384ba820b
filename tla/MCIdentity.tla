----------------------------- MODULE MCIdentity -----------------------------
(***************************************************************************)
(* Identity shared by two goroutines.                                      *)
(***************************************************************************)
EXTENDS Identity
=============================================================================
