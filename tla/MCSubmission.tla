---------------------------- MODULE MCSubmission ----------------------------
(***************************************************************************)
(* Submission with the bounds of the .cfg files.                           *)
(***************************************************************************)
EXTENDS Submission
=============================================================================
