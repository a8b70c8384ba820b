-------------------------- MODULE MCClassification --------------------------
(***************************************************************************)
(* Classification with one text for every way the code can read one.       *)
(***************************************************************************)
EXTENDS Classification

MCTexts == {
  \* "NOT_FOUND: ..." and "chaincode response 409, CONFLICT: ..."
  Message(FALSE, FALSE, "NOT_FOUND", FALSE, {}),
  Message(FALSE, TRUE, "CONFLICT", FALSE, {}),
  \* the same behind "evaluate call to endorser returned error: "
  Message(TRUE, FALSE, "UNAUTHORIZED", FALSE, {}),
  \* "chaincode response 500, x already exists, y not found" and one without keywords
  Message(FALSE, TRUE, "nil", FALSE, {"already_exists", "not_found"}),
  Message(TRUE, TRUE, "nil", FALSE, {}),
  \* a keyword, a keyword in the peer's own wording, and neither
  Message(FALSE, FALSE, "nil", FALSE, {"conflict"}),
  Message(FALSE, FALSE, "chaincode", TRUE, {"not_found"}),
  Message(FALSE, FALSE, "nil", FALSE, {})}
=============================================================================
