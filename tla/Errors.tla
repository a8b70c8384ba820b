------------------------------- MODULE Errors -------------------------------
(***************************************************************************)
(* The typed error model of fabricsdk: errors.go and ccerr/ccerr.go.       *)
(*                                                                         *)
(* classify turns whatever a fabric-gateway call returned into an *Error   *)
(* with a Kind, a Source, an HTTP-style Code, a TxID and OutcomeUnknown.   *)
(* Message texts are abstracted to what the code looks for in them:        *)
(*   wrapped   starts with "evaluate call to endorser returned error: "    *)
(*   resp      then starts with "chaincode response NNN, "                 *)
(*   head      the word before the first colon of what follows, or "nil"   *)
(*   peerSide  contains one of peerSidePhrases                             *)
(*   words     the Kinds whose v0.1 fallback keywords it contains          *)
(***************************************************************************)
EXTENDS Naturals, Sequences, SequencesExt

\* Transaction IDs are numbers; 0 is the empty one.
NoTxID == 0

KnownCodes == {"INVALID_ARGUMENT", "NOT_FOUND", "ALREADY_EXISTS", "CONFLICT",
               "UNAUTHORIZED", "FAILED_PRECONDITION"}

\* The HTTP-style code suggested for each Kind; its domain is the set of Kinds.
kindCode ==
  [invalid_argument |-> 400, not_found |-> 404, already_exists |-> 409,
   conflict |-> 409, unauthorized |-> 403, failed_precondition |-> 422,
   chaincode |-> 400, endorsement |-> 502, submit |-> 502,
   commit_failed |-> 500, outcome_unknown |-> 504, timeout |-> 504,
   unavailable |-> 503, canceled |-> 499, config |-> 500, internal |-> 500]

Kinds == DOMAIN kindCode

ccKind ==
  [INVALID_ARGUMENT |-> "invalid_argument", NOT_FOUND |-> "not_found",
   ALREADY_EXISTS |-> "already_exists", CONFLICT |-> "conflict",
   UNAUTHORIZED |-> "unauthorized", FAILED_PRECONDITION |-> "failed_precondition"]

Sources == {"sdk", "chaincode", "network"}

Phases == {"evaluate", "endorse", "submit", "commitStatus"}

\* gRPC status codes of a failed call.
Codes == {"Canceled", "Unknown", "InvalidArgument", "DeadlineExceeded",
          "NotFound", "AlreadyExists", "PermissionDenied", "ResourceExhausted",
          "FailedPrecondition", "Aborted", "OutOfRange", "Unimplemented",
          "Internal", "Unavailable", "DataLoss", "Unauthenticated"}

\* Validation codes the classification tells apart.
ConflictCodes   == {"MVCC_READ_CONFLICT", "PHANTOM_READ_CONFLICT"}
ValidationCodes == {"VALID", "ENDORSEMENT_POLICY_FAILURE"} \cup ConflictCodes

newError(kind, source) ==
  [Kind |-> kind, Source |-> source, Code |-> kindCode[kind], TxID |-> NoTxID,
   ValidationCode |-> "VALID", OutcomeUnknown |-> FALSE]

configError == newError("config", "sdk")

Retryable(e) ==
  /\ ~e.OutcomeUnknown
  /\ e.Kind \in {"conflict", "unavailable", "timeout", "endorsement", "submit"}

(***************************************************************************)
(* The three forms in which an error reaches classify.                     *)
(***************************************************************************)
SDKErr(e)         == [type |-> "sdk", e |-> e]
CommitErr(tx, vc) == [type |-> "commit", tx |-> tx, vc |-> vc]
\* cause: the context error the chain of causes contains, if any.
StatusErr(code, cause, msg, details) ==
  [type |-> "status", code |-> code, cause |-> cause, msg |-> msg, details |-> details]

Message(wrapped, resp, head, peerSide, words) ==
  [wrapped |-> wrapped, resp |-> resp, head |-> head, peerSide |-> peerSide, words |-> words]

\* The empty text.
NoMessage == Message(FALSE, FALSE, "nil", FALSE, {})

\* A failed call whose error carries neither text nor details.
Failure(code) == StatusErr(code, "none", NoMessage, <<>>)

\* The answer of an endorser whose chaincode returned a ccerr error.
Refusal(cc) == StatusErr("Aborted", "none", NoMessage, <<Message(FALSE, FALSE, cc, FALSE, {})>>)

(***************************************************************************)
(* Chaincode errors.                                                       *)
(***************************************************************************)

\* Mutant: the prefix is not stripped.
MutPrefixKept(m) == ~m.wrapped /\ ~m.resp /\ m.head \in KnownCodes

\* ccerr.Parse strips the response prefix and accepts a known code as head.
ParseOK(m) == ~m.wrapped /\ m.head \in KnownCodes

IsResponse(m) == ~m.wrapped /\ m.resp

\* Mutant: the peer's own wording is not skipped.
MutPeerWordingRead(m) ==
  LET order == <<"conflict", "already_exists", "not_found", "unauthorized">>
      first == SelectInSeq(order, LAMBDA k : k \in m.words)
  IN  IF first = 0 THEN "nil" ELSE order[first]

\* The keyword fallback: the first Kind whose keywords the text contains, "nil" when
\* there is none or the text is peer-side wording.
legacyKind(m) ==
  LET order == <<"conflict", "already_exists", "not_found", "unauthorized">>
      first == SelectInSeq(order, LAMBDA k : k \in m.words)
  IN  IF m.peerSide \/ first = 0 THEN "nil" ELSE order[first]

\* chaincodeError: the Kind of the chaincode error found, "nil" for nil.
chaincodeKind(code, msg, details, strict) ==
  LET candidates == details \o (IF msg = NoMessage THEN <<>>
                                ELSE <<[msg EXCEPT !.wrapped = FALSE]>>)
      coded  == SelectInSeq(candidates, ParseOK)
      resp   == SelectInSeq(candidates, IsResponse)
      worded == SelectInSeq(details, LAMBDA m : legacyKind(m) # "nil")
  IN  IF code \notin {"Aborted", "Unknown"} THEN "nil"
      ELSE IF coded # 0 THEN ccKind[candidates[coded].head]
      ELSE IF resp # 0 THEN
             IF ~strict /\ legacyKind(candidates[resp]) # "nil"
             THEN legacyKind(candidates[resp]) ELSE "chaincode"
      ELSE IF ~strict /\ worded # 0 THEN legacyKind(details[worded])
      ELSE "nil"

(***************************************************************************)
(* Network errors.                                                         *)
(***************************************************************************)
kindFromCode(code, ph) ==
  CASE code = "InvalidArgument"                          -> "invalid_argument"
    [] code \in {"PermissionDenied", "Unauthenticated"}  -> "unauthorized"
    [] code = "NotFound"                                 -> "not_found"
    [] code = "DeadlineExceeded"                         -> "timeout"
    [] code = "Canceled"                                 -> "canceled"
    [] code = "Unavailable"                              -> "unavailable"
    [] code = "FailedPrecondition"                       -> "failed_precondition"
    [] code \in {"Aborted", "Unknown"} /\ ph \in {"endorse", "evaluate"}
                                                         -> "endorsement"
    [] OTHER                                             -> "internal"

\* Mutant: an unreachable orderer is taken for one that refused.
MutUnavailableRejected == {"InvalidArgument", "FailedPrecondition", "Aborted", "Unavailable"}

\* Submit answers that say the transaction was refused before ordering.
RejectedBeforeOrdering == {"InvalidArgument", "FailedPrecondition", "Aborted"}

outcomeUnknown == [newError("outcome_unknown", "network") EXCEPT !.OutcomeUnknown = TRUE]

\* Mutant: a failed status query is classified like a failed proposal.
MutStatusByCode(code, ph) ==
  CASE ph = "submit" /\ code \in RejectedBeforeOrdering -> newError("submit", "network")
    [] ph = "submit" /\ code \notin RejectedBeforeOrdering -> outcomeUnknown
    [] OTHER -> newError(kindFromCode(code, ph), "network")

\* Mutant: a code that kindFromCode does not list leaves the Kind empty.
MutKindEmpty(code, ph) ==
  CASE ph = "commitStatus" -> outcomeUnknown
    [] ph = "submit" /\ code \in RejectedBeforeOrdering -> newError("submit", "network")
    [] ph = "submit" /\ code \notin RejectedBeforeOrdering -> outcomeUnknown
    [] OTHER -> LET e == newError(kindFromCode(code, ph), "network")
                IN  IF e.Kind = "internal" THEN [e EXCEPT !.Kind = "", !.Code = 0] ELSE e

networkError(code, ph) ==
  CASE ph = "commitStatus" -> outcomeUnknown
    [] ph = "submit" /\ code \in RejectedBeforeOrdering -> newError("submit", "network")
    [] ph = "submit" /\ code \notin RejectedBeforeOrdering -> outcomeUnknown
    [] OTHER -> newError(kindFromCode(code, ph), "network")

\* A context error raised before any RPC has no status and gets its own code.
statusCode(err) ==
  IF err.code # "Unknown" \/ err.cause = "none" THEN err.code
  ELSE IF err.cause = "canceled" THEN "Canceled" ELSE "DeadlineExceeded"

commitFailure(txID, vc) ==
  [newError(IF vc \in ConflictCodes THEN "conflict" ELSE "commit_failed", "network")
     EXCEPT !.TxID = txID, !.ValidationCode = vc]

\* Mutants: the transaction ID is forgotten; strict mode skips coded errors too.
MutTxIDForgotten(err, txID, ph, strict) == networkError(statusCode(err), ph)

MutStrictSkipsCodes(err, txID, ph, strict) ==
  LET code == statusCode(err)
      cc   == IF ~strict /\ ph \in {"evaluate", "endorse"}
              THEN chaincodeKind(code, err.msg, err.details, strict) ELSE "nil"
  IN  [(IF cc # "nil" THEN newError(cc, "chaincode") ELSE networkError(code, ph))
         EXCEPT !.TxID = txID]

classifyStatus(err, txID, ph, strict) ==
  LET code == statusCode(err)
      cc   == IF ph \in {"evaluate", "endorse"}
              THEN chaincodeKind(code, err.msg, err.details, strict) ELSE "nil"
  IN  [(IF cc # "nil" THEN newError(cc, "chaincode") ELSE networkError(code, ph))
         EXCEPT !.TxID = txID]

classify(err, txID, ph, strict) ==
  CASE err.type = "sdk"    -> err.e
    [] err.type = "commit" -> commitFailure(err.tx, err.vc)
    [] OTHER               -> classifyStatus(err, txID, ph, strict)

=============================================================================
