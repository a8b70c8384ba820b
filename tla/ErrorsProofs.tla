---------------------------- MODULE ErrorsProofs ----------------------------
(***************************************************************************)
(* What classify of errors.go returns for a failed gRPC call, in the form  *)
(* in which the proofs about listeners and submissions use it.             *)
(***************************************************************************)
EXTENDS Errors, TLAPS

LEMMA FailureFields ==
  ASSUME NEW code
  PROVE  /\ Failure(code).type = "status" /\ Failure(code).code = code /\ Failure(code).cause = "none"
         /\ Failure(code).msg = NoMessage /\ Failure(code).details = <<>>
BY DEF Failure, StatusErr

\* Nothing is found where there is nothing to look at.
LEMMA FailureIsNotChaincode ==
  ASSUME NEW code, NEW strict
  PROVE  chaincodeKind(code, NoMessage, <<>>, strict) = "nil"
<1>1. SelectInSeq(<<>> \o <<>>, ParseOK) = 0
  BY DEF SelectInSeq
<1>2. SelectInSeq(<<>> \o <<>>, IsResponse) = 0
  BY DEF SelectInSeq
<1>3. SelectInSeq(<<>>, LAMBDA m : legacyKind(m) # "nil") = 0
  BY DEF SelectInSeq
<1> QED BY <1>1, <1>2, <1>3 DEF chaincodeKind

\* A plain failure becomes the network error of its phase, with the
\* transaction ID of the call.
LEMMA ClassifyFailure ==
  ASSUME NEW code, NEW t, NEW ph, NEW strict
  PROVE  classify(Failure(code), t, ph, strict) = [networkError(code, ph) EXCEPT !.TxID = t]
<1>1. statusCode(Failure(code)) = code
  BY FailureFields DEF statusCode
<1>2. classify(Failure(code), t, ph, strict) = classifyStatus(Failure(code), t, ph, strict)
  BY FailureFields DEF classify
<1> QED BY <1>1, <1>2, FailureFields, FailureIsNotChaincode DEF classifyStatus

\* kindFromCode never invents an application error.
LEMMA KindFromCode ==
  ASSUME NEW code, NEW ph
  PROVE  kindFromCode(code, ph) \in
           {"invalid_argument", "unauthorized", "not_found", "timeout", "canceled",
            "unavailable", "failed_precondition", "endorsement", "internal"}
BY DEF kindFromCode

\* While a proposal is evaluated or endorsed, nothing has reached the orderer:
\* the error is definite.
LEMMA EvaluateFailure ==
  \A code, t, strict :
    /\ classify(Failure(code), t, "evaluate", strict).Kind = kindFromCode(code, "evaluate")
    /\ classify(Failure(code), t, "evaluate", strict).TxID = t
    /\ classify(Failure(code), t, "evaluate", strict).OutcomeUnknown = FALSE
<1> TAKE code, t, strict
<1>1. networkError(code, "evaluate") = newError(kindFromCode(code, "evaluate"), "network")
  BY DEF networkError
<1>2. classify(Failure(code), t, "evaluate", strict)
        = [newError(kindFromCode(code, "evaluate"), "network") EXCEPT !.TxID = t]
  BY <1>1, ClassifyFailure
<1> QED BY <1>2 DEF newError

LEMMA EndorseFailure ==
  \A code, t, strict :
    /\ classify(Failure(code), t, "endorse", strict).Kind = kindFromCode(code, "endorse")
    /\ classify(Failure(code), t, "endorse", strict).TxID = t
    /\ classify(Failure(code), t, "endorse", strict).OutcomeUnknown = FALSE
<1> TAKE code, t, strict
<1>1. networkError(code, "endorse") = newError(kindFromCode(code, "endorse"), "network")
  BY DEF networkError
<1>2. classify(Failure(code), t, "endorse", strict)
        = [newError(kindFromCode(code, "endorse"), "network") EXCEPT !.TxID = t]
  BY <1>1, ClassifyFailure
<1> QED BY <1>2 DEF newError

\* While it is submitted, the error is definite only for an answer that says
\* nothing was ordered.
LEMMA SubmitRejected ==
  \A code \in RejectedBeforeOrdering : \A t, strict :
    /\ classify(Failure(code), t, "submit", strict).Kind = "submit"
    /\ classify(Failure(code), t, "submit", strict).TxID = t
    /\ classify(Failure(code), t, "submit", strict).OutcomeUnknown = FALSE
<1> TAKE code \in RejectedBeforeOrdering
<1> TAKE t, strict
<1>1. networkError(code, "submit") = newError("submit", "network")
  BY DEF networkError
<1>2. classify(Failure(code), t, "submit", strict) = [newError("submit", "network") EXCEPT !.TxID = t]
  BY <1>1, ClassifyFailure
<1> QED BY <1>2 DEF newError

LEMMA SubmitOpen ==
  \A code, t, strict :
    code \notin RejectedBeforeOrdering =>
    /\ classify(Failure(code), t, "submit", strict).Kind = "outcome_unknown"
    /\ classify(Failure(code), t, "submit", strict).TxID = t
    /\ classify(Failure(code), t, "submit", strict).OutcomeUnknown = TRUE
<1> TAKE code, t, strict
<1> HAVE code \notin RejectedBeforeOrdering
<1>1. networkError(code, "submit") = outcomeUnknown
  BY DEF networkError
<1>2. classify(Failure(code), t, "submit", strict) = [outcomeUnknown EXCEPT !.TxID = t]
  BY <1>1, ClassifyFailure
<1> QED BY <1>2 DEF outcomeUnknown, newError

\* Once the orderer accepted it, every failed status query leaves it open.
LEMMA CommitStatusFailure ==
  \A code, t, strict :
    /\ classify(Failure(code), t, "commitStatus", strict).Kind = "outcome_unknown"
    /\ classify(Failure(code), t, "commitStatus", strict).TxID = t
    /\ classify(Failure(code), t, "commitStatus", strict).OutcomeUnknown = TRUE
<1> TAKE code, t, strict
<1>1. networkError(code, "commitStatus") = outcomeUnknown
  BY DEF networkError
<1>2. classify(Failure(code), t, "commitStatus", strict) = [outcomeUnknown EXCEPT !.TxID = t]
  BY <1>1, ClassifyFailure
<1> QED BY <1>2 DEF outcomeUnknown, newError

\* A commit failure is definite and names the transaction.
LEMMA CommitFailureFields ==
  \A t, vc :
    /\ commitFailure(t, vc).Kind \in {"conflict", "commit_failed"}
    /\ commitFailure(t, vc).TxID = t /\ commitFailure(t, vc).OutcomeUnknown = FALSE
BY DEF commitFailure, newError

\* An endorser's answer that begins with a ccerr code is the Kind of that code.
LEMMA CodedFailure ==
  \A cc \in KnownCodes : \A t, strict :
    /\ classify(Refusal(cc), t, "endorse", strict).Kind = ccKind[cc]
    /\ classify(Refusal(cc), t, "endorse", strict).TxID = t
    /\ classify(Refusal(cc), t, "endorse", strict).OutcomeUnknown = FALSE
<1> TAKE cc \in KnownCodes
<1> TAKE t, strict
<1> DEFINE m == Message(FALSE, FALSE, cc, FALSE, {})
           err == Refusal(cc)
           cands == <<m>> \o <<>>
<1>1. cands = <<m>> /\ Len(cands) = 1 /\ cands[1] = m
  OBVIOUS
<1>2. ParseOK(m) /\ m.head = cc
  BY DEF ParseOK, Message
<1>3. SelectInSeq(cands, ParseOK) = 1
  <2>1. {i \in 1..Len(cands) : ParseOK(cands[i])} = {1}
    <3> HIDE DEF cands, m
    <3> QED BY <1>1, <1>2
  <2>2. Min({1}) = 1
    BY DEF Min
  <2> HIDE DEF cands
  <2> QED BY <2>1, <2>2 DEF SelectInSeq
<1>4. chaincodeKind("Aborted", NoMessage, <<m>>, strict) = ccKind[cc]
  <2> HIDE DEF m
  <2> QED BY <1>1, <1>2, <1>3 DEF chaincodeKind
<1>5. ccKind[cc] # "nil"
  BY DEF ccKind, KnownCodes
<1>6. err.type = "status" /\ err.code = "Aborted" /\ err.msg = NoMessage /\ err.details = <<m>>
  BY DEF StatusErr, Refusal
<1>7. classify(err, t, "endorse", strict) = [newError(ccKind[cc], "chaincode") EXCEPT !.TxID = t]
  <2> HIDE DEF err, m
  <2>1. statusCode(err) = "Aborted"
    BY <1>6 DEF statusCode
  <2>2. classify(err, t, "endorse", strict) = classifyStatus(err, t, "endorse", strict)
    BY <1>6 DEF classify
  <2> QED BY <1>4, <1>5, <1>6, <2>1, <2>2 DEF classifyStatus
<1>8. /\ classify(err, t, "endorse", strict).Kind = ccKind[cc]
      /\ classify(err, t, "endorse", strict).TxID = t
      /\ classify(err, t, "endorse", strict).OutcomeUnknown = FALSE
  <2> HIDE DEF err
  <2> QED BY <1>7 DEF newError
<1> QED BY <1>8
=============================================================================
