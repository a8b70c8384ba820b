--------------------------- MODULE Classification ---------------------------
(***************************************************************************)
(* How a failed gateway call becomes an *Error (classify of errors.go).    *)
(*                                                                         *)
(* Endorsing peers answer in any order; the gateway folds their answers    *)
(* into the details of one status error; the SDK reads a Kind out of it.   *)
(* Each error is classified both with and without StrictErrorCodes, so     *)
(* that the two answers can be compared.                                   *)
(***************************************************************************)
EXTENDS Errors, FiniteSets

CONSTANTS
  Texts,      \* the messages a peer or the gateway may answer with
  FailCodes,  \* the gRPC codes of failed calls
  MaxPeers    \* bound on the peers whose answers are in the details

ASSUME TextsAssumption ==
  Texts \subseteq [wrapped : BOOLEAN, resp : BOOLEAN, head : STRING, peerSide : BOOLEAN,
                   words : SUBSET Kinds]
ASSUME CodesAssumption == FailCodes \subseteq Codes
ASSUME PeersAssumption == MaxPeers \in Nat

VARIABLES
  stage,    \* asking, failed or classified
  ph,       \* the phase of the call
  details,  \* the answers of the peers so far
  err,      \* the error of the gateway call
  got       \* the *Error, without and with StrictErrorCodes

vars == <<stage, ph, details, err, got>>

\* The transaction ID of the call.
Tx == 1

Nothing == newError("internal", "sdk")

Begin(p) ==
  /\ stage' = "asking" /\ ph' = p /\ details' = <<>>
  /\ err' = Failure("Unknown")
  /\ got' = [lenient |-> Nothing, strict |-> Nothing]

Init ==
  /\ stage = "asking" /\ ph \in Phases /\ details = <<>>
  /\ err = Failure("Unknown")
  /\ got = [lenient |-> Nothing, strict |-> Nothing]

-----------------------------------------------------------------------------
\* A peer refuses the proposal; the gateway adds its answer to the details.
PeerAnswers ==
  /\ stage = "asking" /\ Len(details) < MaxPeers
  /\ ph \in {"evaluate", "endorse"}
  /\ \E m \in Texts : details' = Append(details, m)
  /\ UNCHANGED <<stage, ph, err, got>>

\* The gateway call returns a status error, perhaps wrapping a context error.
CallFails ==
  /\ stage = "asking"
  /\ \E code \in FailCodes, cause \in {"none", "canceled", "deadline"},
        msg \in Texts \cup {NoMessage} :
       err' = StatusErr(code, cause, msg, details)
  /\ stage' = "failed"
  /\ UNCHANGED <<ph, details, got>>

\* The error is an *Error already: the client is closed.
CallRefused ==
  /\ stage = "asking" /\ ph = "evaluate" /\ details = <<>>
  /\ err' = SDKErr(configError)
  /\ stage' = "failed"
  /\ UNCHANGED <<ph, details, got>>

\* The error is a CommitError of the gateway.
CommitInvalid ==
  /\ stage = "asking" /\ ph = "commitStatus"
  /\ \E vc \in ValidationCodes \ {"VALID"} : err' = CommitErr(Tx, vc)
  /\ stage' = "failed"
  /\ UNCHANGED <<ph, details, got>>

Classify ==
  /\ stage = "failed"
  /\ got' = [lenient |-> classify(err, Tx, ph, FALSE), strict |-> classify(err, Tx, ph, TRUE)]
  /\ stage' = "classified"
  /\ UNCHANGED <<ph, details, err>>

NextCall ==
  /\ stage = "classified"
  /\ \E p \in Phases : Begin(p)

Next == PeerAnswers \/ CallFails \/ CallRefused \/ CommitInvalid \/ Classify \/ NextCall

Spec == Init /\ [][Next]_vars
-----------------------------------------------------------------------------
(***************************************************************************)
(* Correctness.                                                            *)
(***************************************************************************)
Answers == {got.lenient, got.strict}

\* The texts of the error, in no particular order.
TextsOf(e) == {e.details[i] : i \in DOMAIN e.details} \cup {[e.msg EXCEPT !.wrapped = FALSE]}

\* A status error that chaincode may have caused.
FromEndorser ==
  /\ stage = "classified" /\ err.type = "status"
  /\ ph \in {"evaluate", "endorse"} /\ statusCode(err) \in {"Aborted", "Unknown"}

\* A ccerr code prefix is authoritative: whoever answered first and whatever the
\* texts without a code say, the Kind is that of a code one of the peers sent. Of
\* two different codes chaincodeError takes the first.
CodePrefixWins ==
  LET coded == {m \in TextsOf(err) : ~m.wrapped /\ m.head \in KnownCodes}
  IN  FromEndorser /\ coded # {} =>
        \A e \in Answers : e.Source = "chaincode" /\ e.Kind \in {ccKind[m.head] : m \in coded}

\* StrictErrorCodes only takes guesses away: where it changes the answer, the
\* answer was a keyword match, and what is left is the unspecific Kind.
StrictOnlyForgets ==
  stage = "classified" /\ got.strict # got.lenient =>
    /\ FromEndorser
    /\ \E m \in TextsOf(err) : got.lenient.Kind \in m.words /\ ~m.peerSide
    /\ got.strict.Kind \in {"chaincode", "endorsement"}

\* A text with one of peerSidePhrases is no chaincode error, though it has a keyword
\* of legacyKind too. Without a phrase ("chaincode basic not found") the keyword
\* decides, and the property says nothing.
PeerTextNotChaincode ==
  FromEndorser /\ (\A m \in TextsOf(err) : m.head \notin KnownCodes /\ ~m.resp
                                            /\ (m.peerSide \/ m.words = {})) =>
    \A e \in Answers : e.Source = "network" /\ e.Kind = "endorsement"
=============================================================================
