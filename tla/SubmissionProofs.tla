-------------------------- MODULE SubmissionProofs --------------------------
(***************************************************************************)
(* Proofs about Submission, for every number of attempts and crashes, with *)
(* the keyword fallback on or off.                                         *)
(***************************************************************************)
EXTENDS Submission, ErrorsProofs

-----------------------------------------------------------------------------
(***************************************************************************)
(* The inductive invariant.                                                *)
(***************************************************************************)

\* The current attempt cannot take effect any more.
Settled == tx = 0 \/ fate[tx] \in Dead

\* The error in the caller's hands says that the current attempt is open.
Open == tx \in Txs /\ out.OutcomeUnknown = TRUE /\ out.TxID = tx

\* Nothing happened to transactions that were not proposed yet.
Fresh == \A t \in Txs : t > tx => fate[t] = "none"

\* Each phase of a call has a transaction, and before the submit it is untouched.
Attempt ==
  /\ pc \in {"endorse", "submit"} => tx \in Txs /\ fate[tx] = "none"
  /\ pc \in {"store", "wait", "resolve"} => tx \in Txs

\* The outbox holds the current transaction or nothing, and nothing while a new
\* attempt is under way.
Outbox ==
  /\ stored \in {0, tx}
  /\ pc \in {"idle", "endorse", "submit"} => stored = 0

\* Without a crash, a new attempt begins only once all earlier ones are settled.
Earlier ==
  crashes = 0 => /\ \A t \in Txs : t < tx => fate[t] \in Dead
                 /\ pc = "idle" => Settled

\* What the error of a call promises.
Answer ==
  pc = "decide" =>
    /\ Settled \/ Open \/ (stored = 0 /\ crashes # 0)
    /\ out.OutcomeUnknown = TRUE => Open
    /\ out.Kind = "already_exists" => \E t \in Txs : IsValid(t)

\* What a verdict promises.
Verdict ==
  /\ (verdict = "none") <=> (pc # "done")
  /\ verdict = "committed" => \E t \in Txs : IsValid(t)
  /\ FailureIsDefinite

CallInv == Fresh /\ Attempt /\ Outbox /\ Earlier /\ Answer /\ Verdict

IInv == TypeOK /\ CallInv

-----------------------------------------------------------------------------
(***************************************************************************)
(* The errors of the three phases.                                         *)
(***************************************************************************)
LEMMA KindNames ==
  Kinds = {"invalid_argument", "not_found", "already_exists", "conflict", "unauthorized",
           "failed_precondition", "chaincode", "endorsement", "submit", "commit_failed",
           "outcome_unknown", "timeout", "unavailable", "canceled", "config", "internal"}
BY DEF Kinds, kindCode

\* A failed endorsement is definite, and ALREADY_EXISTS is the ledger's word.
LEMMA EndorseError ==
  \A err \in EndorseErrors :
    /\ classify(err, tx, "endorse", Strict).Kind \in Kinds
    /\ classify(err, tx, "endorse", Strict).TxID = tx
    /\ classify(err, tx, "endorse", Strict).OutcomeUnknown = FALSE
    /\ classify(err, tx, "endorse", Strict).Kind = "already_exists" => \E t \in Txs : IsValid(t)
<1> TAKE err \in EndorseErrors
<1>1. CASE \E c \in Codes : err = Failure(c)
  <2>1. PICK c \in Codes : err = Failure(c)
    BY <1>1
  <2>2. /\ classify(err, tx, "endorse", Strict).Kind = kindFromCode(c, "endorse")
        /\ classify(err, tx, "endorse", Strict).TxID = tx
        /\ classify(err, tx, "endorse", Strict).OutcomeUnknown = FALSE
    BY <2>1, EndorseFailure
  <2>3. kindFromCode(c, "endorse") \in Kinds \ {"already_exists"}
    BY KindFromCode, KindNames
  <2> QED BY <2>2, <2>3
<1>2. ASSUME NEW cc \in {"CONFLICT", "INVALID_ARGUMENT", "ALREADY_EXISTS"}, err = Refusal(cc),
             cc = "ALREADY_EXISTS" => \E t \in Txs : IsValid(t)
      PROVE  /\ classify(err, tx, "endorse", Strict).Kind \in Kinds
             /\ classify(err, tx, "endorse", Strict).TxID = tx
             /\ classify(err, tx, "endorse", Strict).OutcomeUnknown = FALSE
             /\ classify(err, tx, "endorse", Strict).Kind = "already_exists"
                  => \E t \in Txs : IsValid(t)
  <2>1. cc \in KnownCodes
    BY DEF KnownCodes
  <2>2. /\ classify(err, tx, "endorse", Strict).Kind = ccKind[cc]
        /\ classify(err, tx, "endorse", Strict).TxID = tx
        /\ classify(err, tx, "endorse", Strict).OutcomeUnknown = FALSE
    BY <1>2, <2>1, CodedFailure
  <2>3. ccKind[cc] \in Kinds /\ (ccKind[cc] = "already_exists" => cc = "ALREADY_EXISTS")
    BY KindNames DEF ccKind
  <2> QED BY <1>2, <2>2, <2>3
<1>3. \/ \E c \in Codes : err = Failure(c)
      \/ err = Refusal("CONFLICT") \/ err = Refusal("INVALID_ARGUMENT")
      \/ err = Refusal("ALREADY_EXISTS") /\ \E t \in Txs : IsValid(t)
  BY DEF EndorseErrors
<1>4. CASE err = Refusal("CONFLICT")
  BY <1>2, <1>4
<1>5. CASE err = Refusal("INVALID_ARGUMENT")
  BY <1>2, <1>5
<1>6. CASE err = Refusal("ALREADY_EXISTS") /\ \E t \in Txs : IsValid(t)
  BY <1>2, <1>6
<1> QED BY <1>1, <1>3, <1>4, <1>5, <1>6

\* A failed submit is definite exactly when the orderer refused.
LEMMA SubmitError ==
  \A code \in Codes :
    /\ classify(Failure(code), tx, "submit", Strict).Kind \in {"submit", "outcome_unknown"}
    /\ classify(Failure(code), tx, "submit", Strict).TxID = tx
    /\ classify(Failure(code), tx, "submit", Strict).OutcomeUnknown \in BOOLEAN
    /\ code \notin RefusedByOrderer
         => classify(Failure(code), tx, "submit", Strict).OutcomeUnknown = TRUE
    /\ code \in RefusedByOrderer
         => classify(Failure(code), tx, "submit", Strict).OutcomeUnknown = FALSE
<1> TAKE code \in Codes
<1>1. RefusedByOrderer = RejectedBeforeOrdering
  BY DEF RefusedByOrderer, RejectedBeforeOrdering
<1>2. CASE code \in RejectedBeforeOrdering
  <2>1. /\ classify(Failure(code), tx, "submit", Strict).Kind = "submit"
        /\ classify(Failure(code), tx, "submit", Strict).TxID = tx
        /\ classify(Failure(code), tx, "submit", Strict).OutcomeUnknown = FALSE
    BY <1>2, SubmitRejected
  <2> QED BY <1>1, <1>2, <2>1
<1>3. CASE code \notin RejectedBeforeOrdering
  <2>1. /\ classify(Failure(code), tx, "submit", Strict).Kind = "outcome_unknown"
        /\ classify(Failure(code), tx, "submit", Strict).TxID = tx
        /\ classify(Failure(code), tx, "submit", Strict).OutcomeUnknown = TRUE
    BY <1>3, SubmitOpen
  <2> QED BY <1>1, <1>3, <2>1
<1> QED BY <1>2, <1>3

\* A failed status query of Wait leaves the transaction open.
LEMMA WaitError ==
  \A code \in Codes :
    /\ classify(Failure(code), tx, "commitStatus", TRUE).Kind = "outcome_unknown"
    /\ classify(Failure(code), tx, "commitStatus", TRUE).TxID = tx
    /\ classify(Failure(code), tx, "commitStatus", TRUE).OutcomeUnknown = TRUE
BY CommitStatusFailure

LEMMA QueryError ==
  \A code \in Codes :
    /\ classify(Failure(code), NoTxID, "evaluate", TRUE).Kind \in Kinds
    /\ classify(Failure(code), NoTxID, "evaluate", TRUE).TxID = 0
    /\ classify(Failure(code), NoTxID, "evaluate", TRUE).OutcomeUnknown = FALSE
<1> TAKE code \in Codes
<1>1. /\ classify(Failure(code), NoTxID, "evaluate", TRUE).Kind = kindFromCode(code, "evaluate")
      /\ classify(Failure(code), NoTxID, "evaluate", TRUE).TxID = NoTxID
      /\ classify(Failure(code), NoTxID, "evaluate", TRUE).OutcomeUnknown = FALSE
  BY EvaluateFailure
<1>2. kindFromCode(code, "evaluate") \in Kinds
  BY KindFromCode, KindNames
<1> QED BY <1>1, <1>2 DEF NoTxID

LEMMA NoErrorFields ==
  /\ NoError.Kind = "nil" /\ NoError.TxID = 0
  /\ configError.Kind = "config" /\ configError.TxID = 0
BY DEF NoError, configError, newError, NoTxID

LEMMA NoErrorOutcome ==
  NoError.OutcomeUnknown = FALSE /\ configError.OutcomeUnknown = FALSE
BY DEF NoError, configError, newError

LEMMA CommitFailureIsTyped ==
  \A t, vc : commitFailure(t, vc).Kind \in Kinds /\ commitFailure(t, vc).TxID = t
BY CommitFailureFields, KindNames

LEMMA CommitFailureKind == \A t, vc : commitFailure(t, vc).Kind # "already_exists"
BY CommitFailureFields

LEMMA CommitFailureOutcome == \A t, vc : commitFailure(t, vc).OutcomeUnknown = FALSE
BY CommitFailureFields

LEMMA FateFacts ==
  /\ "none" \in Dead /\ "lost" \in Dead /\ "none" \in Fates /\ "lost" \in Fates
  /\ "flight" \in Fates /\ "ordered" \in Fates /\ "VALID" \in Fates
  /\ "flight" \notin Dead /\ "ordered" \notin Dead /\ "VALID" \notin Dead
  /\ \A vc \in ValidationCodes : vc \in Fates /\ (vc # "VALID" => vc \in Dead)
  /\ Committed = ValidationCodes
BY DEF Dead, Fates, Committed, ValidationCodes, ConflictCodes

-----------------------------------------------------------------------------
(***************************************************************************)
(* Type correctness.                                                       *)
(***************************************************************************)
LEMMA TypeInit == Init => TypeOK
<1> SUFFICES ASSUME Init PROVE TypeOK
  OBVIOUS
<1>1. OutOK
  <2>1. out.OutcomeUnknown \in BOOLEAN
    BY NoErrorOutcome DEF Init
  <2> QED BY <2>1, SubmissionAssumption, NoErrorFields DEF Init, OutOK
<1>2. closed \in BOOLEAN
  BY DEF Init
<1> QED BY <1>1, <1>2, SubmissionAssumption, FateFacts DEF Init, TypeOK, Txs

LEMMA TypeStep == TypeOK /\ [Next]_vars => TypeOK'
<1> SUFFICES ASSUME TypeOK, [Next]_vars PROVE TypeOK'
  OBVIOUS
<1> USE SubmissionAssumption DEF TypeOK, Txs
<1>1. CASE ProposeRefused
  <2>1. (out.OutcomeUnknown \in BOOLEAN)'
    BY <1>1, NoErrorOutcome DEF ProposeRefused, Fail, OutOK
  <2>2. (out.Kind \in Kinds \cup {"nil"} /\ out.TxID \in 0..MaxAttempts)'
    BY <1>1, NoErrorFields, KindNames DEF ProposeRefused, Fail, OutOK
  <2>3. OutOK'
    BY <2>1, <2>2 DEF OutOK
  <2> QED BY <2>3, <1>1 DEF ProposeRefused, Fail
<1>2. CASE Propose
  <2>1. (out.OutcomeUnknown \in BOOLEAN)'
    BY <1>2, NoErrorOutcome DEF Propose, OutOK
  <2>2. (out.Kind \in Kinds \cup {"nil"} /\ out.TxID \in 0..MaxAttempts)'
    BY <1>2, NoErrorFields DEF Propose, OutOK
  <2>3. OutOK'
    BY <2>1, <2>2 DEF OutOK
  <2> QED BY <2>3, <1>2 DEF Propose
<1>3. CASE EndorseOK
  BY <1>3, FateFacts DEF EndorseOK, OutOK
<1>4. CASE EndorseFails
  <2>1. (out.OutcomeUnknown \in BOOLEAN)'
    BY <1>4, EndorseError DEF EndorseFails, Fail, OutOK
  <2>2. (out.Kind \in Kinds \cup {"nil"} /\ out.TxID \in 0..MaxAttempts)'
    BY <1>4, EndorseError, KindNames DEF EndorseFails, Fail, OutOK
  <2>3. OutOK'
    BY <2>1, <2>2 DEF OutOK
  <2> QED BY <2>3, <1>4, FateFacts DEF EndorseFails, Fail
<1>5. CASE SubmitOK
  BY <1>5, FateFacts DEF SubmitOK, OutOK
<1>6. CASE SubmitFails
  <2>1. (out.OutcomeUnknown \in BOOLEAN)'
    BY <1>6, SubmitError DEF SubmitFails, Fail, OutOK
  <2>2. (out.Kind \in Kinds \cup {"nil"} /\ out.TxID \in 0..MaxAttempts)'
    BY <1>6, SubmitError, KindNames DEF SubmitFails, Fail, OutOK
  <2>3. OutOK'
    BY <2>1, <2>2 DEF OutOK
  <2> QED BY <2>3, <1>6, FateFacts DEF SubmitFails, Fail
<1>7. CASE WaitKnown
  <2>0. out' = out \/ out' = commitFailure(tx, fate[tx])
    BY <1>7 DEF WaitKnown, Fail
  <2>1. (out.OutcomeUnknown \in BOOLEAN)'
    <3>1. CASE out' = out
      BY <3>1 DEF OutOK
    <3>2. CASE out' = commitFailure(tx, fate[tx])
      BY <3>2, CommitFailureOutcome
    <3> QED BY <2>0, <3>1, <3>2
  <2>2. (out.Kind \in Kinds \cup {"nil"} /\ out.TxID \in 0..MaxAttempts)'
    BY <1>7, CommitFailureIsTyped DEF WaitKnown, Fail, OutOK
  <2>3. OutOK'
    BY <2>1, <2>2 DEF OutOK
  <2> QED BY <2>3, <1>7, FateFacts DEF WaitKnown, Fail
<1>8. CASE WaitFails
  <2>1. (out.OutcomeUnknown \in BOOLEAN)'
    BY <1>8, WaitError DEF WaitFails, Fail, OutOK
  <2>2. (out.Kind \in Kinds \cup {"nil"} /\ out.TxID \in 0..MaxAttempts)'
    BY <1>8, WaitError, KindNames DEF WaitFails, Fail, OutOK
  <2>3. OutOK'
    BY <2>1, <2>2 DEF OutOK
  <2> QED BY <2>3, <1>8 DEF WaitFails, Fail
<1>9. CASE StatusFound
  <2>0. out' = out \/ out' = commitFailure(tx, fate[tx])
    BY <1>9 DEF StatusFound, Fail
  <2>1. (out.OutcomeUnknown \in BOOLEAN)'
    <3>1. CASE out' = out
      BY <3>1 DEF OutOK
    <3>2. CASE out' = commitFailure(tx, fate[tx])
      BY <3>2, CommitFailureOutcome
    <3> QED BY <2>0, <3>1, <3>2
  <2>2. (out.Kind \in Kinds \cup {"nil"} /\ out.TxID \in 0..MaxAttempts)'
    BY <1>9, CommitFailureIsTyped DEF StatusFound, Fail, OutOK
  <2>3. OutOK'
    BY <2>1, <2>2 DEF OutOK
  <2> QED BY <2>3, <1>9, FateFacts DEF StatusFound, Fail
<1>10. CASE StatusNotFound
  <2>1. (out.OutcomeUnknown \in BOOLEAN)'
    BY <1>10, NoErrorOutcome DEF StatusNotFound, OutOK
  <2>2. (out.Kind \in Kinds \cup {"nil"} /\ out.TxID \in 0..MaxAttempts)'
    BY <1>10, NoErrorFields DEF StatusNotFound, OutOK
  <2>3. OutOK'
    BY <2>1, <2>2 DEF OutOK
  <2> QED BY <2>3, <1>10 DEF StatusNotFound
<1>11. CASE StatusFails
  <2>0. out' = configError \/ \E code \in Codes : out' = classify(Failure(code), NoTxID, "evaluate", TRUE)
    BY <1>11 DEF StatusFails
  <2>4. (out.Kind \in Kinds /\ out.TxID = 0)'
    <3>1. CASE out' = configError
      BY <3>1, NoErrorFields, KindNames
    <3> QED BY <2>0, <3>1, QueryError
  <2>1. (out.OutcomeUnknown \in BOOLEAN)'
    BY <1>11, QueryError, NoErrorOutcome DEF StatusFails, OutOK
  <2>2. (out.Kind \in Kinds \cup {"nil"} /\ out.TxID \in 0..MaxAttempts)'
    BY <2>4 DEF StatusFails, OutOK
  <2>3. OutOK'
    BY <2>1, <2>2 DEF OutOK
  <2> QED BY <2>3, <1>11 DEF StatusFails
<1>12. CASE Store
  BY <1>12 DEF Store, OutOK
<1>13. CASE Decide
  BY <1>13 DEF Decide, OutOK
<1>14. CASE WaitAgain
  BY <1>14 DEF WaitAgain, OutOK
<1>15. CASE Crash
  <2>1. (out.OutcomeUnknown \in BOOLEAN)'
    BY <1>15, NoErrorOutcome DEF Crash, OutOK
  <2>2. (out.Kind \in Kinds \cup {"nil"} /\ out.TxID \in 0..MaxAttempts)'
    BY <1>15, NoErrorFields DEF Crash, OutOK
  <2>3. OutOK'
    BY <2>1, <2>2 DEF OutOK
  <2>4. (closed \in BOOLEAN)'
    BY <1>15 DEF Crash
  <2> QED BY <2>3, <1>15, <2>4 DEF Crash
<1>16. CASE CloseClient
  BY <1>16 DEF CloseClient, callVars, OutOK
<1>17. ASSUME NEW t \in Txs, Order(t) PROVE TypeOK'
  BY <1>17, FateFacts DEF Order, callVars, OutOK
<1>18. ASSUME NEW t \in Txs, Lose(t) PROVE TypeOK'
  BY <1>18, FateFacts DEF Lose, callVars, OutOK
<1>19. ASSUME NEW t \in Txs, Validate(t) PROVE TypeOK'
  BY <1>19, FateFacts DEF Validate, callVars, OutOK
<1>20. CASE UNCHANGED vars
  BY <1>20 DEF vars, callVars, OutOK
<1> QED BY <1>1, <1>2, <1>3, <1>4, <1>5, <1>6, <1>7, <1>8, <1>9, <1>10, <1>11, <1>12, <1>13, <1>14, <1>15, <1>16, <1>17, <1>18, <1>19, <1>20 DEF Next, SDKStep

\* Every variable of the submission keeps its type (contract.go, errors.go), for
\* every bound.
THEOREM SubmissionTypeCorrect == Spec => []TypeOK
<1> QED BY TypeInit, TypeStep, PTL DEF Spec

-----------------------------------------------------------------------------
(***************************************************************************)
(* The invariant is inductive.                                             *)
(***************************************************************************)
LEMMA CallInit == Init => CallInv
<1> SUFFICES ASSUME Init PROVE CallInv
  OBVIOUS
<1> USE SubmissionAssumption DEF Init
<1>1. Fresh /\ Attempt /\ Outbox
  BY DEF Fresh, Attempt, Outbox
<1>2. Earlier
  BY FateFacts DEF Earlier, Settled
<1>3. Answer /\ Verdict
  BY DEF Answer, Verdict, FailureIsDefinite
<1> QED BY <1>1, <1>2, <1>3 DEF CallInv

\* Steps of the channel touch neither what is settled nor what is valid.
LEMMA ChannelStep ==
  ASSUME IInv, UNCHANGED <<callVars, stored, crashes>>,
         \A u \in Txs : fate[u] \in Dead \cup {"VALID"} => fate'[u] = fate[u]
  PROVE  CallInv'
<1> USE SubmissionAssumption DEF IInv, CallInv, callVars
<1>1. Settled => Settled'
  BY DEF Settled, TypeOK, Txs
<1>2. Open => Open'
  BY DEF Open
<1>3. (\E t \in Txs : IsValid(t)) => (\E t \in Txs : IsValid(t))'
  BY DEF IsValid
<1>4. Fresh' /\ Attempt' /\ Outbox'
  BY FateFacts DEF Fresh, Attempt, Outbox
<1>5. Earlier'
  BY <1>1 DEF Earlier
<1>6. Answer'
  BY <1>1, <1>2, <1>3 DEF Answer
<1>7. Verdict'
  BY <1>3 DEF Verdict, FailureIsDefinite
<1> QED BY <1>4, <1>5, <1>6, <1>7

LEMMA CallStep == IInv /\ [Next]_vars => CallInv'
<1> SUFFICES ASSUME IInv, [Next]_vars PROVE CallInv'
  OBVIOUS
<1> USE SubmissionAssumption DEF IInv, CallInv
<1>1. CASE ProposeRefused
  <2>1. Fresh'
    BY <1>1 DEF ProposeRefused, Fail, Fresh, TypeOK, Txs
  <2>2. Attempt'
    BY <1>1 DEF ProposeRefused, Fail, Attempt, TypeOK, Txs
  <2>3. Outbox'
    BY <1>1 DEF ProposeRefused, Fail, Outbox, TypeOK, Txs
  <2>4. Earlier'
    BY <1>1, FateFacts DEF ProposeRefused, Fail, Earlier, Settled, TypeOK, Txs
  <2>5. Answer'
    <3>1. out' = configError /\ UNCHANGED <<tx, fate, stored, crashes>> /\ pc = "idle"
      BY <1>1 DEF ProposeRefused, Fail
    <3>2. Settled \/ crashes # 0
      BY <3>1 DEF Earlier
    <3>3. Settled' \/ (stored = 0 /\ crashes # 0)'
      BY <3>1, <3>2 DEF Settled, Outbox
    <3>4. (out.OutcomeUnknown)' = FALSE
      BY <3>1, NoErrorOutcome
    <3>5. (out.Kind)' # "already_exists"
      BY <3>1, NoErrorFields
    <3> QED BY <3>3, <3>4, <3>5 DEF Answer
  <2>6. Verdict'
    BY <1>1 DEF ProposeRefused, Fail, Verdict, FailureIsDefinite, TypeOK, Txs, IsValid
  <2> QED BY <2>1, <2>2, <2>3, <2>4, <2>5, <2>6
<1>2. CASE Propose
  <2>1. Fresh'
    BY <1>2 DEF Propose, Fresh, TypeOK, Txs
  <2>2. Attempt'
    BY <1>2 DEF Propose, Attempt, Fresh, TypeOK, Txs
  <2>3. Outbox'
    BY <1>2 DEF Propose, Outbox, TypeOK, Txs
  <2>4. Earlier'
    BY <1>2, FateFacts DEF Propose, Earlier, Settled, TypeOK, Txs
  <2>5. Answer'
    BY <1>2 DEF Propose, Answer, Settled, Open, TypeOK, Txs, IsValid
  <2>6. Verdict'
    BY <1>2 DEF Propose, Verdict, FailureIsDefinite, TypeOK, Txs, IsValid
  <2> QED BY <2>1, <2>2, <2>3, <2>4, <2>5, <2>6
<1>3. CASE EndorseOK
  <2>1. Fresh'
    BY <1>3, FateFacts DEF EndorseOK, Fresh, TypeOK, Txs
  <2>2. Attempt'
    BY <1>3, FateFacts DEF EndorseOK, Attempt, TypeOK, Txs
  <2>3. Outbox'
    BY <1>3, FateFacts DEF EndorseOK, Outbox, TypeOK, Txs
  <2>4. Earlier'
    BY <1>3, FateFacts DEF EndorseOK, Earlier, Settled, TypeOK, Txs
  <2>5. Answer'
    BY <1>3, FateFacts DEF EndorseOK, Answer, Settled, Open, TypeOK, Txs, IsValid
  <2>6. Verdict'
    BY <1>3, FateFacts DEF EndorseOK, Verdict, FailureIsDefinite, TypeOK, Txs, IsValid
  <2> QED BY <2>1, <2>2, <2>3, <2>4, <2>5, <2>6
<1>4. CASE EndorseFails
  <2>1. Fresh'
    BY <1>4, FateFacts DEF EndorseFails, Fail, Fresh, TypeOK, Txs
  <2>2. Attempt'
    BY <1>4, FateFacts DEF EndorseFails, Fail, Attempt, TypeOK, Txs
  <2>3. Outbox'
    BY <1>4, FateFacts DEF EndorseFails, Fail, Outbox, TypeOK, Txs
  <2>4. Earlier'
    BY <1>4, FateFacts DEF EndorseFails, Fail, Earlier, Settled, TypeOK, Txs
  <2>5. Answer'
    <3>1. PICK err \in EndorseErrors : out' = classify(err, tx, "endorse", Strict)
      BY <1>4 DEF EndorseFails, Fail
    <3>2. UNCHANGED <<tx, fate>> /\ pc = "endorse"
      BY <1>4 DEF EndorseFails
    <3>3. Settled'
      BY <3>2, FateFacts DEF Settled, Attempt
    <3>4. (out.OutcomeUnknown)' = FALSE
      BY <3>1, EndorseError
    <3>5. (out.Kind)' = "already_exists" => \E t \in Txs : IsValid(t)
      BY <3>1, EndorseError
    <3>6. (\E t \in Txs : IsValid(t)) => (\E t \in Txs : IsValid(t))'
      BY <3>2 DEF IsValid
    <3> QED BY <3>3, <3>4, <3>5, <3>6 DEF Answer
  <2>6. Verdict'
    BY <1>4, FateFacts DEF EndorseFails, Fail, Verdict, FailureIsDefinite, TypeOK, Txs, IsValid
  <2> QED BY <2>1, <2>2, <2>3, <2>4, <2>5, <2>6
<1>5. CASE SubmitOK
  <2>1. Fresh'
    BY <1>5, FateFacts DEF SubmitOK, Fresh, TypeOK, Txs
  <2>2. Attempt'
    BY <1>5, FateFacts DEF SubmitOK, Attempt, TypeOK, Txs
  <2>3. Outbox'
    BY <1>5, FateFacts DEF SubmitOK, Outbox, TypeOK, Txs
  <2>4. Earlier'
    BY <1>5, FateFacts DEF SubmitOK, Earlier, Settled, TypeOK, Txs
  <2>5. Answer'
    BY <1>5, FateFacts DEF SubmitOK, Answer, Settled, Open, TypeOK, Txs, IsValid
  <2>6. Verdict'
    BY <1>5, FateFacts DEF SubmitOK, Verdict, FailureIsDefinite, TypeOK, Txs, IsValid
  <2> QED BY <2>1, <2>2, <2>3, <2>4, <2>5, <2>6
<1>6. CASE SubmitFails
  <2>1. Fresh'
    BY <1>6, FateFacts DEF SubmitFails, Fail, Fresh, TypeOK, Txs
  <2>2. Attempt'
    BY <1>6, FateFacts DEF SubmitFails, Fail, Attempt, TypeOK, Txs
  <2>3. Outbox'
    BY <1>6, FateFacts DEF SubmitFails, Fail, Outbox, TypeOK, Txs
  <2>4. Earlier'
    BY <1>6, FateFacts DEF SubmitFails, Fail, Earlier, Settled, TypeOK, Txs
  <2>5. Answer'
    <3>1. PICK code \in Codes :
            /\ fate' = [fate EXCEPT ![tx] = IF code \in RefusedByOrderer THEN "lost" ELSE "flight"]
            /\ out' = classify(Failure(code), tx, "submit", Strict)
      BY <1>6 DEF SubmitFails, Fail
    <3>2. tx' = tx /\ tx \in Txs
      BY <1>6 DEF SubmitFails, Attempt
    <3>3. (out.Kind)' # "already_exists"
      BY <3>1, SubmitError
    <3>4. CASE code \in RefusedByOrderer
      <4>1. Settled'
        BY <3>1, <3>2, <3>4, FateFacts DEF Settled, TypeOK
      <4>2. (out.OutcomeUnknown)' = FALSE
        BY <3>1, <3>4, SubmitError
      <4> QED BY <3>3, <4>1, <4>2 DEF Answer
    <3>5. CASE code \notin RefusedByOrderer
      <4>1. (out.OutcomeUnknown)' = TRUE
        BY <3>1, <3>5, SubmitError
      <4>2. (out.TxID)' = tx
        BY <3>1, SubmitError
      <4>3. Open'
        BY <3>2, <4>1, <4>2 DEF Open
      <4> QED BY <3>3, <4>3 DEF Answer
    <3> QED BY <3>4, <3>5
  <2>6. Verdict'
    BY <1>6, FateFacts DEF SubmitFails, Fail, Verdict, FailureIsDefinite, TypeOK, Txs, IsValid
  <2> QED BY <2>1, <2>2, <2>3, <2>4, <2>5, <2>6
<1>7. CASE WaitKnown
  <2>1. Fresh'
    BY <1>7, FateFacts DEF WaitKnown, Fail, Fresh, TypeOK, Txs
  <2>2. Attempt'
    BY <1>7, FateFacts DEF WaitKnown, Fail, Attempt, TypeOK, Txs
  <2>3. Outbox'
    BY <1>7, FateFacts DEF WaitKnown, Fail, Outbox, TypeOK, Txs
  <2>4. Earlier'
    BY <1>7, FateFacts DEF WaitKnown, Fail, Earlier, Settled, TypeOK, Txs
  <2>5. Answer'
    BY <1>7, CommitFailureOutcome, CommitFailureKind, FateFacts DEF WaitKnown, Fail, Answer, Settled, Open, TypeOK, Txs, IsValid
  <2>6. Verdict'
    <3>1. CASE IsValid(tx)
      <4>1. UNCHANGED fate /\ verdict' = "committed" /\ pc' = "done" /\ tx \in Txs
        BY <1>7, <3>1 DEF WaitKnown, Attempt
      <4>2. (\E t \in Txs : IsValid(t))'
        BY <3>1, <4>1 DEF IsValid
      <4> QED BY <4>1, <4>2 DEF Verdict, FailureIsDefinite
    <3>2. CASE ~IsValid(tx)
      <4>1. UNCHANGED <<fate, verdict, crashes>> /\ pc' = "decide" /\ pc # "done"
        BY <1>7, <3>2 DEF WaitKnown, Fail
      <4> QED BY <4>1 DEF Verdict, FailureIsDefinite
    <3> QED BY <3>1, <3>2
  <2> QED BY <2>1, <2>2, <2>3, <2>4, <2>5, <2>6
<1>8. CASE WaitFails
  <2>1. Fresh'
    BY <1>8 DEF WaitFails, Fail, Fresh, TypeOK, Txs
  <2>2. Attempt'
    BY <1>8 DEF WaitFails, Fail, Attempt, TypeOK, Txs
  <2>3. Outbox'
    BY <1>8 DEF WaitFails, Fail, Outbox, TypeOK, Txs
  <2>4. Earlier'
    BY <1>8, FateFacts DEF WaitFails, Fail, Earlier, Settled, TypeOK, Txs
  <2>5. Answer'
    <3>1. PICK code \in Codes : out' = classify(Failure(code), tx, "commitStatus", TRUE)
      BY <1>8 DEF WaitFails, Fail
    <3>2. tx' = tx /\ tx \in Txs
      BY <1>8 DEF WaitFails, Attempt
    <3>3. (out.OutcomeUnknown)' = TRUE
      BY <3>1, WaitError
    <3>4. (out.TxID)' = tx /\ (out.Kind)' = "outcome_unknown"
      BY <3>1, WaitError
    <3>5. Open'
      BY <3>2, <3>3, <3>4 DEF Open
    <3> QED BY <3>4, <3>5 DEF Answer
  <2>6. Verdict'
    BY <1>8 DEF WaitFails, Fail, Verdict, FailureIsDefinite, TypeOK, Txs, IsValid
  <2> QED BY <2>1, <2>2, <2>3, <2>4, <2>5, <2>6
<1>9. CASE StatusFound
  <2>1. Fresh'
    BY <1>9, FateFacts DEF StatusFound, Fail, Fresh, TypeOK, Txs
  <2>2. Attempt'
    BY <1>9, FateFacts DEF StatusFound, Fail, Attempt, TypeOK, Txs
  <2>3. Outbox'
    BY <1>9, FateFacts DEF StatusFound, Fail, Outbox, TypeOK, Txs
  <2>4. Earlier'
    BY <1>9, FateFacts DEF StatusFound, Fail, Earlier, Settled, TypeOK, Txs
  <2>5. Answer'
    BY <1>9, CommitFailureOutcome, CommitFailureKind, FateFacts DEF StatusFound, Fail, Answer, Settled, Open, TypeOK, Txs, IsValid
  <2>6. Verdict'
    <3>1. CASE IsValid(tx)
      <4>1. UNCHANGED fate /\ verdict' = "committed" /\ pc' = "done" /\ tx \in Txs
        BY <1>9, <3>1 DEF StatusFound, Attempt
      <4>2. (\E t \in Txs : IsValid(t))'
        BY <3>1, <4>1 DEF IsValid
      <4> QED BY <4>1, <4>2 DEF Verdict, FailureIsDefinite
    <3>2. CASE ~IsValid(tx)
      <4>1. UNCHANGED <<fate, verdict, crashes>> /\ pc' = "decide" /\ pc # "done"
        BY <1>9, <3>2 DEF StatusFound, Fail
      <4> QED BY <4>1 DEF Verdict, FailureIsDefinite
    <3> QED BY <3>1, <3>2
  <2> QED BY <2>1, <2>2, <2>3, <2>4, <2>5, <2>6
<1>10. CASE StatusNotFound
  <2>1. Fresh'
    BY <1>10 DEF StatusNotFound, Fresh, TypeOK, Txs
  <2>2. Attempt'
    BY <1>10 DEF StatusNotFound, Attempt, TypeOK, Txs
  <2>3. Outbox'
    BY <1>10 DEF StatusNotFound, Outbox, TypeOK, Txs
  <2>4. Earlier'
    BY <1>10, FateFacts DEF StatusNotFound, Earlier, Settled, TypeOK, Txs
  <2>5. Answer'
    BY <1>10 DEF StatusNotFound, Answer, Settled, Open, TypeOK, Txs, IsValid
  <2>6. Verdict'
    BY <1>10 DEF StatusNotFound, Verdict, FailureIsDefinite, TypeOK, Txs, IsValid
  <2> QED BY <2>1, <2>2, <2>3, <2>4, <2>5, <2>6
<1>11. CASE StatusFails
  <2>1. Fresh'
    BY <1>11 DEF StatusFails, Fresh, TypeOK, Txs
  <2>2. Attempt'
    BY <1>11 DEF StatusFails, Attempt, TypeOK, Txs
  <2>3. Outbox'
    BY <1>11 DEF StatusFails, Outbox, TypeOK, Txs
  <2>4. Earlier'
    BY <1>11, FateFacts DEF StatusFails, Earlier, Settled, TypeOK, Txs
  <2>5. Answer'
    BY <1>11 DEF StatusFails, Answer, Settled, Open, TypeOK, Txs, IsValid
  <2>6. Verdict'
    BY <1>11 DEF StatusFails, Verdict, FailureIsDefinite, TypeOK, Txs, IsValid
  <2> QED BY <2>1, <2>2, <2>3, <2>4, <2>5, <2>6
<1>12. CASE Store
  <2>1. Fresh'
    BY <1>12 DEF Store, Fresh, TypeOK, Txs
  <2>2. Attempt'
    BY <1>12 DEF Store, Attempt, TypeOK, Txs
  <2>3. Outbox'
    BY <1>12 DEF Store, Outbox, TypeOK, Txs
  <2>4. Earlier'
    BY <1>12, FateFacts DEF Store, Earlier, Settled, TypeOK, Txs
  <2>5. Answer'
    BY <1>12 DEF Store, Answer, Settled, Open, TypeOK, Txs, IsValid
  <2>6. Verdict'
    BY <1>12 DEF Store, Verdict, FailureIsDefinite, TypeOK, Txs, IsValid
  <2> QED BY <2>1, <2>2, <2>3, <2>4, <2>5, <2>6
<1>13. CASE Decide
  <2> USE DEF Decide
  <2>1. UNCHANGED <<tx, fate, out, crashes>> /\ pc = "decide" /\ verdict = "none"
    BY <1>13 DEF Verdict
  <2>2. (\E t \in Txs : IsValid(t)) => (\E t \in Txs : IsValid(t))'
    BY <2>1 DEF IsValid
  <2>3. Fresh'
    BY <2>1 DEF Fresh
  <2>4. CASE out.Kind = "already_exists"
    <3>1. pc' = "done" /\ verdict' = "committed" /\ stored' = stored
      BY <1>13, <2>4
    <3>2. (\E t \in Txs : IsValid(t))'
      BY <2>1, <2>2, <2>4 DEF Answer
    <3>3. Attempt' /\ Outbox' /\ Answer'
      BY <2>1, <3>1 DEF Attempt, Outbox, Answer
    <3>4. Earlier'
      BY <2>1, <3>1 DEF Earlier
    <3>5. Verdict'
      BY <3>1, <3>2 DEF Verdict, FailureIsDefinite
    <3> QED BY <2>3, <3>3, <3>4, <3>5
  <2>5. CASE out.Kind # "already_exists" /\ out.OutcomeUnknown
    <3>1. pc' = "resolve" /\ stored' = out.TxID /\ verdict' = verdict
      BY <1>13, <2>5
    <3>2. out.OutcomeUnknown = TRUE
      BY <2>5 DEF TypeOK, OutOK
    <3>3. tx \in Txs /\ out.TxID = tx
      BY <2>1, <3>2 DEF Answer, Open
    <3>4. Attempt' /\ Outbox' /\ Answer'
      BY <2>1, <3>1, <3>3 DEF Attempt, Outbox, Answer
    <3>5. Earlier'
      BY <2>1, <3>1 DEF Earlier
    <3>6. Verdict'
      BY <2>1, <3>1 DEF Verdict, FailureIsDefinite
    <3> QED BY <2>3, <3>4, <3>5, <3>6
  <2>6. CASE out.Kind # "already_exists" /\ ~out.OutcomeUnknown
    <3>1. Settled \/ crashes # 0
      BY <2>1, <2>6 DEF Answer, Open
    <3>2. CASE pc' = "idle" /\ stored' = 0 /\ verdict' = verdict
      <4>1. Attempt' /\ Outbox' /\ Answer'
        BY <3>2 DEF Attempt, Outbox, Answer
      <4>2. Earlier'
        BY <2>1, <3>1 DEF Earlier, Settled
      <4>3. Verdict'
        BY <2>1, <3>2 DEF Verdict, FailureIsDefinite
      <4> QED BY <2>3, <4>1, <4>2, <4>3
    <3>3. CASE pc' = "done" /\ verdict' = "failed" /\ stored' = stored
      <4>1. Attempt' /\ Outbox' /\ Answer'
        BY <2>1, <3>3 DEF Attempt, Outbox, Answer
      <4>2. Earlier'
        BY <2>1, <3>3 DEF Earlier
      <4>3. crashes = 0 => \A t \in Txs : fate[t] \in Dead
        BY <3>1, FateFacts DEF Earlier, Fresh, Settled, TypeOK, Txs
      <4>4. Verdict'
        BY <2>1, <3>3, <4>3 DEF Verdict, FailureIsDefinite
      <4> QED BY <2>3, <4>1, <4>2, <4>4
    <3> QED BY <1>13, <2>6, <3>2, <3>3
  <2> QED BY <2>4, <2>5, <2>6
<1>14. CASE WaitAgain
  <2>1. Fresh'
    BY <1>14 DEF WaitAgain, Fresh, TypeOK, Txs
  <2>2. Attempt'
    BY <1>14 DEF WaitAgain, Attempt, TypeOK, Txs
  <2>3. Outbox'
    BY <1>14 DEF WaitAgain, Outbox, TypeOK, Txs
  <2>4. Earlier'
    BY <1>14, FateFacts DEF WaitAgain, Earlier, Settled, TypeOK, Txs
  <2>5. Answer'
    BY <1>14 DEF WaitAgain, Answer, Settled, Open, TypeOK, Txs, IsValid
  <2>6. Verdict'
    BY <1>14 DEF WaitAgain, Verdict, FailureIsDefinite, TypeOK, Txs, IsValid
  <2> QED BY <2>1, <2>2, <2>3, <2>4, <2>5, <2>6
<1>15. CASE Crash
  <2>1. Fresh'
    BY <1>15 DEF Crash, Fresh, TypeOK, Txs
  <2>2. Attempt'
    BY <1>15 DEF Crash, Attempt, Outbox, TypeOK, Txs
  <2>3. Outbox'
    BY <1>15 DEF Crash, Outbox, TypeOK, Txs
  <2>4. Earlier'
    BY <1>15, FateFacts DEF Crash, Earlier, Settled, TypeOK, Txs
  <2>5. Answer'
    BY <1>15 DEF Crash, Answer, Settled, Open, TypeOK, Txs, IsValid
  <2>6. Verdict'
    BY <1>15 DEF Crash, Verdict, FailureIsDefinite, TypeOK, Txs, IsValid
  <2> QED BY <2>1, <2>2, <2>3, <2>4, <2>5, <2>6
<1>16. CASE CloseClient
  BY <1>16, ChannelStep DEF CloseClient, callVars
<1>17. ASSUME NEW t \in Txs, Order(t) PROVE CallInv'
  <2>1. \A u \in Txs : fate[u] \in Dead \cup {"VALID"} => fate'[u] = fate[u]
    BY <1>17, FateFacts DEF Order, TypeOK
  <2> QED BY <1>17, <2>1, ChannelStep DEF Order
<1>18. ASSUME NEW t \in Txs, Lose(t) PROVE CallInv'
  <2>1. \A u \in Txs : fate[u] \in Dead \cup {"VALID"} => fate'[u] = fate[u]
    BY <1>18, FateFacts DEF Lose, TypeOK
  <2> QED BY <1>18, <2>1, ChannelStep DEF Lose
<1>19. ASSUME NEW t \in Txs, Validate(t) PROVE CallInv'
  <2>1. \A u \in Txs : fate[u] \in Dead \cup {"VALID"} => fate'[u] = fate[u]
    BY <1>19, FateFacts DEF Validate, TypeOK
  <2> QED BY <1>19, <2>1, ChannelStep DEF Validate
<1>20. CASE UNCHANGED vars
  BY <1>20, ChannelStep DEF vars, callVars
<1> QED BY <1>1, <1>2, <1>3, <1>4, <1>5, <1>6, <1>7, <1>8, <1>9, <1>10, <1>11, <1>12, <1>13, <1>14, <1>15, <1>16, <1>17, <1>18, <1>19, <1>20 DEF Next, SDKStep

LEMMA InvStep == IInv /\ [Next]_vars => IInv'
BY TypeStep, CallStep DEF IInv

LEMMA Inductive == Spec => []IInv
<1>1. Init => IInv
  BY TypeInit, CallInit DEF IInv
<1> QED BY <1>1, InvStep, PTL DEF Spec

-----------------------------------------------------------------------------
(***************************************************************************)
(* What a caller may rely on.                                              *)
(***************************************************************************)

\* As long as its process did not crash, a caller that retries what IsRetryable
\* allows and resolves what carries OutcomeUnknown makes its operation take
\* effect at most once, though the chaincode does not guard against it.
THEOREM NeverTwice == Spec => []AtMostOnce
<1>1. IInv => AtMostOnce
  BY FateFacts DEF IInv, CallInv, Earlier, Fresh, AtMostOnce, IsValid, TypeOK, Txs
<1> QED BY <1>1, Inductive, PTL

\* As long as its process did not crash, a caller that gives up on an error
\* without OutcomeUnknown is right: nothing it sent will ever take effect.
THEOREM FailureDefinite == Spec => []FailureIsDefinite
<1>1. IInv => FailureIsDefinite
  BY DEF IInv, CallInv, Verdict
<1> QED BY <1>1, Inductive, PTL

\* A success is on the ledger, crashes or not (Wait, TxStatus, ALREADY_EXISTS).
THEOREM SuccessReal == Spec => []SuccessIsReal
<1>1. IInv => SuccessIsReal
  BY DEF IInv, CallInv, Verdict, SuccessIsReal
<1> QED BY <1>1, Inductive, PTL

\* As long as its process did not crash, an error that leaves a transaction open
\* says so and names it.
THEOREM UnknownTraceable == Spec => []UnknownIsTraceable
<1>1. ASSUME IInv PROVE UnknownIsTraceable
  <2> SUFFICES ASSUME crashes = 0, pc = "decide", NEW t \in Txs, fate[t] \notin Dead
               PROVE  out.OutcomeUnknown /\ out.TxID = t
    BY DEF UnknownIsTraceable
  <2>1. t = tx
    BY <1>1, FateFacts DEF IInv, CallInv, Earlier, Fresh, TypeOK, Txs
  <2>2. Open
    BY <1>1, <2>1, SubmissionAssumption DEF IInv, CallInv, Answer, Settled, Txs
  <2> QED BY <2>1, <2>2 DEF Open
<1> QED BY <1>1, Inductive, PTL

\* The outbox keeps a transaction that may still take effect, through every error
\* and every crash of the process.
THEOREM OutboxKeeps == Spec => StoredNotForgotten
<1>1. ASSUME IInv, Next, stored # 0, fate[stored] \notin Dead PROVE stored' = stored
  <2> USE SubmissionAssumption DEF IInv, CallInv
  <2>1. stored = tx /\ ~Settled
    BY <1>1 DEF Outbox, Settled
  <2>2. CASE Decide
    <3>1. Open
      BY <1>1, <2>1, <2>2 DEF Answer, Decide
    <3> QED BY <2>1, <2>2, <3>1 DEF Decide, Open
  <2>3. CASE Store
    BY <2>1, <2>3 DEF Store
  <2>4. CASE SDKStep
    BY <2>4 DEF SDKStep, ProposeRefused, Propose, EndorseOK, EndorseFails, SubmitOK, SubmitFails, WaitKnown,
                WaitFails, StatusFound, StatusNotFound, StatusFails
  <2>5. CASE WaitAgain \/ Crash \/ CloseClient
    BY <2>5 DEF WaitAgain, Crash, CloseClient
  <2>6. ASSUME NEW t \in Txs, Order(t) \/ Lose(t) \/ Validate(t) PROVE stored' = stored
    BY <2>6 DEF Order, Lose, Validate
  <2> QED BY <1>1, <2>2, <2>3, <2>4, <2>5, <2>6 DEF Next
<1>2. IInv /\ [Next]_vars
        => [stored # 0 /\ fate[stored] \notin Dead => stored' = stored]_vars
  BY <1>1
<1> QED BY <1>2, Inductive, PTL DEF Spec, StoredNotForgotten
=============================================================================
