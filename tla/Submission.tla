----------------------------- MODULE Submission -----------------------------
(***************************************************************************)
(* Submitting one business operation: SubmitAsync, PendingTx.Wait and      *)
(* TxStatus of contract.go with the errors of errors.go, a caller that     *)
(* reacts to them as README.md tells it to, and the channel behind them,   *)
(* which may order a transaction after the SDK stopped waiting for it.     *)
(*                                                                         *)
(* An attempt is a transaction: attempt t has transaction ID t.            *)
(***************************************************************************)
EXTENDS Errors, FiniteSets

CONSTANTS
  MaxAttempts,   \* bound on the transactions the caller proposes
  MaxCrashes,    \* bound on crashes of the caller's process
  Strict         \* Config.StrictErrorCodes

ASSUME SubmissionAssumption ==
  MaxAttempts \in Nat \ {0} /\ MaxCrashes \in Nat /\ Strict \in BOOLEAN

Txs == 1..MaxAttempts

VARIABLES
  pc,       \* where the caller or the SDK call it is in stands
  tx,       \* the current attempt, 0 before the first
  fate,     \* what the channel did with each transaction
  out,      \* the *Error of the last call, NoError for nil
  verdict,  \* what the caller concluded about its operation
  pending,  \* the PendingTx in the caller's hands, 0 if none
  stored,   \* the transaction ID in the caller's outbox, 0 if none
  closed,   \* FabricClient.closed
  crashes

callVars == <<pc, tx, out, verdict>>
vars     == <<callVars, fate, pending, stored, closed, crashes>>

NoError == [newError("internal", "sdk") EXCEPT !.Kind = "nil"]

\* Fates: none (not submitted), flight (the gateway has it), ordered, and the
\* final ones: lost (refused or dropped before ordering) or a validation code.
Committed  == ValidationCodes
Dead       == {"none", "lost"} \cup (ValidationCodes \ {"VALID"})
Fates      == {"none", "flight", "ordered", "lost"} \cup ValidationCodes

IsValid(t) == fate[t] = "VALID"

-----------------------------------------------------------------------------
(***************************************************************************)
(* The SDK.                                                                *)
(***************************************************************************)
Init ==
  /\ pc = "idle" /\ tx = 0 /\ out = NoError /\ verdict = "none"
  /\ fate = [t \in Txs |-> "none"]
  /\ pending = 0 /\ stored = 0 /\ closed = FALSE /\ crashes = 0

\* A call returns an error to the caller.
Fail(e) == out' = e /\ pc' = "decide"

\* SubmitAsync: gateway refuses on a closed client, or NewProposal fails.
ProposeRefused ==
  /\ pc = "idle" /\ tx < MaxAttempts
  /\ Fail(configError)
  /\ pending' = 0
  /\ UNCHANGED <<tx, verdict, fate, stored, closed, crashes>>

\* SubmitAsync: a proposal gets an ID.
Propose ==
  /\ pc = "idle" /\ tx < MaxAttempts /\ ~closed
  /\ pc' = "endorse" /\ tx' = tx + 1
  /\ out' = NoError /\ pending' = 0
  /\ UNCHANGED <<verdict, fate, stored, closed, crashes>>

EndorseOK ==
  /\ pc = "endorse"
  /\ pc' = "submit"
  /\ UNCHANGED <<tx, out, verdict, fate, pending, stored, closed, crashes>>

\* The chaincode says ALREADY_EXISTS only when the operation took effect.
EndorseErrors ==
  {Failure(c) : c \in Codes} \cup {Refusal("CONFLICT"), Refusal("INVALID_ARGUMENT")}
    \cup (IF \E t \in Txs : IsValid(t) THEN {Refusal("ALREADY_EXISTS")} ELSE {})

EndorseFails ==
  /\ pc = "endorse"
  /\ \E err \in EndorseErrors : Fail(classify(err, tx, "endorse", Strict))
  /\ UNCHANGED <<tx, verdict, fate, pending, stored, closed, crashes>>

SubmitOK ==
  /\ pc = "submit"
  /\ fate' = [fate EXCEPT ![tx] = "ordered"]
  /\ pc' = "store" /\ pending' = tx
  /\ UNCHANGED <<tx, out, verdict, stored, closed, crashes>>

\* The answers by which the gateway says that nothing was ordered.
RefusedByOrderer == {"InvalidArgument", "FailedPrecondition", "Aborted"}

\* The submit RPC fails: the transaction was refused, or it may be under way.
SubmitFails ==
  /\ pc = "submit"
  /\ \E code \in Codes :
       /\ fate' = [fate EXCEPT ![tx] = IF code \in RefusedByOrderer THEN "lost" ELSE "flight"]
       /\ Fail(classify(Failure(code), tx, "submit", Strict))
  /\ UNCHANGED <<tx, verdict, pending, stored, closed, crashes>>

\* Mutant: st.Successful is not looked at.
MutAnyStatusSucceeds ==
  /\ pc = "wait"
  /\ fate[tx] \in Committed
  /\ pc' = "done" /\ verdict' = "committed"
  /\ UNCHANGED <<tx, out, fate, pending, stored, closed, crashes>>

\* Wait: the status is known.
WaitKnown ==
  /\ pc = "wait"
  /\ fate[tx] \in Committed
  /\ IF IsValid(tx)
     THEN pc' = "done" /\ verdict' = "committed" /\ UNCHANGED out
     ELSE Fail(commitFailure(tx, fate[tx])) /\ UNCHANGED verdict
  /\ UNCHANGED <<tx, fate, pending, stored, closed, crashes>>

\* Wait: ctx ends, the commit status timeout passes, or the RPC fails.
WaitFails ==
  /\ pc = "wait"
  /\ \E code \in Codes : Fail(classify(Failure(code), tx, "commitStatus", TRUE))
  /\ UNCHANGED <<tx, verdict, fate, pending, stored, closed, crashes>>

\* Mutant: an invalid transaction is reported as not found.
MutInvalidNotFound ==
  /\ pc = "resolve" /\ ~closed
  /\ IsValid(tx)
  /\ pc' = "done" /\ verdict' = "committed"
  /\ UNCHANGED <<tx, out, fate, pending, stored, closed, crashes>>

\* TxStatus: Found.
StatusFound ==
  /\ pc = "resolve" /\ ~closed
  /\ fate[tx] \in Committed
  /\ IF IsValid(tx)
     THEN pc' = "done" /\ verdict' = "committed" /\ UNCHANGED out
     ELSE Fail(commitFailure(tx, fate[tx])) /\ UNCHANGED verdict
  /\ UNCHANGED <<tx, fate, pending, stored, closed, crashes>>

\* TxStatus: not Found, on a peer that never saw the transaction or has yet to
\* commit its block.
StatusNotFound ==
  /\ pc = "resolve" /\ ~closed
  /\ out' = NoError
  /\ UNCHANGED <<pc, tx, verdict, fate, pending, stored, closed, crashes>>

\* TxStatus: the query fails, and on a closed client it always does.
StatusFails ==
  /\ pc = "resolve"
  /\ IF closed THEN out' = configError
     ELSE \E code \in Codes : out' = classify(Failure(code), NoTxID, "evaluate", TRUE)
  /\ UNCHANGED <<pc, tx, verdict, fate, pending, stored, closed, crashes>>
-----------------------------------------------------------------------------
(***************************************************************************)
(* The caller.                                                             *)
(***************************************************************************)

\* The outbox row is written before Wait is called.
Store ==
  /\ pc = "store"
  /\ stored' = tx
  /\ pc' = "wait"
  /\ UNCHANGED <<tx, out, verdict, fate, pending, closed, crashes>>

\* The switch of README.md on the error of a call.
Decide ==
  /\ pc = "decide"
  /\ IF out.Kind = "already_exists"
       THEN pc' = "done" /\ verdict' = "committed" /\ UNCHANGED stored
     ELSE IF out.OutcomeUnknown
       THEN pc' = "resolve" /\ stored' = out.TxID /\ UNCHANGED verdict
     ELSE IF Retryable(out) /\ tx < MaxAttempts
       THEN pc' = "idle" /\ stored' = 0 /\ UNCHANGED verdict
     ELSE pc' = "done" /\ verdict' = "failed" /\ UNCHANGED stored
  /\ UNCHANGED <<tx, out, fate, pending, closed, crashes>>

\* Wait may be called again while the PendingTx is there.
WaitAgain ==
  /\ pc = "resolve" /\ pending # 0
  /\ pc' = "wait"
  /\ UNCHANGED <<tx, out, verdict, fate, pending, stored, closed, crashes>>

\* The process dies. The next one resolves the transaction in the outbox, or
\* starts over when there is none.
Crash ==
  /\ crashes < MaxCrashes /\ pc # "done"
  /\ crashes' = crashes + 1
  /\ pc' = IF stored # 0 THEN "resolve" ELSE "idle"
  /\ out' = NoError /\ pending' = 0 /\ closed' = FALSE
  /\ UNCHANGED <<tx, verdict, fate, stored>>

CloseClient ==
  /\ ~closed
  /\ closed' = TRUE
  /\ UNCHANGED <<callVars, fate, pending, stored, crashes>>
-----------------------------------------------------------------------------
(***************************************************************************)
(* The channel.                                                            *)
(***************************************************************************)
Order(t) ==
  /\ fate[t] = "flight"
  /\ fate' = [fate EXCEPT ![t] = "ordered"]
  /\ UNCHANGED <<callVars, pending, stored, closed, crashes>>

Lose(t) ==
  /\ fate[t] = "flight"
  /\ fate' = [fate EXCEPT ![t] = "lost"]
  /\ UNCHANGED <<callVars, pending, stored, closed, crashes>>

\* Nothing in the channel keeps two attempts of one operation apart.
Validate(t) ==
  /\ fate[t] = "ordered"
  /\ \E vc \in ValidationCodes : fate' = [fate EXCEPT ![t] = vc]
  /\ UNCHANGED <<callVars, pending, stored, closed, crashes>>
-----------------------------------------------------------------------------
SDKStep ==
  \/ ProposeRefused \/ Propose \/ EndorseOK \/ EndorseFails \/ SubmitOK \/ SubmitFails
  \/ WaitKnown \/ WaitFails \/ StatusFound \/ StatusNotFound \/ StatusFails

Next ==
  \/ SDKStep \/ Store \/ Decide \/ WaitAgain \/ Crash \/ CloseClient
  \/ \E t \in Txs : Order(t) \/ Lose(t) \/ Validate(t)

Spec == Init /\ [][Next]_vars

\* Calls return (signing functions too), the channel validates what it ordered, and
\* a peer that is asked for the status again and again answers in the end.
Fairness ==
  /\ WF_vars(SDKStep) /\ WF_vars(Store) /\ WF_vars(Decide)
  /\ \A t \in Txs : WF_vars(Validate(t))
  /\ SF_vars(WaitKnown \/ StatusFound)

FairSpec == Spec /\ Fairness
-----------------------------------------------------------------------------
(***************************************************************************)
(* Correctness.                                                            *)
(***************************************************************************)

OutOK ==
  /\ out.Kind \in Kinds \cup {"nil"} /\ out.OutcomeUnknown \in BOOLEAN
  /\ out.TxID \in 0..MaxAttempts

\* Every variable holds a value of its type: what a call returned, in whichever
\* phase it failed and with whatever code, is nil or an error of a known Kind.
TypeOK ==
  /\ pc \in {"idle", "endorse", "submit", "store", "wait", "resolve", "decide", "done"}
  /\ tx \in 0..MaxAttempts /\ pending \in 0..MaxAttempts /\ stored \in 0..MaxAttempts /\ crashes \in Nat
  /\ fate \in [Txs -> Fates] /\ OutOK
  /\ verdict \in {"none", "committed", "failed"} /\ closed \in BOOLEAN

\* A caller that follows the README never makes its operation take effect twice,
\* though it retries: IsRetryable means "sending the same request again is safe".
\* It is promised until the process crashes, as are the two that say so below.
AtMostOnce ==
  crashes = 0 => \A t, u \in Txs : IsValid(t) /\ IsValid(u) => t = u

\* An error without OutcomeUnknown is definite: when the caller gives up on one,
\* no transaction of the operation is on the ledger or will ever be.
FailureIsDefinite ==
  crashes = 0 /\ verdict = "failed" => \A t \in Txs : fate[t] \in Dead

\* A success, by Wait, TxStatus or ALREADY_EXISTS, is on the ledger as valid.
SuccessIsReal == verdict = "committed" => \E t \in Txs : IsValid(t)

\* An OutcomeUnknown error carries the ID of the transaction that may still be
\* on its way (errors.go, "TxID is set whenever a transaction ID existed").
UnknownIsTraceable ==
  crashes = 0 /\ pc = "decide" =>
    \A t \in Txs : fate[t] \notin Dead => out.OutcomeUnknown /\ out.TxID = t

\* An attempt that was ordered is settled: the caller reaches a verdict or knows
\* that it may try again, unless the client was closed and cannot ask. A crash does
\* not stop it when the attempt was in the outbox.
OrderedIsSettled ==
  \A t \in Txs : fate[t] = "ordered" ~>
    (pc = "done" \/ tx # t \/ closed \/ (crashes > 0 /\ stored # t))

\* The outbox never forgets a transaction that may still take effect, crashes or
\* not: what clears its row is a definite failure (contract.go, PendingTx, and
\* errors.go, phaseCommitStatus).
StoredNotForgotten ==
  [][stored # 0 /\ fate[stored] \notin Dead => stored' = stored]_vars

\* A crash cannot lose track of a transaction accepted by the orderer
\* (contract.go, PendingTx): what was ordered is in the outbox of the process
\* that starts over.
CrashKeepsTrack ==
  (pc = "idle" /\ crashes > 0) => \A t \in Txs : fate[t] \in Dead
=============================================================================
