----------------------------- MODULE Listening -----------------------------
(***************************************************************************)
(* What ListenChaincodeEvents and ListenBlocks of events.go share: their   *)
(* options, the delay between sessions and the errors worth a new one.     *)
(***************************************************************************)
EXTENDS Errors, Integers

CONSTANTS
  StartBlock,    \* FromBlock(StartBlock), or NextCommit when it is not given
  Durable,       \* TRUE: the checkpoint survives a restart (FileCheckpointer)
  RetryMin,      \* RetryBackoff(RetryMin, RetryMax), in seconds
  RetryMax,
  OwnsConn,      \* the client was made by New, not by NewWithConnection
  MaxDrops,      \* bound on stream and connection failures
  MaxCalls       \* bound on calls of the listener

NextCommit == -1

ASSUME StartAssumption == StartBlock \in Nat \cup {NextCommit}
\* A Duration may be negative.
ASSUME RetryAssumption == RetryMin \in Int /\ RetryMax \in Int
ASSUME HandleAssumption == {Durable, OwnsConn} \subseteq BOOLEAN
ASSUME BoundAssumption == MaxDrops \in Nat /\ MaxCalls \in Nat \ {0}

DefaultMin == 1

\* eventOptions repairs a delay range that is empty or not positive.
minBackoff == IF RetryMin <= 0 THEN DefaultMin ELSE RetryMin
maxBackoff == IF RetryMax < minBackoff THEN minBackoff ELSE RetryMax

MinOf(a, b) == IF a < b THEN a ELSE b

\* reconnectable: the Kinds of error worth a new stream.
\* Mutants: a dropped connection is final; a closed client is retried.
MutUnavailableFinal(kind) ==
  kind \notin {"config", "unauthorized", "invalid_argument", "not_found", "unavailable"}
MutConfigRetried(kind) == kind \notin {"unauthorized", "invalid_argument", "not_found"}
reconnectable(kind) ==
  kind \notin {"config", "unauthorized", "invalid_argument", "not_found"}

\* Closing the client ends its streams when it closes their connection.
CloseEndsStreams == OwnsConn
=============================================================================
