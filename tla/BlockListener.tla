--------------------------- MODULE BlockListener ---------------------------
(***************************************************************************)
(* Contract.ListenBlocks of events.go: sessions of blockSession, each of   *)
(* which takes a gateway, ranges over the blocks of one stream and gives   *)
(* the gateway back before it returns, and the loop that looks at ctx, at  *)
(* the error of the handler and at that of the session, in this order.     *)
(*                                                                         *)
(* The position of the checkpointer is the next block to process; 0 is the *)
(* position that counts as unset. Its transaction ID is always empty.      *)
(***************************************************************************)
EXTENDS Listening, FiniteSets

CONSTANT Height    \* number of blocks the channel will ever have

ASSUME HeightAssumption == Height \in Nat \ {0}

Blocks == 0..(Height - 1)

VARIABLES
  tip,       \* height of the channel: blocks 0..tip-1 are committed
  cp, saved, \* the checkpointer's position, and what a restart finds of it
  lpc,       \* where the loop or the session stands
  blk,       \* the block the session has taken from the stream last
  serr,      \* what blockSession returned: a Kind, "nil", or a handlerError
  backoff,   \* the next reconnect delay
  ret,       \* how the call returned
  upNext,    \* the next block of the stream
  live,      \* the stream is open
  ctxDone,   \* the caller's ctx has ended
  closed,    \* FabricClient.closed
  held,      \* gateways acquired and not released
  drops, calls,
  done,      \* history: blocks handled successfully
  callDone   \* history: blocks handled by the current call

netVars  == <<tip, live, upNext, drops>>
cpVars   == <<cp, saved>>
loopVars == <<lpc, blk, serr, backoff, ret>>
envVars  == <<ctxDone, closed, calls>>
histVars == <<done, callDone>>
vars     == <<netVars, cpVars, loopVars, envVars, histVars, held>>

\* handlerError wraps an error of the handler or of CheckpointBlock.
handlerErrors == {"handler", "checkpoint"}

\* The first block the peer serves: WithCheckpoint is ignored when its position
\* is unset, then WithStartBlock applies, then the next commit. Mutant: the
\* position is taken for the last block processed.
MutResumesAfter(pos) ==
  IF pos # 0 THEN pos + 1 ELSE IF StartBlock # NextCommit THEN StartBlock ELSE tip
FirstServed(pos) ==
  IF pos # 0 THEN pos ELSE IF StartBlock # NextCommit THEN StartBlock ELSE tip

-----------------------------------------------------------------------------
(***************************************************************************)
(* blockSession.                                                           *)
(***************************************************************************)
Init ==
  /\ tip \in 1..Height
  /\ cp = 0 /\ saved = 0
  /\ lpc = "open" /\ blk = 0 /\ serr = "nil" /\ backoff = minBackoff /\ ret = "none"
  /\ upNext = 0 /\ live = FALSE /\ drops = 0
  /\ ctxDone = FALSE /\ closed = FALSE /\ calls = 1 /\ held = 0
  /\ done = {} /\ callDone = {}

\* Contract.gateway.
OpenGateway ==
  /\ lpc = "open"
  /\ IF closed
     THEN lpc' = "ended" /\ serr' = configError.Kind /\ UNCHANGED held
     ELSE lpc' = "subscribe" /\ held' = held + 1 /\ UNCHANGED serr
  /\ UNCHANGED <<netVars, cpVars, blk, backoff, ret, envVars, histVars>>

Subscribed ==
  /\ lpc = "subscribe"
  /\ ~ctxDone /\ ~(closed /\ CloseEndsStreams)
  /\ upNext' = FirstServed(cp) /\ live' = TRUE
  /\ lpc' = "range"
  /\ UNCHANGED <<tip, drops, cpVars, blk, serr, backoff, ret, envVars, histVars, held>>

\* blockSession returns err: the stream is stopped and the gateway released.
\* Mutant: a handler error skips the release.
MutEndLeaks(err) ==
  /\ serr' = err /\ lpc' = "ended"
  /\ live' = FALSE /\ held' = IF err \in handlerErrors THEN held ELSE held - 1
EndSession(err) ==
  /\ serr' = err /\ lpc' = "ended"
  /\ live' = FALSE /\ held' = held - 1

OpenCodes ==
  (IF ctxDone THEN {"Canceled", "DeadlineExceeded"} ELSE {})
    \cup (IF closed /\ CloseEndsStreams THEN {"Canceled"} ELSE {})
    \cup (IF drops < MaxDrops THEN {"Unavailable", "Unknown"} ELSE {})

SubscribeFails ==
  /\ lpc = "subscribe"
  /\ \E code \in OpenCodes :
       /\ EndSession(classify(Failure(code), NoTxID, "evaluate", TRUE).Kind)
       /\ drops' = IF code \in {"Unavailable", "Unknown"} THEN drops + 1 ELSE drops
  /\ UNCHANGED <<tip, upNext, cpVars, blk, backoff, ret, envVars, histVars>>

\* for block := range blocks.
Deliver ==
  /\ lpc = "range" /\ live /\ upNext < tip
  /\ blk' = upNext /\ upNext' = upNext + 1
  /\ lpc' = "handle"
  /\ UNCHANGED <<tip, live, drops, cpVars, serr, backoff, ret, envVars, histVars, held>>

\* The stream ended: nil.
RangeEnds ==
  /\ lpc = "range" /\ ~live
  /\ EndSession("nil")
  /\ UNCHANGED <<tip, upNext, drops, cpVars, blk, backoff, ret, envVars, histVars>>

HandleOK ==
  /\ lpc = "handle"
  /\ done' = done \cup {blk} /\ callDone' = callDone \cup {blk}
  /\ lpc' = "checkpoint"
  /\ UNCHANGED <<netVars, cpVars, blk, serr, backoff, ret, envVars, held>>

HandleFails ==
  /\ lpc = "handle"
  /\ EndSession("handler")
  /\ UNCHANGED <<tip, upNext, drops, cpVars, blk, backoff, ret, envVars, histVars>>

\* CheckpointBlock(n) moves the position past n. Mutants: it stays at n, which is
\* unset for block 0; it moves one block too far.
MutSameBlock(n) == n
MutTwoBlocks(n) == n + 2
CheckpointBlock(n) == n + 1

CheckpointOK ==
  /\ lpc = "checkpoint"
  /\ cp' = CheckpointBlock(blk)
  /\ saved' = IF Durable THEN cp' ELSE saved
  /\ backoff' = minBackoff
  /\ lpc' = "range"
  /\ UNCHANGED <<netVars, blk, serr, ret, envVars, histVars, held>>

\* Only a durable checkpointer fails; its position in memory may have moved.
CheckpointFails ==
  /\ lpc = "checkpoint" /\ Durable
  /\ cp' \in {cp, CheckpointBlock(blk)}
  /\ EndSession("checkpoint")
  /\ UNCHANGED <<tip, upNext, drops, saved, blk, backoff, ret, envVars, histVars>>
-----------------------------------------------------------------------------
(***************************************************************************)
(* ListenBlocks.                                                           *)
(***************************************************************************)
Return(how) == lpc' = "returned" /\ ret' = how

\* Mutants: a handlerError is treated like any other error of a session; ctx is
\* not looked at.
MutHandlerErrorRetried ==
  /\ lpc = "ended"
  /\ IF ctxDone THEN Return("nil")
     ELSE IF serr # "nil" /\ ~reconnectable(serr) THEN Return("error")
     ELSE lpc' = "sleep" /\ UNCHANGED ret
  /\ UNCHANGED <<netVars, cpVars, blk, serr, backoff, envVars, histVars, held>>
MutCtxIgnored ==
  /\ lpc = "ended"
  /\ IF serr \in handlerErrors THEN Return(serr)
     ELSE IF serr # "nil" /\ ~reconnectable(serr) THEN Return("error")
     ELSE lpc' = "sleep" /\ UNCHANGED ret
  /\ UNCHANGED <<netVars, cpVars, blk, serr, backoff, envVars, histVars, held>>
SessionEnded ==
  /\ lpc = "ended"
  /\ IF ctxDone THEN Return("nil")
     ELSE IF serr \in handlerErrors THEN Return(serr)
     ELSE IF serr # "nil" /\ ~reconnectable(serr) THEN Return("error")
     ELSE lpc' = "sleep" /\ UNCHANGED ret
  /\ UNCHANGED <<netVars, cpVars, blk, serr, backoff, envVars, histVars, held>>

SleepCancelled ==
  /\ lpc = "sleep" /\ ctxDone
  /\ Return("nil")
  /\ UNCHANGED <<netVars, cpVars, blk, serr, backoff, envVars, histVars, held>>

SleepElapsed ==
  /\ lpc = "sleep"
  /\ backoff' = MinOf(2 * backoff, maxBackoff)
  /\ lpc' = "open" /\ serr' = "nil"
  /\ UNCHANGED <<netVars, cpVars, blk, ret, envVars, histVars, held>>
-----------------------------------------------------------------------------
(***************************************************************************)
(* The surroundings.                                                       *)
(***************************************************************************)
CommitBlock ==
  /\ tip < Height
  /\ tip' = tip + 1
  /\ UNCHANGED <<live, upNext, drops, cpVars, loopVars, envVars, histVars, held>>

StreamDrops ==
  /\ live /\ drops < MaxDrops
  /\ live' = FALSE /\ drops' = drops + 1
  /\ UNCHANGED <<tip, upNext, cpVars, loopVars, envVars, histVars, held>>

\* The gateway ends the stream when its context or its connection has ended.
StreamCancelled ==
  /\ live
  /\ ctxDone \/ (closed /\ CloseEndsStreams)
  /\ live' = FALSE
  /\ UNCHANGED <<tip, upNext, drops, cpVars, loopVars, envVars, histVars, held>>

CancelCtx ==
  /\ ~ctxDone /\ lpc # "returned"
  /\ ctxDone' = TRUE
  /\ UNCHANGED <<netVars, cpVars, loopVars, closed, calls, histVars, held>>

CloseClient ==
  /\ ~closed
  /\ closed' = TRUE
  /\ UNCHANGED <<netVars, cpVars, loopVars, ctxDone, calls, histVars, held>>

StartCall ==
  /\ calls < MaxCalls
  /\ calls' = calls + 1
  /\ lpc' = "open" /\ blk' = 0 /\ serr' = "nil" /\ backoff' = minBackoff /\ ret' = "none"
  /\ ctxDone' = FALSE /\ callDone' = {} /\ live' = FALSE
  /\ UNCHANGED <<tip, upNext, drops, saved, done>>

\* The caller listens again, with the same checkpointer and a new ctx.
ListenAgain ==
  /\ lpc = "returned"
  /\ StartCall
  /\ UNCHANGED <<cp, closed, held>>

\* The process dies at any point and starts over.
Restart ==
  /\ StartCall
  /\ cp' = saved /\ held' = 0 /\ closed' = FALSE
-----------------------------------------------------------------------------
ListenerStep ==
  \/ OpenGateway \/ Subscribed \/ SubscribeFails \/ Deliver \/ RangeEnds
  \/ HandleOK \/ HandleFails \/ CheckpointOK \/ CheckpointFails
  \/ SessionEnded \/ SleepCancelled \/ SleepElapsed

Environment ==
  \/ CommitBlock \/ StreamDrops \/ CancelCtx \/ CloseClient \/ ListenAgain \/ Restart

Next == ListenerStep \/ StreamCancelled \/ Environment

Spec == Init /\ [][Next]_vars

\* The loop runs, the handler, the checkpointer and the signing function return,
\* and the gateway notices that its context or connection has ended.
FairSpec == Spec /\ WF_vars(ListenerStep) /\ WF_vars(StreamCancelled)
-----------------------------------------------------------------------------
(***************************************************************************)
(* Correctness.                                                            *)
(***************************************************************************)

InSession == lpc \in {"subscribe", "range", "handle", "checkpoint"}

\* Every variable holds a value of its type. The position never passes the channel,
\* and no session begins with the gateway of an earlier one still held.
NetOK  == tip \in 1..Height /\ upNext \in Nat /\ drops \in Nat /\ calls \in Nat /\ held \in 0..1
CpOK   == cp \in 0..tip /\ saved \in 0..tip
FlagOK == {live, ctxDone, closed} \subseteq BOOLEAN
LoopOK ==
  /\ lpc \in {"open", "ended", "sleep", "returned"} \/ InSession
  /\ blk \in Nat /\ backoff \in Nat /\ serr \in Kinds \cup {"nil"} \cup handlerErrors
  /\ lpc \in {"handle", "checkpoint"} => blk < tip
  /\ ret \in {"none", "nil", "error"} \cup handlerErrors
HistoryOK == {done, callDone} \subseteq SUBSET Blocks
TypeOK == NetOK /\ CpOK /\ FlagOK /\ LoopOK /\ HistoryOK

\* The blocks the listener owes: everything from FromBlock on.
Items == {i \in Blocks : i >= StartBlock}

\* No block is handled twice in one call, not even block 0, whose number is the
\* unset position.
NoRedelivery == lpc = "handle" => blk \notin callDone

\* An error of the handler or the checkpointer ends the call and is what the
\* call returns, unless ctx ended: then ListenBlocks returns nil and drops it.
HandlerErrorSurfaces ==
  serr \in handlerErrors =>
    \/ lpc = "ended"
    \/ lpc = "returned" /\ (ret = serr \/ (ret = "nil" /\ ctxDone))

\* The loop gives up only for a reason of its caller, and its delay stays in the
\* repaired range: neither a drop nor a failed open is final.
NeverGivesUp ==
  /\ ret = "nil" => ctxDone
  /\ ret = "error" => closed
  /\ minBackoff <= backoff /\ backoff <= maxBackoff

\* The block listener implements at-least-once, in-order delivery of Items: no owed
\* block is skipped, and the position is never past one that was not handled, so
\* neither is the persisted one that a restart finds ("delivers every committed
\* block", "Returning an error stops the listener without checkpointing").
D == INSTANCE Delivery WITH recorded <- {i \in Items : i < cp}
ImplementsDelivery == D!Spec

\* A committed block the listener owes is handled, or the call returns.
EventuallyHandled ==
  \A i \in Blocks : (i \in Items /\ i < tip) ~> (i \in done \/ lpc = "returned")

\* The end of ctx makes the call return, and so does the end of a client that
\* can end the handle's streams.
EndReturns ==
  (ctxDone \/ (closed /\ CloseEndsStreams)) ~> (lpc = "returned" \/ ~(ctxDone \/ closed))
=============================================================================
