------------------------ MODULE BlockListenerProofs ------------------------
(***************************************************************************)
(* Proofs about BlockListener, for every height of the channel, every      *)
(* bound and every choice of start block, checkpointer, connection and     *)
(* delay range; delivery needs a start block.                              *)
(***************************************************************************)
EXTENDS BlockListener, ErrorsProofs

USE DEF NextCommit

-----------------------------------------------------------------------------
(***************************************************************************)
(* Type correctness. held \in 0..1 needs that a gateway is held exactly    *)
(* while blockSession runs.                                                *)
(***************************************************************************)
SessionGateway == held = IF InSession THEN 1 ELSE 0

TypeInv == TypeOK /\ SessionGateway

LEMMA BackoffRange == minBackoff \in Nat /\ maxBackoff \in Nat /\ minBackoff <= maxBackoff
BY RetryAssumption DEF minBackoff, maxBackoff, DefaultMin

\* What BlockEvents fails with is classified like any evaluation.
OpenKinds == {"canceled", "timeout", "unavailable", "endorsement"}

LEMMA OpenErrorKind ==
  \A code \in OpenCodes : classify(Failure(code), NoTxID, "evaluate", TRUE).Kind \in OpenKinds
<1> SUFFICES ASSUME NEW code \in {"Canceled", "DeadlineExceeded", "Unavailable", "Unknown"}
             PROVE  classify(Failure(code), NoTxID, "evaluate", TRUE).Kind \in OpenKinds
  BY DEF OpenCodes
<1>1. classify(Failure(code), NoTxID, "evaluate", TRUE).Kind = kindFromCode(code, "evaluate")
  BY EvaluateFailure
<1>2. kindFromCode(code, "evaluate") \in OpenKinds
  BY DEF kindFromCode, OpenKinds
<1> QED BY <1>1, <1>2

\* Every error a session returns is a Kind, nil or that of the handler.
LEMMA SessionErrors ==
  /\ OpenKinds \subseteq Kinds /\ configError.Kind = "config" /\ "config" \in Kinds
  /\ OpenKinds \cap handlerErrors = {}
BY DEF OpenKinds, Kinds, kindCode, configError, newError, handlerErrors

LEMMA TypeInvInit == Init => TypeInv
<1> SUFFICES ASSUME Init PROVE TypeInv
  OBVIOUS
<1> USE HeightAssumption, BackoffRange DEF Init
<1>1. NetOK /\ CpOK /\ HistoryOK
  BY DEF NetOK, CpOK, HistoryOK
<1>2. FlagOK
  BY DEF FlagOK
<1>3. LoopOK /\ SessionGateway
  BY DEF LoopOK, SessionGateway, InSession
<1> QED BY <1>1, <1>2, <1>3 DEF TypeInv, TypeOK

LEMMA TypeInvStep == TypeInv /\ [Next]_vars => TypeInv'
<1> SUFFICES ASSUME TypeInv, [Next]_vars PROVE TypeInv'
  OBVIOUS
<1> USE HeightAssumption DEF TypeInv, TypeOK, netVars, cpVars, loopVars, envVars, histVars
<1>first. FirstServed(cp) \in Nat
  BY StartAssumption DEF FirstServed, NetOK, CpOK
<1>1. CASE OpenGateway
  <2> USE <1>1 DEF OpenGateway
  <2>1. NetOK' /\ CpOK' /\ SessionGateway'
    BY SessionErrors DEF NetOK, CpOK, LoopOK, SessionGateway, InSession
  <2>2. FlagOK' /\ HistoryOK'
    BY DEF FlagOK, HistoryOK
  <2>3. LoopOK'
    BY SessionErrors DEF LoopOK, InSession, NetOK, handlerErrors
  <2> QED BY <2>1, <2>2, <2>3
<1>2. CASE Subscribed
  <2> USE <1>2 DEF Subscribed
  <2>1. NetOK' /\ CpOK' /\ SessionGateway'
    BY <1>first DEF NetOK, CpOK, LoopOK, SessionGateway, InSession
  <2>2. FlagOK' /\ HistoryOK'
    BY DEF FlagOK, HistoryOK
  <2>3. LoopOK'
    BY <1>first DEF LoopOK, InSession, NetOK, handlerErrors
  <2> QED BY <2>1, <2>2, <2>3
<1>3. CASE SubscribeFails
  <2> USE <1>3 DEF SubscribeFails, EndSession
  <2>1. NetOK' /\ CpOK' /\ SessionGateway'
    BY OpenErrorKind, SessionErrors DEF NetOK, CpOK, LoopOK, SessionGateway, InSession
  <2>2. FlagOK' /\ HistoryOK'
    BY DEF FlagOK, HistoryOK
  <2>3. LoopOK'
    BY OpenErrorKind, SessionErrors DEF LoopOK, InSession, NetOK, handlerErrors
  <2> QED BY <2>1, <2>2, <2>3
<1>4. CASE Deliver
  <2> USE <1>4 DEF Deliver
  <2>1. NetOK' /\ CpOK' /\ SessionGateway'
    BY DEF NetOK, CpOK, LoopOK, SessionGateway, InSession
  <2>2. FlagOK' /\ HistoryOK'
    BY DEF FlagOK, HistoryOK
  <2>3. LoopOK'
    BY DEF LoopOK, InSession, NetOK, handlerErrors
  <2> QED BY <2>1, <2>2, <2>3
<1>5. CASE RangeEnds
  <2> USE <1>5 DEF RangeEnds, EndSession
  <2>1. NetOK' /\ CpOK' /\ SessionGateway'
    BY DEF NetOK, CpOK, LoopOK, SessionGateway, InSession
  <2>2. FlagOK' /\ HistoryOK'
    BY DEF FlagOK, HistoryOK
  <2>3. LoopOK'
    BY DEF LoopOK, InSession, NetOK, handlerErrors
  <2> QED BY <2>1, <2>2, <2>3
<1>6. CASE HandleOK
  <2> USE <1>6 DEF HandleOK
  <2>1. NetOK' /\ CpOK' /\ SessionGateway'
    BY DEF NetOK, CpOK, LoopOK, SessionGateway, InSession
  <2>2. FlagOK' /\ HistoryOK'
    BY DEF FlagOK, NetOK, LoopOK, HistoryOK, Blocks
  <2>3. LoopOK'
    BY DEF LoopOK, InSession, NetOK, handlerErrors
  <2> QED BY <2>1, <2>2, <2>3
<1>7. CASE HandleFails
  <2> USE <1>7 DEF HandleFails, EndSession
  <2>1. NetOK' /\ CpOK' /\ SessionGateway'
    BY DEF NetOK, CpOK, LoopOK, SessionGateway, InSession
  <2>2. FlagOK' /\ HistoryOK'
    BY DEF FlagOK, HistoryOK
  <2>3. LoopOK'
    BY DEF LoopOK, InSession, NetOK, handlerErrors
  <2> QED BY <2>1, <2>2, <2>3
<1>8. CASE CheckpointOK
  <2> USE <1>8 DEF CheckpointOK, CheckpointBlock
  <2>1. NetOK' /\ CpOK' /\ SessionGateway'
    BY BackoffRange DEF NetOK, CpOK, LoopOK, SessionGateway, InSession
  <2>2. FlagOK' /\ HistoryOK'
    BY DEF FlagOK, HistoryOK
  <2>3. LoopOK'
    BY BackoffRange DEF LoopOK, InSession, NetOK, handlerErrors
  <2> QED BY <2>1, <2>2, <2>3
<1>9. CASE CheckpointFails
  <2> USE <1>9 DEF CheckpointFails, EndSession, CheckpointBlock
  <2>1. NetOK' /\ CpOK' /\ SessionGateway'
    BY DEF NetOK, CpOK, LoopOK, SessionGateway, InSession
  <2>2. FlagOK' /\ HistoryOK'
    BY DEF FlagOK, HistoryOK
  <2>3. LoopOK'
    BY DEF LoopOK, InSession, NetOK, handlerErrors
  <2> QED BY <2>1, <2>2, <2>3
<1>10. CASE SessionEnded
  <2> USE <1>10 DEF SessionEnded, Return
  <2>1. NetOK' /\ CpOK' /\ SessionGateway'
    BY DEF NetOK, CpOK, LoopOK, SessionGateway, InSession
  <2>2. FlagOK' /\ HistoryOK'
    BY DEF FlagOK, HistoryOK
  <2>3. LoopOK'
    BY DEF LoopOK, InSession, NetOK, handlerErrors
  <2> QED BY <2>1, <2>2, <2>3
<1>11. CASE SleepCancelled
  <2> USE <1>11 DEF SleepCancelled, Return
  <2>1. NetOK' /\ CpOK' /\ SessionGateway'
    BY DEF NetOK, CpOK, LoopOK, SessionGateway, InSession
  <2>2. FlagOK' /\ HistoryOK'
    BY DEF FlagOK, HistoryOK
  <2>3. LoopOK'
    BY DEF LoopOK, InSession, NetOK, handlerErrors
  <2> QED BY <2>1, <2>2, <2>3
<1>12. CASE SleepElapsed
  <2> USE <1>12 DEF SleepElapsed, MinOf
  <2>1. NetOK' /\ CpOK' /\ SessionGateway'
    BY BackoffRange DEF NetOK, CpOK, LoopOK, SessionGateway, InSession
  <2>2. FlagOK' /\ HistoryOK'
    BY DEF FlagOK, HistoryOK
  <2>3. LoopOK'
    BY BackoffRange DEF LoopOK, InSession, NetOK, handlerErrors
  <2> QED BY <2>1, <2>2, <2>3
<1>13. CASE CommitBlock
  <2> USE <1>13 DEF CommitBlock
  <2>1. NetOK' /\ CpOK' /\ SessionGateway'
    BY DEF NetOK, CpOK, LoopOK, SessionGateway, InSession
  <2>2. FlagOK' /\ HistoryOK'
    BY DEF FlagOK, HistoryOK
  <2>3. LoopOK'
    BY DEF LoopOK, InSession, NetOK, handlerErrors
  <2> QED BY <2>1, <2>2, <2>3
<1>14. CASE StreamDrops
  <2> USE <1>14 DEF StreamDrops
  <2>1. NetOK' /\ CpOK' /\ SessionGateway'
    BY DEF NetOK, CpOK, LoopOK, SessionGateway, InSession
  <2>2. FlagOK' /\ HistoryOK'
    BY DEF FlagOK, HistoryOK
  <2>3. LoopOK'
    BY DEF LoopOK, InSession, NetOK, handlerErrors
  <2> QED BY <2>1, <2>2, <2>3
<1>15. CASE StreamCancelled
  <2> USE <1>15 DEF StreamCancelled
  <2>1. NetOK' /\ CpOK' /\ SessionGateway'
    BY DEF NetOK, CpOK, LoopOK, SessionGateway, InSession
  <2>2. FlagOK' /\ HistoryOK'
    BY DEF FlagOK, HistoryOK
  <2>3. LoopOK'
    BY DEF LoopOK, InSession, NetOK, handlerErrors
  <2> QED BY <2>1, <2>2, <2>3
<1>16. CASE CancelCtx
  <2> USE <1>16 DEF CancelCtx
  <2>1. NetOK' /\ CpOK' /\ SessionGateway'
    BY DEF NetOK, CpOK, LoopOK, SessionGateway, InSession
  <2>2. FlagOK' /\ HistoryOK'
    BY DEF FlagOK, HistoryOK
  <2>3. LoopOK'
    BY DEF LoopOK, InSession, NetOK, handlerErrors
  <2> QED BY <2>1, <2>2, <2>3
<1>17. CASE CloseClient
  <2> USE <1>17 DEF CloseClient
  <2>1. NetOK' /\ CpOK' /\ SessionGateway'
    BY DEF NetOK, CpOK, LoopOK, SessionGateway, InSession
  <2>2. FlagOK' /\ HistoryOK'
    BY DEF FlagOK, HistoryOK
  <2>3. LoopOK'
    BY DEF LoopOK, InSession, NetOK, handlerErrors
  <2> QED BY <2>1, <2>2, <2>3
<1>18. CASE ListenAgain
  <2> USE <1>18 DEF ListenAgain, StartCall
  <2>1. NetOK' /\ CpOK' /\ SessionGateway'
    BY BackoffRange DEF NetOK, CpOK, LoopOK, SessionGateway, InSession
  <2>2. FlagOK' /\ HistoryOK'
    BY DEF FlagOK, HistoryOK
  <2>3. LoopOK'
    BY BackoffRange DEF LoopOK, InSession, NetOK, handlerErrors
  <2> QED BY <2>1, <2>2, <2>3
<1>19. CASE Restart
  <2> USE <1>19 DEF Restart, StartCall
  <2>1. NetOK' /\ CpOK' /\ SessionGateway'
    BY BackoffRange DEF NetOK, CpOK, LoopOK, SessionGateway, InSession
  <2>2. FlagOK' /\ HistoryOK'
    BY DEF FlagOK, HistoryOK
  <2>3. LoopOK'
    BY BackoffRange DEF LoopOK, InSession, NetOK, handlerErrors
  <2> QED BY <2>1, <2>2, <2>3
<1>20. CASE UNCHANGED vars
  <2> USE <1>20 DEF vars
  <2>1. NetOK' /\ CpOK' /\ SessionGateway'
    BY DEF NetOK, CpOK, LoopOK, SessionGateway, InSession
  <2>2. FlagOK' /\ HistoryOK'
    BY DEF FlagOK, HistoryOK
  <2>3. LoopOK'
    BY DEF LoopOK, InSession, NetOK, handlerErrors
  <2> QED BY <2>1, <2>2, <2>3
<1> QED
  BY <1>1, <1>2, <1>3, <1>4, <1>5, <1>6, <1>7, <1>8, <1>9, <1>10, <1>11, <1>12, <1>13, <1>14, <1>15, <1>16, <1>17, <1>18, <1>19, <1>20
  DEF Next, ListenerStep, Environment

\* Every variable of ListenBlocks keeps its type, its position never passes the
\* channel, and no session begins while an earlier one still holds its gateway.
THEOREM TypeCorrect == Spec => []TypeOK
<1>1. TypeInv => TypeOK
  BY DEF TypeInv
<1> QED BY TypeInvInit, TypeInvStep, <1>1, PTL DEF Spec

-----------------------------------------------------------------------------
(***************************************************************************)
(* Return values and delays.                                               *)
(***************************************************************************)

\* blockSession returned nil or an error that is retried, a config error of a
\* closed client, or an error of the handler, which only a session that ended
\* and a call that returned it, or nil after the end of ctx, still hold.
StopInv ==
  /\ serr \in {"nil", "config"} \cup OpenKinds \cup handlerErrors
  /\ serr = "config" => closed
  /\ HandlerErrorSurfaces /\ NeverGivesUp

LEMMA StopInvStep == ASSUME TypeInv, StopInv, [Next]_vars PROVE StopInv'
<1> USE DEF StopInv, HandlerErrorSurfaces, NeverGivesUp, handlerErrors, OpenKinds,
            netVars, cpVars, loopVars, envVars, histVars
<1>types. backoff \in Nat /\ minBackoff \in Nat /\ maxBackoff \in Nat /\ minBackoff <= maxBackoff
  BY BackoffRange DEF TypeInv, TypeOK, LoopOK
<1>1. CASE OpenGateway
  BY <1>1, SessionErrors DEF OpenGateway
<1>2. CASE Subscribed
  BY <1>2 DEF Subscribed
<1>3. CASE SubscribeFails
  BY <1>3, OpenErrorKind DEF SubscribeFails, EndSession
<1>4. CASE Deliver
  BY <1>4 DEF Deliver
<1>5. CASE RangeEnds
  BY <1>5 DEF RangeEnds, EndSession
<1>6. CASE HandleOK
  BY <1>6 DEF HandleOK
<1>7. CASE HandleFails
  BY <1>7 DEF HandleFails, EndSession
<1>8. CASE CheckpointOK
  BY <1>8, <1>types DEF CheckpointOK, CheckpointBlock
<1>9. CASE CheckpointFails
  BY <1>9 DEF CheckpointFails, EndSession, CheckpointBlock
<1>10. CASE SessionEnded
  BY <1>10 DEF SessionEnded, Return, reconnectable
<1>11. CASE SleepCancelled
  BY <1>11 DEF SleepCancelled, Return
<1>12. CASE SleepElapsed
  BY <1>12, <1>types DEF SleepElapsed, MinOf
<1>13. CASE CommitBlock
  BY <1>13 DEF CommitBlock
<1>14. CASE StreamDrops
  BY <1>14 DEF StreamDrops
<1>15. CASE StreamCancelled
  BY <1>15 DEF StreamCancelled
<1>16. CASE CancelCtx
  BY <1>16 DEF CancelCtx
<1>17. CASE CloseClient
  BY <1>17 DEF CloseClient
<1>18. CASE ListenAgain
  BY <1>18, <1>types DEF ListenAgain, StartCall
<1>19. CASE Restart
  BY <1>19, <1>types DEF Restart, StartCall
<1>20. CASE UNCHANGED vars
  BY <1>20 DEF vars
<1> QED
  BY <1>1, <1>2, <1>3, <1>4, <1>5, <1>6, <1>7, <1>8, <1>9, <1>10, <1>11,
     <1>12, <1>13, <1>14, <1>15, <1>16, <1>17, <1>18, <1>19, <1>20
  DEF Next, ListenerStep, Environment

LEMMA StopSafety == Spec => []StopInv
<1>1. Init => StopInv
  BY BackoffRange DEF Init, StopInv, HandlerErrorSurfaces, NeverGivesUp, handlerErrors
<1>2. TypeInv /\ StopInv /\ [Next]_vars => StopInv'
  BY StopInvStep
<1> QED BY <1>1, <1>2, TypeInvInit, TypeInvStep, PTL DEF Spec

\* An error of the handler or of CheckpointBlock ends ListenBlocks and is what it
\* returns, unless ctx has ended: no later session or return value replaces it.
THEOREM ErrorSurfaces == Spec => []HandlerErrorSurfaces
<1>1. StopInv => HandlerErrorSurfaces
  BY DEF StopInv
<1> QED BY <1>1, StopSafety, PTL

\* ListenBlocks stops only for a reason of its caller, nil only after ctx ended, an
\* error of its own only after Close, and its delay stays in the repaired range.
THEOREM StopsForAReason == Spec => []NeverGivesUp
<1>1. StopInv => NeverGivesUp
  BY DEF StopInv
<1> QED BY <1>1, StopSafety, PTL

-----------------------------------------------------------------------------
(***************************************************************************)
(* One call handles no block twice, wherever it starts.                    *)
(***************************************************************************)

\* The stream is never behind the position, and a block handled in this call is
\* below the position unless it is about to be checkpointed or was not.
RangeInv ==
  /\ lpc = "range" => cp <= upNext
  /\ lpc \in {"handle", "checkpoint"} => upNext = blk + 1 /\ cp <= blk
CallInv ==
  \A j \in callDone :
    \/ j < cp
    \/ lpc = "checkpoint" /\ j = blk
    \/ lpc = "ended" /\ serr \in handlerErrors
    \/ lpc = "returned"

LEMMA RangeInvStep == ASSUME TypeInv, RangeInv, [Next]_vars PROVE RangeInv'
<1> USE DEF RangeInv, netVars, cpVars, loopVars, envVars, histVars
<1>types. cp \in Nat /\ tip \in Nat /\ blk \in Nat /\ upNext \in Nat
  BY HeightAssumption DEF TypeInv, TypeOK, NetOK, CpOK, LoopOK
<1>1. CASE OpenGateway
  BY <1>1 DEF OpenGateway
<1>2. CASE Subscribed
  BY <1>2, <1>types, StartAssumption DEF Subscribed, FirstServed
<1>3. CASE SubscribeFails
  BY <1>3 DEF SubscribeFails, EndSession
<1>4. CASE Deliver
  BY <1>4, <1>types DEF Deliver
<1>5. CASE RangeEnds
  BY <1>5 DEF RangeEnds, EndSession
<1>6. CASE HandleOK
  BY <1>6 DEF HandleOK
<1>7. CASE HandleFails
  BY <1>7 DEF HandleFails, EndSession
<1>8. CASE CheckpointOK
  BY <1>8, <1>types DEF CheckpointOK, CheckpointBlock
<1>9. CASE CheckpointFails
  BY <1>9 DEF CheckpointFails, EndSession, CheckpointBlock
<1>10. CASE SessionEnded
  BY <1>10 DEF SessionEnded, Return
<1>11. CASE SleepCancelled
  BY <1>11 DEF SleepCancelled, Return
<1>12. CASE SleepElapsed
  BY <1>12 DEF SleepElapsed
<1>13. CASE CommitBlock
  BY <1>13 DEF CommitBlock
<1>14. CASE StreamDrops
  BY <1>14 DEF StreamDrops
<1>15. CASE StreamCancelled
  BY <1>15 DEF StreamCancelled
<1>16. CASE CancelCtx
  BY <1>16 DEF CancelCtx
<1>17. CASE CloseClient
  BY <1>17 DEF CloseClient
<1>18. CASE ListenAgain
  BY <1>18 DEF ListenAgain, StartCall
<1>19. CASE Restart
  BY <1>19 DEF Restart, StartCall
<1>20. CASE UNCHANGED vars
  BY <1>20 DEF vars
<1> QED
  BY <1>1, <1>2, <1>3, <1>4, <1>5, <1>6, <1>7, <1>8, <1>9, <1>10, <1>11,
     <1>12, <1>13, <1>14, <1>15, <1>16, <1>17, <1>18, <1>19, <1>20
  DEF Next, ListenerStep, Environment

LEMMA CallInvStep == ASSUME TypeInv, RangeInv, CallInv, [Next]_vars PROVE CallInv'
<1> USE DEF CallInv, netVars, cpVars, loopVars, envVars, histVars
<1>types. cp \in Nat /\ blk \in Nat /\ callDone \subseteq Nat
  BY HeightAssumption DEF TypeInv, TypeOK, NetOK, CpOK, LoopOK, HistoryOK, Blocks
<1>1. CASE OpenGateway
  BY <1>1 DEF OpenGateway
<1>2. CASE Subscribed
  BY <1>2 DEF Subscribed
<1>3. CASE SubscribeFails
  BY <1>3 DEF SubscribeFails, EndSession
<1>4. CASE Deliver
  BY <1>4 DEF Deliver
<1>5. CASE RangeEnds
  BY <1>5 DEF RangeEnds, EndSession
<1>6. CASE HandleOK
  BY <1>6 DEF HandleOK
<1>7. CASE HandleFails
  BY <1>7 DEF HandleFails, EndSession, handlerErrors
<1>8. CASE CheckpointOK
  BY <1>8, <1>types DEF CheckpointOK, CheckpointBlock, RangeInv
<1>9. CASE CheckpointFails
  BY <1>9 DEF CheckpointFails, EndSession, CheckpointBlock, handlerErrors
<1>10. CASE SessionEnded
  BY <1>10 DEF SessionEnded, Return
<1>11. CASE SleepCancelled
  BY <1>11 DEF SleepCancelled, Return
<1>12. CASE SleepElapsed
  BY <1>12 DEF SleepElapsed
<1>13. CASE CommitBlock
  BY <1>13 DEF CommitBlock
<1>14. CASE StreamDrops
  BY <1>14 DEF StreamDrops
<1>15. CASE StreamCancelled
  BY <1>15 DEF StreamCancelled
<1>16. CASE CancelCtx
  BY <1>16 DEF CancelCtx
<1>17. CASE CloseClient
  BY <1>17 DEF CloseClient
<1>18. CASE ListenAgain
  BY <1>18 DEF ListenAgain, StartCall
<1>19. CASE Restart
  BY <1>19 DEF Restart, StartCall
<1>20. CASE UNCHANGED vars
  BY <1>20 DEF vars
<1> QED
  BY <1>1, <1>2, <1>3, <1>4, <1>5, <1>6, <1>7, <1>8, <1>9, <1>10, <1>11,
     <1>12, <1>13, <1>14, <1>15, <1>16, <1>17, <1>18, <1>19, <1>20
  DEF Next, ListenerStep, Environment

\* Within one call of ListenBlocks no block reaches the handler twice, however
\* often its stream is opened again, with a start block or without one.
THEOREM HandledOncePerCall == Spec => []NoRedelivery
<1>1. Init => RangeInv /\ CallInv
  BY DEF Init, RangeInv, CallInv
<1>2. TypeInv /\ RangeInv /\ CallInv /\ [Next]_vars => (RangeInv /\ CallInv)'
  BY RangeInvStep, CallInvStep
<1>3. TypeInv /\ RangeInv /\ CallInv => NoRedelivery
  <2> SUFFICES ASSUME TypeInv, RangeInv, CallInv, lpc = "handle", blk \in callDone PROVE FALSE
    BY DEF NoRedelivery
  <2>1. cp <= blk /\ blk < cp
    BY DEF RangeInv, CallInv
  <2> QED BY <2>1, HeightAssumption DEF TypeInv, TypeOK, CpOK, LoopOK, NetOK
<1> QED BY <1>1, <1>2, <1>3, TypeInvInit, TypeInvStep, PTL DEF Spec


-----------------------------------------------------------------------------
(***************************************************************************)
(* Delivery from FromBlock on, which is the hypothesis of this part.       *)
(***************************************************************************)
FromBlock == StartBlock \in Nat

\* Everything owed before block i was handled.
Reached(i) == \A k \in Items : k < i => k \in done

\* A position is unset, or past a block that was handled in its turn.
Earned(pos) == pos = 0 \/ (pos - 1 \in Items \cap done /\ Reached(pos))

\* Both positions are earned, and a restart never moves forward.
PositionsInv == Earned(cp) /\ Earned(saved) /\ saved <= cp

\* The stream continues where everything owed was handled.
StreamInv ==
  /\ lpc = "range" => upNext >= StartBlock /\ Reached(upNext)
  /\ lpc \in {"handle", "checkpoint"} => blk \in Items /\ Reached(blk)
  /\ lpc = "checkpoint" => blk \in done

DeliveryInv == RangeInv /\ PositionsInv /\ StreamInv

\* Handling a block takes nothing back.
LEMMA DoneGrows ==
  ASSUME done \subseteq done', NEW i
  PROVE  (Reached(i) => Reached(i)') /\ (i \in done => i \in done')
BY DEF Reached, Items

LEMMA DeliveryInvStep ==
  ASSUME FromBlock, TypeInv, DeliveryInv, [Next]_vars PROVE DeliveryInv'
<1> USE HeightAssumption DEF FromBlock, DeliveryInv
<1>types. /\ cp \in Nat /\ saved \in Nat /\ tip \in 1..Height /\ blk \in Nat /\ upNext \in Nat
          /\ Items \subseteq Nat
  BY DEF TypeInv, TypeOK, NetOK, CpOK, LoopOK, Items, Blocks
<1>range. RangeInv'
  BY RangeInvStep
<1>same. ASSUME UNCHANGED <<done, cp, saved>> PROVE PositionsInv'
  BY <1>same DEF PositionsInv, Earned, Reached, Items
\* CheckpointBlock earns the position past the block it is called with.
<1>earn. ASSUME lpc = "checkpoint", done' = done, NEW pos, pos = blk + 1
         PROVE  Earned(pos) /\ saved <= pos
  <2>1. blk \in Items /\ blk \in done /\ Reached(blk) /\ cp <= blk /\ saved <= cp
    BY <1>earn DEF StreamInv, RangeInv, PositionsInv
  <2>2. Reached(blk + 1)
    BY <2>1, <1>types DEF Reached
  <2> QED BY <2>1, <2>2, <1>earn, <1>types DEF Earned
<1>1. CASE Subscribed
  <2> USE <1>1 DEF Subscribed, cpVars, histVars
  <2>1. PositionsInv'
    BY <1>same
  <2>2. upNext' >= StartBlock /\ Reached(upNext')
    <3>1. CASE cp = 0
      BY <3>1, <1>types DEF FirstServed, Reached, Items
    <3>2. CASE cp # 0
      BY <3>2, <1>types DEF FirstServed, PositionsInv, Earned, Items
    <3> QED BY <3>1, <3>2
  <2>3. StreamInv'
    BY <2>2 DEF StreamInv, Reached, Items
  <2> QED BY <1>range, <2>1, <2>3
<1>2. CASE Deliver
  <2> USE <1>2 DEF Deliver, cpVars, histVars
  <2>1. PositionsInv'
    BY <1>same
  <2>2. upNext \in Items /\ Reached(upNext)
    BY <1>types DEF StreamInv, Items, Blocks
  <2>3. StreamInv'
    BY <2>2 DEF StreamInv, Reached, Items
  <2> QED BY <1>range, <2>1, <2>3
<1>3. CASE HandleOK
  <2> USE <1>3 DEF HandleOK, cpVars
  <2>1. PositionsInv'
    BY DoneGrows DEF PositionsInv, Earned, Items
  <2>2. StreamInv'
    BY DoneGrows DEF StreamInv, Items
  <2> QED BY <1>range, <2>1, <2>2
<1>4. CASE CheckpointOK
  <2> USE <1>4 DEF CheckpointOK, CheckpointBlock, netVars, histVars
  <2>1. Earned(cp') /\ Earned(saved') /\ saved' <= cp'
    BY <1>earn, <1>types DEF PositionsInv
  <2>2. PositionsInv'
    BY <2>1 DEF PositionsInv, Earned, Reached, Items
  <2>3. StreamInv'
    <3>1. upNext = blk + 1 /\ blk \in Items /\ blk \in done /\ Reached(blk)
      BY DEF RangeInv, StreamInv
    <3> QED BY <3>1, <1>types DEF StreamInv, Reached, Items
  <2> QED BY <1>range, <2>2, <2>3
<1>5. CASE CheckpointFails
  <2> USE <1>5 DEF CheckpointFails, EndSession, CheckpointBlock, histVars
  <2>1. Earned(cp') /\ Earned(saved') /\ saved' <= cp'
    BY <1>earn, <1>types DEF PositionsInv
  <2>2. PositionsInv'
    BY <2>1 DEF PositionsInv, Earned, Reached, Items
  <2> QED BY <1>range, <2>2 DEF StreamInv
<1>6. CASE Restart
  <2> USE <1>6 DEF Restart, StartCall
  <2>1. PositionsInv'
    BY <1>types DEF PositionsInv, Earned, Reached, Items
  <2> QED BY <1>range, <2>1 DEF StreamInv
\* The other steps of the loop leave positions and history alone and end in no
\* state in which a stream is read.
<1>7. CASE \/ OpenGateway \/ SubscribeFails \/ RangeEnds \/ HandleFails \/ SessionEnded
           \/ SleepCancelled \/ SleepElapsed \/ ListenAgain
  <2>1. UNCHANGED <<done, cp, saved>> /\ lpc' \notin {"range", "handle", "checkpoint"}
    BY <1>7 DEF OpenGateway, SubscribeFails, RangeEnds, HandleFails, EndSession, SessionEnded,
       SleepCancelled, SleepElapsed, Return, ListenAgain, StartCall, cpVars, histVars
  <2> QED BY <1>range, <1>same, <2>1 DEF StreamInv
<1>8. CASE \/ CommitBlock \/ StreamDrops \/ StreamCancelled \/ CancelCtx \/ CloseClient
           \/ UNCHANGED vars
  <2>1. UNCHANGED <<done, cp, saved, lpc, blk, upNext>>
    BY <1>8 DEF CommitBlock, StreamDrops, StreamCancelled, CancelCtx, CloseClient, vars,
       netVars, cpVars, loopVars, histVars
  <2> QED BY <1>range, <1>same, <2>1 DEF StreamInv, Reached, Items
<1> QED
  BY <1>1, <1>2, <1>3, <1>4, <1>5, <1>6, <1>7, <1>8 DEF Next, ListenerStep, Environment

LEMMA Safety == ASSUME FromBlock PROVE Spec => [](TypeInv /\ DeliveryInv)
<1>1. Init => DeliveryInv
  BY DEF Init, DeliveryInv, RangeInv, PositionsInv, StreamInv, Earned
<1>2. TypeInv /\ DeliveryInv /\ [Next]_vars => DeliveryInv'
  BY DeliveryInvStep
<1> QED BY <1>1, <1>2, TypeInvInit, TypeInvStep, PTL DEF Spec

-----------------------------------------------------------------------------
(***************************************************************************)
(* The block listener implements Delivery.                                 *)
(***************************************************************************)
Recorded == {i \in Items : i < cp}

LEMMA DeliverySimulation ==
  ASSUME FromBlock, TypeInv, DeliveryInv, [Next]_vars PROVE [D!Next]_(D!vars)
<1> USE HeightAssumption
<1>types. cp \in Nat /\ saved \in Nat /\ blk \in Nat /\ Items \subseteq Nat
  BY DEF TypeInv, TypeOK, NetOK, CpOK, LoopOK, Items, Blocks
<1>next. Recorded' = {i \in Items : i < cp'}
  BY DEF Recorded, Items
<1>1. CASE UNCHANGED <<done, cp>>
  BY <1>1, <1>next DEF D!vars, Recorded
<1>2. CASE HandleOK
  <2>1. blk \in Items /\ cp <= blk /\ Reached(blk)
    BY <1>2 DEF HandleOK, DeliveryInv, RangeInv, StreamInv
  <2>2. blk \notin Recorded
    BY <1>types, <2>1 DEF Recorded
  <2>3. D!Before(blk) \subseteq done
    BY <2>1 DEF Reached, D!Before
  <2>4. D!Process(blk)
    BY <1>2, <1>next, <2>2, <2>3 DEF HandleOK, cpVars, Recorded, D!Process
  <2> QED BY <2>1, <2>4 DEF D!Next
<1>3. ASSUME lpc = "checkpoint", cp' = blk + 1, done' = done PROVE D!Next
  <2>1. blk \in Items /\ cp <= blk /\ blk \in done
    BY <1>3 DEF DeliveryInv, RangeInv, StreamInv
  <2>2. Recorded' = D!UpTo(blk)
    <3>1. \A i \in Items : i < blk + 1 <=> i <= blk
      BY <1>types
    <3> QED BY <1>3, <1>next, <3>1 DEF D!UpTo
  <2>3. blk \notin Recorded
    BY <1>types, <2>1 DEF Recorded
  <2> QED BY <1>3, <2>1, <2>2, <2>3 DEF D!Next, D!Record, Recorded
<1>4. CASE Restart
  <2>1. cp' = saved /\ done' = done /\ saved <= cp /\ Earned(saved)
    BY <1>4 DEF Restart, StartCall, DeliveryInv, PositionsInv
  <2>2. CASE saved = 0
    <3>1. \A i \in Items : ~(i < 0)
      BY <1>types
    <3>2. Recorded' = {}
      BY <1>next, <2>1, <2>2, <3>1
    <3> QED BY <2>1, <3>2 DEF D!Next, D!Forget, Recorded
  <2>3. CASE saved # 0
    <3>1. saved - 1 \in Recorded
      BY <1>types, <2>1, <2>3 DEF Recorded, Earned
    <3>2. Recorded' = D!UpTo(saved - 1)
      <4>1. \A i \in Items : i < saved <=> i <= saved - 1
        BY <1>types
      <4> QED BY <1>next, <2>1, <4>1 DEF D!UpTo
    <3> QED BY <2>1, <3>1, <3>2 DEF D!Next, D!Forget, Recorded
  <2> QED BY <2>2, <2>3
<1>5. CASE CheckpointOK
  BY <1>3, <1>5 DEF CheckpointOK, CheckpointBlock, histVars
<1>6. CASE CheckpointFails
  BY <1>1, <1>3, <1>6 DEF CheckpointFails, CheckpointBlock, histVars
<1>7. CASE \/ OpenGateway \/ Subscribed \/ SubscribeFails \/ Deliver \/ RangeEnds \/ HandleFails
           \/ SessionEnded \/ SleepCancelled \/ SleepElapsed
  BY <1>1, <1>7 DEF OpenGateway, Subscribed, SubscribeFails, Deliver, RangeEnds, HandleFails,
     SessionEnded, SleepCancelled, SleepElapsed, cpVars, histVars
<1>8. CASE \/ CommitBlock \/ StreamDrops \/ StreamCancelled \/ CancelCtx \/ CloseClient
           \/ ListenAgain \/ UNCHANGED vars
  BY <1>1, <1>8 DEF CommitBlock, StreamDrops, StreamCancelled, CancelCtx, CloseClient,
     ListenAgain, StartCall, vars, cpVars, histVars
<1> QED BY <1>2, <1>4, <1>5, <1>6, <1>7, <1>8 DEF Next, ListenerStep, Environment

\* ListenBlocks with a start block implements at-least-once, in-order delivery:
\* no block is skipped, and neither the position in memory nor the one a restart
\* finds is past a block that was not handled.
THEOREM BlocksImplementDelivery == ASSUME FromBlock PROVE Spec => ImplementsDelivery
<1>1. Init => D!Init
  BY HeightAssumption DEF Init, D!Init, Items, Blocks
<1>2. TypeInv /\ DeliveryInv /\ [Next]_vars => [D!Next]_(D!vars)
  BY DeliverySimulation
<1> QED BY <1>1, <1>2, Safety, PTL DEF Spec, ImplementsDelivery, D!Spec

DP == INSTANCE DeliveryProofs WITH recorded <- {i \in Items : i < cp}

\* No block is skipped: with a start block, whatever streams drop, processes
\* restart and contexts end, ListenBlocks handles a block only after every earlier
\* one from the start block on, and its position excludes only what was handled.
THEOREM NoBlockSkipped ==
  ASSUME FromBlock PROVE Spec => [](D!InOrder /\ D!NeverAhead)
<1>1. Items \subseteq Int
  BY HeightAssumption DEF Items, Blocks
<1>2. DP!Spec => [](DP!InOrder /\ DP!NeverAhead)
  BY <1>1, DP!DeliveryKeepsPromise
<1>3. D!Init <=> DP!Init
  BY DEF D!Init, DP!Init
<1>4. [D!Next]_(D!vars) <=> [DP!Next]_(DP!vars)
  BY DEF D!Next, DP!Next, D!vars, DP!vars, D!Process, DP!Process, D!Record, DP!Record,
     D!Forget, DP!Forget, D!Before, DP!Before, D!UpTo, DP!UpTo
<1>5. DP!InOrder /\ DP!NeverAhead <=> (D!InOrder /\ D!NeverAhead)
  BY DEF D!InOrder, DP!InOrder, D!NeverAhead, DP!NeverAhead, D!Before, DP!Before
<1> QED
  BY <1>2, <1>3, <1>4, <1>5, BlocksImplementDelivery, PTL
  DEF ImplementsDelivery, D!Spec, DP!Spec

=============================================================================
