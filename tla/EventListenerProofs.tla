------------------------ MODULE EventListenerProofs ------------------------
(***************************************************************************)
(* Proofs about EventListener, for every ledger, every bound and every     *)
(* choice of checkpointer, connection and delay range.                     *)
(***************************************************************************)
EXTENDS EventListener, ErrorsProofs

USE DEF Events, NextCommit

-----------------------------------------------------------------------------
(***************************************************************************)
(* Type correctness. held \in Nat needs the accounting of gateways, which  *)
(* in turn needs to know when a forwarder can be running.                  *)
(***************************************************************************)
ForwarderInSession == fpc # "none" => lpc \in {"range", "handle", "checkpoint"}

LoopInv == TypeOK /\ GatewayAccounting /\ ForwarderInSession

\* Opening a stream fails with a classified error, whatever the gRPC code
\* (classify with phaseEvaluate).
LEMMA OpenErrorKind ==
  \A code \in OpenCodes :
    classify(Failure(code), NoTxID, "evaluate", TRUE).Kind
      \in {"canceled", "timeout", "unavailable", "endorsement"}
<1> SUFFICES ASSUME NEW code \in {"Canceled", "DeadlineExceeded", "Unavailable", "Unknown"}
             PROVE  classify(Failure(code), NoTxID, "evaluate", TRUE).Kind
                      \in {"canceled", "timeout", "unavailable", "endorsement"}
  BY DEF OpenCodes
<1>1. classify(Failure(code), NoTxID, "evaluate", TRUE).Kind = kindFromCode(code, "evaluate")
  BY EvaluateFailure
<1>2. kindFromCode(code, "evaluate") \in {"canceled", "timeout", "unavailable", "endorsement"}
  BY DEF kindFromCode
<1> QED BY <1>1, <1>2

LEMMA BackoffRange == minBackoff \in Nat /\ maxBackoff \in Nat /\ minBackoff <= maxBackoff
BY RetryAssumption DEF minBackoff, maxBackoff, DefaultMin

LEMMA HeightNat == Height \in Nat \ {0}
BY NAssumption, BlockAssumption DEF Height

LEMMA LoopInvInit == Init => LoopInv
<1> SUFFICES ASSUME Init PROVE LoopInv
  OBVIOUS
<1> USE NAssumption, BackoffRange, HeightNat DEF Init
<1>1. NetOK /\ CpOK /\ HistoryOK
  BY DEF NetOK, CpOK, HistoryOK, Unset, Positions
<1>2. FlagsOK
  BY DEF FlagsOK
<1>3. LoopOK /\ ForwarderOK /\ CountsOK
  BY DEF LoopOK, ForwarderOK, CountsOK
<1>4. GatewayAccounting /\ ForwarderInSession
  BY DEF GatewayAccounting, ForwarderInSession
<1> QED BY <1>1, <1>2, <1>3, <1>4 DEF LoopInv, TypeOK

LEMMA LoopInvStep == LoopInv /\ [Next]_vars => LoopInv'
<1> SUFFICES ASSUME LoopInv, [Next]_vars PROVE LoopInv'
  OBVIOUS
<1>kinds. {configError.Kind, "unavailable", "canceled", "timeout", "endorsement"} \subseteq Kinds
  BY DEF configError, newError, Kinds, kindCode
<1> USE DEF LoopInv, TypeOK, netVars, cpVars, loopVars, fwdVars, gwVars, envVars, histVars
<1>1. CASE OpenGateway
  <2> USE <1>1 DEF OpenGateway
  <2>1. NetOK' /\ CpOK' /\ HistoryOK'
    BY NAssumption, HeightNat DEF NetOK, CpOK, HistoryOK, LoopOK
  <2>2. FlagsOK'
    BY DEF FlagsOK
  <2>3. LoopOK' /\ ForwarderOK' /\ ForwarderInSession'
    BY <1>kinds, NAssumption, BackoffRange DEF LoopOK, ForwarderOK, ForwarderInSession, NetOK
  <2>4. CountsOK' /\ GatewayAccounting'
    BY DEF CountsOK, GatewayAccounting, LoopOK, ForwarderOK, ForwarderInSession
  <2> QED BY <2>1, <2>2, <2>3, <2>4
<1>2. CASE Subscribed
  <2> USE <1>2 DEF Subscribed
  <2>1. NetOK' /\ CpOK' /\ HistoryOK'
    BY NAssumption, HeightNat DEF NetOK, CpOK, HistoryOK, LoopOK
  <2>2. FlagsOK'
    BY DEF FlagsOK
  <2>3. LoopOK' /\ ForwarderOK' /\ ForwarderInSession'
    BY NAssumption, BackoffRange DEF LoopOK, ForwarderOK, ForwarderInSession, NetOK
  <2>4. CountsOK' /\ GatewayAccounting'
    BY DEF CountsOK, GatewayAccounting, LoopOK, ForwarderOK, ForwarderInSession
  <2> QED BY <2>1, <2>2, <2>3, <2>4
<1>3. CASE SubscribeFails
  <2> USE <1>3 DEF SubscribeFails
  <2>k. lerr' \in Kinds
    BY OpenErrorKind, <1>kinds
  <2>1. NetOK' /\ CpOK' /\ HistoryOK'
    BY NAssumption, HeightNat DEF NetOK, CpOK, HistoryOK, LoopOK
  <2>2. FlagsOK'
    BY DEF FlagsOK
  <2>3. LoopOK' /\ ForwarderOK' /\ ForwarderInSession'
    BY <2>k, NAssumption, BackoffRange DEF LoopOK, ForwarderOK, ForwarderInSession, NetOK
  <2>4. CountsOK' /\ GatewayAccounting'
    BY DEF CountsOK, GatewayAccounting, LoopOK, ForwarderOK, ForwarderInSession
  <2> QED BY <2>1, <2>2, <2>3, <2>4
<1>4. CASE HandleOK
  <2> USE <1>4 DEF HandleOK
  <2>1. NetOK' /\ CpOK' /\ HistoryOK'
    BY NAssumption, HeightNat DEF NetOK, CpOK, HistoryOK, LoopOK
  <2>2. FlagsOK'
    BY DEF FlagsOK
  <2>3. LoopOK' /\ ForwarderOK' /\ ForwarderInSession'
    BY NAssumption, BackoffRange DEF LoopOK, ForwarderOK, ForwarderInSession, NetOK
  <2>4. CountsOK' /\ GatewayAccounting'
    BY DEF CountsOK, GatewayAccounting, LoopOK, ForwarderOK, ForwarderInSession
  <2> QED BY <2>1, <2>2, <2>3, <2>4
<1>5. CASE HandleFails
  <2> USE <1>5 DEF HandleFails, CloseStream
  <2>1. NetOK' /\ CpOK' /\ HistoryOK'
    BY NAssumption, HeightNat DEF NetOK, CpOK, HistoryOK, LoopOK
  <2>2. FlagsOK'
    BY DEF FlagsOK
  <2>3. LoopOK' /\ ForwarderOK' /\ ForwarderInSession'
    BY NAssumption, BackoffRange DEF LoopOK, ForwarderOK, ForwarderInSession, NetOK
  <2>4. CountsOK' /\ GatewayAccounting'
    BY DEF CountsOK, GatewayAccounting, LoopOK, ForwarderOK, ForwarderInSession
  <2> QED BY <2>1, <2>2, <2>3, <2>4
<1>6. CASE CheckpointOK
  <2> USE <1>6 DEF CheckpointOK
  <2>1. NetOK' /\ CpOK' /\ HistoryOK'
    BY NAssumption, HeightNat, BlockAssumption DEF NetOK, CpOK, HistoryOK, LoopOK, Positions, PosOf
  <2>2. FlagsOK'
    BY DEF FlagsOK
  <2>3. LoopOK' /\ ForwarderOK' /\ ForwarderInSession'
    BY NAssumption, BackoffRange DEF LoopOK, ForwarderOK, ForwarderInSession, NetOK
  <2>4. CountsOK' /\ GatewayAccounting'
    BY DEF CountsOK, GatewayAccounting, LoopOK, ForwarderOK, ForwarderInSession
  <2> QED BY <2>1, <2>2, <2>3, <2>4
<1>7. CASE CheckpointFails
  <2> USE <1>7 DEF CheckpointFails, CloseStream
  <2>1. NetOK' /\ CpOK' /\ HistoryOK'
    BY NAssumption, HeightNat, BlockAssumption DEF NetOK, CpOK, HistoryOK, LoopOK, Positions, PosOf
  <2>2. FlagsOK'
    BY DEF FlagsOK
  <2>3. LoopOK' /\ ForwarderOK' /\ ForwarderInSession'
    BY NAssumption, BackoffRange DEF LoopOK, ForwarderOK, ForwarderInSession, NetOK
  <2>4. CountsOK' /\ GatewayAccounting'
    BY DEF CountsOK, GatewayAccounting, LoopOK, ForwarderOK, ForwarderInSession
  <2> QED BY <2>1, <2>2, <2>3, <2>4
<1>8. CASE RangeEnds
  <2> USE <1>8 DEF RangeEnds
  <2>1. NetOK' /\ CpOK' /\ HistoryOK'
    BY NAssumption, HeightNat DEF NetOK, CpOK, HistoryOK, LoopOK
  <2>2. FlagsOK'
    BY DEF FlagsOK
  <2>3. LoopOK' /\ ForwarderOK' /\ ForwarderInSession'
    BY <1>kinds, NAssumption, BackoffRange DEF LoopOK, ForwarderOK, ForwarderInSession, NetOK
  <2>4. CountsOK' /\ GatewayAccounting'
    BY DEF CountsOK, GatewayAccounting, LoopOK, ForwarderOK, ForwarderInSession
  <2> QED BY <2>1, <2>2, <2>3, <2>4
<1>9. CASE SessionEnded
  <2> USE <1>9 DEF SessionEnded
  <2>1. NetOK' /\ CpOK' /\ HistoryOK'
    BY NAssumption, HeightNat DEF NetOK, CpOK, HistoryOK, LoopOK
  <2>2. FlagsOK'
    BY DEF FlagsOK
  <2>3. LoopOK' /\ ForwarderOK' /\ ForwarderInSession'
    BY NAssumption, BackoffRange DEF LoopOK, ForwarderOK, ForwarderInSession, NetOK
  <2>4. CountsOK' /\ GatewayAccounting'
    BY DEF CountsOK, GatewayAccounting, LoopOK, ForwarderOK, ForwarderInSession
  <2> QED BY <2>1, <2>2, <2>3, <2>4
<1>10. CASE SleepCancelled
  <2> USE <1>10 DEF SleepCancelled
  <2>1. NetOK' /\ CpOK' /\ HistoryOK'
    BY NAssumption, HeightNat DEF NetOK, CpOK, HistoryOK, LoopOK
  <2>2. FlagsOK'
    BY DEF FlagsOK
  <2>3. LoopOK' /\ ForwarderOK' /\ ForwarderInSession'
    BY NAssumption, BackoffRange DEF LoopOK, ForwarderOK, ForwarderInSession, NetOK
  <2>4. CountsOK' /\ GatewayAccounting'
    BY DEF CountsOK, GatewayAccounting, LoopOK, ForwarderOK, ForwarderInSession
  <2> QED BY <2>1, <2>2, <2>3, <2>4
<1>11. CASE SleepElapsed
  <2> USE <1>11 DEF SleepElapsed
  <2>1. NetOK' /\ CpOK' /\ HistoryOK'
    BY NAssumption, HeightNat DEF NetOK, CpOK, HistoryOK, LoopOK
  <2>2. FlagsOK'
    BY DEF FlagsOK
  <2>3. LoopOK' /\ ForwarderOK' /\ ForwarderInSession'
    BY NAssumption, BackoffRange DEF LoopOK, ForwarderOK, ForwarderInSession, NetOK, MinOf
  <2>4. CountsOK' /\ GatewayAccounting'
    BY DEF CountsOK, GatewayAccounting, LoopOK, ForwarderOK, ForwarderInSession
  <2> QED BY <2>1, <2>2, <2>3, <2>4
<1>12. CASE Receive
  <2> USE <1>12 DEF Receive
  <2>1. NetOK' /\ CpOK' /\ HistoryOK'
    BY NAssumption, HeightNat DEF NetOK, CpOK, HistoryOK, LoopOK
  <2>2. FlagsOK'
    BY DEF FlagsOK
  <2>3. LoopOK' /\ ForwarderOK' /\ ForwarderInSession'
    BY NAssumption, BackoffRange DEF LoopOK, ForwarderOK, ForwarderInSession, NetOK
  <2>4. CountsOK' /\ GatewayAccounting'
    BY DEF CountsOK, GatewayAccounting, LoopOK, ForwarderOK, ForwarderInSession
  <2> QED BY <2>1, <2>2, <2>3, <2>4
<1>13. CASE Deliver
  <2> USE <1>13 DEF Deliver
  <2>1. NetOK' /\ CpOK' /\ HistoryOK'
    BY NAssumption, HeightNat DEF NetOK, CpOK, HistoryOK, LoopOK
  <2>2. FlagsOK'
    BY DEF FlagsOK
  <2>3. LoopOK' /\ ForwarderOK' /\ ForwarderInSession'
    BY NAssumption, BackoffRange DEF LoopOK, ForwarderOK, ForwarderInSession, NetOK
  <2>4. CountsOK' /\ GatewayAccounting'
    BY DEF CountsOK, GatewayAccounting, LoopOK, ForwarderOK, ForwarderInSession
  <2> QED BY <2>1, <2>2, <2>3, <2>4
<1>14. CASE SendCancelled
  <2> USE <1>14 DEF SendCancelled
  <2>1. NetOK' /\ CpOK' /\ HistoryOK'
    BY NAssumption, HeightNat DEF NetOK, CpOK, HistoryOK, LoopOK
  <2>2. FlagsOK'
    BY DEF FlagsOK
  <2>3. LoopOK' /\ ForwarderOK' /\ ForwarderInSession'
    BY NAssumption, BackoffRange DEF LoopOK, ForwarderOK, ForwarderInSession, NetOK
  <2>4. CountsOK' /\ GatewayAccounting'
    BY DEF CountsOK, GatewayAccounting, LoopOK, ForwarderOK, ForwarderInSession
  <2> QED BY <2>1, <2>2, <2>3, <2>4
<1>15. CASE UpstreamClosed
  <2> USE <1>15 DEF UpstreamClosed
  <2>1. NetOK' /\ CpOK' /\ HistoryOK'
    BY NAssumption, HeightNat DEF NetOK, CpOK, HistoryOK, LoopOK
  <2>2. FlagsOK'
    BY DEF FlagsOK
  <2>3. LoopOK' /\ ForwarderOK' /\ ForwarderInSession'
    BY <1>kinds, NAssumption, BackoffRange DEF LoopOK, ForwarderOK, ForwarderInSession, NetOK
  <2>4. CountsOK' /\ GatewayAccounting'
    BY DEF CountsOK, GatewayAccounting, LoopOK, ForwarderOK, ForwarderInSession
  <2> QED BY <2>1, <2>2, <2>3, <2>4
<1>16. CASE Release
  <2> USE <1>16 DEF Release
  <2>1. NetOK' /\ CpOK' /\ HistoryOK'
    BY NAssumption, HeightNat DEF NetOK, CpOK, HistoryOK, LoopOK
  <2>2. FlagsOK'
    BY DEF FlagsOK
  <2>3. LoopOK' /\ ForwarderOK' /\ ForwarderInSession'
    BY NAssumption, BackoffRange DEF LoopOK, ForwarderOK, ForwarderInSession, NetOK
  <2>4. CountsOK' /\ GatewayAccounting'
    BY DEF CountsOK, GatewayAccounting, LoopOK, ForwarderOK, ForwarderInSession
  <2> QED BY <2>1, <2>2, <2>3, <2>4
<1>17. CASE StreamCancelled
  <2> USE <1>17 DEF StreamCancelled
  <2>1. NetOK' /\ CpOK' /\ HistoryOK'
    BY NAssumption, HeightNat DEF NetOK, CpOK, HistoryOK, LoopOK
  <2>2. FlagsOK'
    BY DEF FlagsOK
  <2>3. LoopOK' /\ ForwarderOK' /\ ForwarderInSession'
    BY NAssumption, BackoffRange DEF LoopOK, ForwarderOK, ForwarderInSession, NetOK
  <2>4. CountsOK' /\ GatewayAccounting'
    BY DEF CountsOK, GatewayAccounting, LoopOK, ForwarderOK, ForwarderInSession
  <2> QED BY <2>1, <2>2, <2>3, <2>4
<1>18. CASE CommitBlock
  <2> USE <1>18 DEF CommitBlock
  <2>1. NetOK' /\ CpOK' /\ HistoryOK'
    BY NAssumption, HeightNat DEF NetOK, CpOK, HistoryOK, LoopOK
  <2>2. FlagsOK'
    BY DEF FlagsOK
  <2>3. LoopOK' /\ ForwarderOK' /\ ForwarderInSession'
    BY NAssumption, BackoffRange DEF LoopOK, ForwarderOK, ForwarderInSession, NetOK
  <2>4. CountsOK' /\ GatewayAccounting'
    BY DEF CountsOK, GatewayAccounting, LoopOK, ForwarderOK, ForwarderInSession
  <2> QED BY <2>1, <2>2, <2>3, <2>4
<1>19. CASE StreamDrops
  <2> USE <1>19 DEF StreamDrops
  <2>1. NetOK' /\ CpOK' /\ HistoryOK'
    BY NAssumption, HeightNat DEF NetOK, CpOK, HistoryOK, LoopOK
  <2>2. FlagsOK'
    BY DEF FlagsOK
  <2>3. LoopOK' /\ ForwarderOK' /\ ForwarderInSession'
    BY NAssumption, BackoffRange DEF LoopOK, ForwarderOK, ForwarderInSession, NetOK
  <2>4. CountsOK' /\ GatewayAccounting'
    BY DEF CountsOK, GatewayAccounting, LoopOK, ForwarderOK, ForwarderInSession
  <2> QED BY <2>1, <2>2, <2>3, <2>4
<1>20. CASE CancelCtx
  <2> USE <1>20 DEF CancelCtx
  <2>1. NetOK' /\ CpOK' /\ HistoryOK'
    BY NAssumption, HeightNat DEF NetOK, CpOK, HistoryOK, LoopOK
  <2>2. FlagsOK'
    BY DEF FlagsOK
  <2>3. LoopOK' /\ ForwarderOK' /\ ForwarderInSession'
    BY NAssumption, BackoffRange DEF LoopOK, ForwarderOK, ForwarderInSession, NetOK
  <2>4. CountsOK' /\ GatewayAccounting'
    BY DEF CountsOK, GatewayAccounting, LoopOK, ForwarderOK, ForwarderInSession
  <2> QED BY <2>1, <2>2, <2>3, <2>4
<1>21. CASE CloseClient
  <2> USE <1>21 DEF CloseClient
  <2>1. NetOK' /\ CpOK' /\ HistoryOK'
    BY NAssumption, HeightNat DEF NetOK, CpOK, HistoryOK, LoopOK
  <2>2. FlagsOK'
    BY DEF FlagsOK
  <2>3. LoopOK' /\ ForwarderOK' /\ ForwarderInSession'
    BY NAssumption, BackoffRange DEF LoopOK, ForwarderOK, ForwarderInSession, NetOK
  <2>4. CountsOK' /\ GatewayAccounting'
    BY DEF CountsOK, GatewayAccounting, LoopOK, ForwarderOK, ForwarderInSession
  <2> QED BY <2>1, <2>2, <2>3, <2>4
<1>23. CASE ListenAgain
  <2> USE <1>23 DEF ListenAgain, StartCall
  <2>1. NetOK' /\ CpOK' /\ HistoryOK'
    BY NAssumption, HeightNat DEF NetOK, CpOK, HistoryOK, LoopOK
  <2>2. FlagsOK'
    BY DEF FlagsOK
  <2>3. LoopOK' /\ ForwarderOK' /\ ForwarderInSession'
    BY NAssumption, BackoffRange DEF LoopOK, ForwarderOK, ForwarderInSession, NetOK
  <2>4. CountsOK' /\ GatewayAccounting'
    BY DEF CountsOK, GatewayAccounting, LoopOK, ForwarderOK, ForwarderInSession
  <2> QED BY <2>1, <2>2, <2>3, <2>4
<1>24. CASE Restart
  <2> USE <1>24 DEF Restart, StartCall
  <2>1. NetOK' /\ CpOK' /\ HistoryOK'
    BY NAssumption, HeightNat DEF NetOK, CpOK, HistoryOK, LoopOK
  <2>2. FlagsOK'
    BY DEF FlagsOK
  <2>3. LoopOK' /\ ForwarderOK' /\ ForwarderInSession'
    BY NAssumption, BackoffRange DEF LoopOK, ForwarderOK, ForwarderInSession, NetOK
  <2>4. CountsOK' /\ GatewayAccounting'
    BY DEF CountsOK, GatewayAccounting, LoopOK, ForwarderOK, ForwarderInSession
  <2> QED BY <2>1, <2>2, <2>3, <2>4
<1>25. CASE UNCHANGED vars
  <2> USE <1>25 DEF vars
  <2>1. NetOK' /\ CpOK' /\ HistoryOK'
    BY NAssumption, HeightNat DEF NetOK, CpOK, HistoryOK, LoopOK
  <2>2. FlagsOK'
    BY DEF FlagsOK
  <2>3. LoopOK' /\ ForwarderOK' /\ ForwarderInSession'
    BY NAssumption, BackoffRange DEF LoopOK, ForwarderOK, ForwarderInSession, NetOK
  <2>4. CountsOK' /\ GatewayAccounting'
    BY DEF CountsOK, GatewayAccounting, LoopOK, ForwarderOK, ForwarderInSession
  <2> QED BY <2>1, <2>2, <2>3, <2>4
<1> QED
  BY <1>1, <1>2, <1>3, <1>4, <1>5, <1>6, <1>7, <1>8, <1>9, <1>10, <1>11,
     <1>12, <1>13, <1>14, <1>15, <1>16, <1>17, <1>18, <1>19, <1>20, <1>21,
     <1>23, <1>24, <1>25
  DEF Next, ListenerStep, ForwarderStep, Environment

\* Every variable of the listener, its forwarder and its surroundings keeps its
\* type, in every behaviour of the code.
THEOREM TypeCorrect == Spec => []TypeOK
<1>1. LoopInv => TypeOK
  BY DEF LoopInv
<1> QED BY LoopInvInit, LoopInvStep, <1>1, PTL DEF Spec

\* Each gateway acquired by ListenChaincodeEvents or ChaincodeEvents has exactly
\* one holder that will release it.
THEOREM GatewaysAccounted == Spec => []GatewayAccounting
<1>1. LoopInv => GatewayAccounting
  BY DEF LoopInv
<1> QED BY LoopInvInit, LoopInvStep, <1>1, PTL DEF Spec

-----------------------------------------------------------------------------
(***************************************************************************)
(* Delivery from FromBlock on. The hypothesis of this part is that a start *)
(* block is given.                                                         *)
(***************************************************************************)
FromBlock == StartBlock \in Nat

\* Everything owed before event i was handled.
Reached(i) == \A k \in Items : k < i => k \in done

\* A position is unset, or that of an event handled in its turn.
Earned(pos) ==
  \/ pos = Unset
  \/ pos.tx \in Items /\ pos = PosOf(pos.tx) /\ pos.tx \in done /\ Reached(pos.tx)

PositionsInv ==
  /\ Earned(cp) /\ Earned(saved)
  /\ saved.tx <= cp.tx

\* The event in the hands of the loop is the next one after the checkpoint.
HandlingInv ==
  /\ lpc \in {"handle", "checkpoint"} => lev \in Items /\ cp.tx < lev /\ Reached(lev)
  /\ lpc = "checkpoint" => lev \in done

\* The forwarder and upstream hold exactly what follows the loop's event.
Ahead == IF fpc = "send" THEN fev ELSE upNext
StreamInv ==
  fpc \in {"recv", "send"} =>
    /\ \A i \in Events : i >= upNext => i \in Items
    /\ fpc = "send" => fev \in Items /\ upNext = fev + 1
    /\ lpc = "range" => cp.tx < Ahead /\ Reached(Ahead)
    /\ lpc \in {"handle", "checkpoint"} => Ahead = lev + 1

\* What this call handled is checkpointed, but for an event just handled.
CallInv ==
  \A j \in callDone : j <= cp.tx \/ (lpc = "checkpoint" /\ j = lev) \/ lpc = "returned"

DoneInv == done \subseteq Items /\ \A j \in done : Reached(j)

DeliveryInv == PositionsInv /\ HandlingInv /\ StreamInv /\ CallInv /\ DoneInv /\ slot = "own" /\ chosen = "own"

\* A stream resumed from the position of event k serves exactly what follows k:
\* the rest of its block and the later blocks (WithCheckpoint).
LEMMA ServesAfter ==
  ASSUME NEW k \in Events, NEW i \in Events
  PROVE  Serves(i, PosOf(k)) <=> i > k
<1>1. PosOf(k) # Unset
  BY NAssumption DEF PosOf, Unset
<1>2. Block[i] \in Nat /\ Block[k] \in Nat
  BY BlockAssumption
<1>3. i <= k => Block[i] <= Block[k]
  BY BlockAssumption
<1>4. k <= i => Block[k] <= Block[i]
  BY BlockAssumption
<1> QED BY <1>1, <1>2, <1>3, <1>4, NAssumption DEF Serves, PosOf

\* Without a checkpoint the start block decides.
LEMMA ServesUnset ==
  ASSUME FromBlock, NEW i \in Events
  PROVE  Serves(i, Unset) <=> i \in Items
BY DEF Serves, Items, FromBlock

\* A stream that starts at first leaves out only what was handled.
LEMMA StartsInTurn ==
  ASSUME FromBlock, TypeOK, Earned(cp), NEW first \in 1..(N + 1),
         \A i \in Events : Serves(i, cp) <=> i >= first
  PROVE  /\ Reached(first) /\ cp.tx < first
         /\ \A i \in Events : i >= first => i \in Items
<1> USE NAssumption
<1>1. CASE cp = Unset
  <2>1. \A i \in Events : i \in Items <=> i >= first
    BY <1>1, ServesUnset
  <2> QED BY <1>1, <2>1 DEF Reached, Unset, Items
<1>2. CASE cp # Unset
  <2>1. cp.tx \in Items /\ cp.tx \in Events /\ cp = PosOf(cp.tx) /\ cp.tx \in done /\ Reached(cp.tx)
    BY <1>2 DEF Earned, Items
  <2>2. \A i \in Events : i > cp.tx <=> i >= first
    BY <2>1, ServesAfter
  <2>3. \A i \in Events : i > cp.tx => i \in Items
    <3> SUFFICES ASSUME NEW i \in Events, i > cp.tx PROVE i \in Items
      OBVIOUS
    <3>1. Block[cp.tx] <= Block[i] /\ Block[cp.tx] \in Nat /\ Block[i] \in Nat
      BY <2>1, BlockAssumption
    <3>2. Block[cp.tx] >= StartBlock /\ StartBlock \in Nat
      BY <2>1 DEF Items, FromBlock
    <3> QED BY <3>1, <3>2 DEF Items
  <2>4. first = cp.tx + 1
    <3>1. ~(cp.tx >= first)
      BY <2>1, <2>2
    <3>2. first \in Events => first > cp.tx
      BY <2>2
    <3>3. cp.tx + 1 \in Events => cp.tx + 1 >= first
      BY <2>1, <2>2
    <3> QED BY <2>1, <3>1, <3>2, <3>3
  <2>5. Reached(first)
    BY <2>1, <2>4 DEF Reached, Items
  <2> QED BY <2>1, <2>2, <2>3, <2>4, <2>5
<1> QED BY <1>1, <1>2

LEMMA DeliveryInvInit == ASSUME FromBlock PROVE Init => DeliveryInv
<1> SUFFICES ASSUME Init PROVE DeliveryInv
  OBVIOUS
<1>1. PositionsInv
  BY DEF Init, PositionsInv, Earned, Unset
<1> QED BY <1>1 DEF Init, DeliveryInv, HandlingInv, StreamInv, CallInv, DoneInv

\* What the delivery invariant is about.
view == <<cp, saved, lpc, lev, fpc, fev, upNext, done, callDone, slot, chosen>>

\* Handling an event in its turn keeps every turn.
LEMMA DoneGrows ==
  ASSUME NEW i, NEW e, Reached(i), done' = done \cup {e} \/ done' = done
  PROVE  Reached(i)'
BY DEF Reached, Items

\* Steps of the loop between two streams move neither position nor history.
LEMMA OutsideStream ==
  ASSUME DeliveryInv, lpc \in {"open", "subscribe", "ended", "sleep"},
         fpc \notin {"recv", "send"}, lpc' \in {"open", "subscribe", "ended", "sleep", "returned"},
         UNCHANGED <<cp, saved, fpc, done, callDone, slot, chosen>>
  PROVE  DeliveryInv'
<1> USE DEF DeliveryInv
<1>1. PositionsInv' /\ DoneInv'
  BY DEF PositionsInv, Earned, DoneInv, Reached, Items, PosOf, Unset
<1>2. HandlingInv' /\ StreamInv' /\ CallInv'
  BY DEF HandlingInv, StreamInv, CallInv
<1> QED BY <1>1, <1>2

LEMMA DeliveryInvStep ==
  ASSUME FromBlock, LoopInv, DeliveryInv, [Next]_vars
  PROVE  DeliveryInv'
<1> USE NAssumption DEF DeliveryInv
<1>types. /\ cp \in Positions /\ saved \in Positions /\ lev \in 0..N /\ fev \in 0..N
          /\ upNext \in 1..(N + 1) /\ done \subseteq Events /\ callDone \subseteq Events
          /\ Items \subseteq Events
          /\ cp.tx \in 0..N /\ saved.tx \in 0..N
  BY DEF LoopInv, TypeOK, CpOK, LoopOK, ForwarderOK, NetOK, HistoryOK, Items, Positions
<1>session. fpc # "none" => lpc \in {"range", "handle", "checkpoint"}
  BY DEF LoopInv, ForwarderInSession
<1>pos. ASSUME NEW i \in Events PROVE PosOf(i).tx = i /\ PosOf(i) # Unset
  BY DEF PosOf, Unset
<1>1. CASE UNCHANGED view
  BY <1>1 DEF view, PositionsInv, HandlingInv, StreamInv, CallInv, DoneInv, Earned, Reached, Ahead, PosOf, Unset, Items
<1>2. CASE CommitBlock
  <2>1. UNCHANGED view
    BY <1>2 DEF CommitBlock, view, cpVars, loopVars, fwdVars, histVars, envVars, netVars
  <2> QED BY <1>1, <2>1
<1>3. CASE StreamDrops
  <2>1. UNCHANGED view
    BY <1>3 DEF StreamDrops, view, cpVars, loopVars, fwdVars, histVars, envVars, netVars
  <2> QED BY <1>1, <2>1
<1>4. CASE StreamCancelled
  <2>1. UNCHANGED view
    BY <1>4 DEF StreamCancelled, view, cpVars, loopVars, fwdVars, histVars, envVars, netVars
  <2> QED BY <1>1, <2>1
<1>5. CASE CancelCtx
  <2>1. UNCHANGED view
    BY <1>5 DEF CancelCtx, view, cpVars, loopVars, fwdVars, histVars, envVars, netVars
  <2> QED BY <1>1, <2>1
<1>6. CASE CloseClient
  <2>1. UNCHANGED view
    BY <1>6 DEF CloseClient, view, cpVars, loopVars, fwdVars, histVars, envVars, netVars
  <2> QED BY <1>1, <2>1
<1>7. CASE Release
  <2>1. UNCHANGED view
    BY <1>7 DEF Release, view, cpVars, loopVars, fwdVars, histVars, envVars, netVars
  <2> QED BY <1>1, <2>1
<1>8. CASE OpenGateway
  BY <1>8, <1>types, <1>session, OutsideStream
     DEF OpenGateway, netVars, cpVars, fwdVars, envVars, histVars
<1>9. CASE SubscribeFails
  BY <1>9, <1>types, <1>session, OutsideStream
     DEF SubscribeFails, netVars, cpVars, fwdVars, envVars, histVars
<1>10. CASE SessionEnded
  BY <1>10, <1>types, <1>session, OutsideStream
     DEF SessionEnded, netVars, cpVars, fwdVars, envVars, histVars
<1>11. CASE SleepCancelled
  BY <1>11, <1>types, <1>session, OutsideStream
     DEF SleepCancelled, netVars, cpVars, fwdVars, envVars, histVars
<1>12. CASE SleepElapsed
  BY <1>12, <1>types, <1>session, OutsideStream
     DEF SleepElapsed, netVars, cpVars, fwdVars, envVars, histVars
<1>13. CASE Subscribed
  <2> USE <1>13 DEF Subscribed, cpVars, envVars
  <2>1. Resume = {cp}
    BY DEF Resume
  <2>2. PICK first \in 1..(N + 1) :
          (\A i \in Events : Serves(i, cp) <=> i >= first) /\ upNext' = first
    BY <2>1
  <2>3. /\ Reached(upNext') /\ cp.tx < upNext'
        /\ \A i \in Events : i >= upNext' => i \in Items
    BY <2>2, StartsInTurn DEF LoopInv, PositionsInv
  <2>4. StreamInv'
    BY <2>3 DEF StreamInv, Ahead, Reached, Items
  <2>5. PositionsInv' /\ HandlingInv' /\ CallInv' /\ DoneInv'
    BY DEF PositionsInv, Earned, HandlingInv, CallInv, DoneInv, Reached, Items, PosOf, Unset
  <2> QED BY <2>4, <2>5
<1>14. CASE HandleOK
  <2> USE <1>14 DEF HandleOK, netVars, cpVars, fwdVars, envVars
  <2>1. lev \in Items /\ cp.tx < lev /\ Reached(lev)
    BY DEF HandlingInv
  <2>2. PositionsInv'
    BY DoneGrows DEF PositionsInv, Earned, Items, PosOf, Unset
  <2>3. HandlingInv'
    BY <2>1, DoneGrows DEF HandlingInv, Items
  <2>4. StreamInv'
    BY DEF StreamInv, Ahead, Items
  <2>5. CallInv'
    BY <1>types DEF CallInv
  <2>6. DoneInv'
    BY <2>1, DoneGrows DEF DoneInv, Items
  <2> QED BY <2>2, <2>3, <2>4, <2>5, <2>6
<1>15. CASE HandleFails
  <2> USE <1>15 DEF HandleFails, CloseStream, cpVars, envVars, histVars
  <2>1. PositionsInv' /\ DoneInv'
    BY DEF PositionsInv, Earned, DoneInv, Reached, Items, PosOf, Unset
  <2> QED BY <2>1 DEF HandlingInv, StreamInv, CallInv
<1>16. CASE CheckpointOK
  <2> USE <1>16 DEF CheckpointOK, netVars, fwdVars, envVars, histVars
  <2>1. lev \in Items /\ lev \in Events /\ cp.tx < lev /\ Reached(lev) /\ lev \in done
    BY <1>types DEF HandlingInv
  <2>2. cp' = PosOf(lev) /\ cp'.tx = lev
    BY <2>1, <1>pos
  <2>3. Earned(cp)'
    BY <2>1, <2>2 DEF Earned, Reached, Items, PosOf, Unset
  <2>4. Earned(saved)' /\ saved'.tx <= lev
    <3>1. CASE saved' = PosOf(lev)
      BY <3>1, <2>1, <1>pos DEF Earned, Reached, Items, PosOf, Unset
    <3>2. CASE saved' = saved
      BY <3>2, <2>1, <1>types DEF PositionsInv, Earned, Reached, Items, PosOf, Unset
    <3> QED BY <3>1, <3>2
  <2>5. PositionsInv'
    BY <2>2, <2>3, <2>4 DEF PositionsInv
  <2>6. StreamInv'
    BY <2>1, <2>2, <1>types DEF StreamInv, Ahead, Reached, Items
  <2>7. CallInv'
    BY <2>1, <2>2, <1>types DEF CallInv
  <2>8. HandlingInv' /\ DoneInv'
    BY DEF HandlingInv, DoneInv, Reached, Items
  <2> QED BY <2>5, <2>6, <2>7, <2>8
<1>17. CASE CheckpointFails
  <2> USE <1>17 DEF CheckpointFails, CloseStream, envVars, histVars
  <2>1. lev \in Items /\ lev \in Events /\ cp.tx < lev /\ Reached(lev) /\ lev \in done
    BY <1>types DEF HandlingInv
  <2>2. Earned(saved)'
    BY DEF PositionsInv, Earned, Reached, Items, PosOf, Unset
  <2>3. Earned(cp)' /\ saved'.tx <= cp'.tx
    <3>1. CASE cp' = cp
      BY <3>1 DEF PositionsInv, Earned, Reached, Items, PosOf, Unset
    <3>2. CASE cp' = PosOf(lev)
      <4>1. cp'.tx = lev
        BY <3>2, <2>1, <1>pos
      <4> QED BY <3>2, <4>1, <2>1, <1>types DEF PositionsInv, Earned, Reached, Items, PosOf, Unset
    <3> QED BY <3>1, <3>2
  <2> QED BY <2>2, <2>3 DEF PositionsInv, HandlingInv, StreamInv, CallInv, DoneInv, Reached, Items
<1>18. CASE RangeEnds
  <2> USE <1>18 DEF RangeEnds, netVars, cpVars, envVars, histVars
  <2>1. PositionsInv' /\ DoneInv'
    BY DEF PositionsInv, Earned, DoneInv, Reached, Items, PosOf, Unset
  <2> QED BY <2>1 DEF HandlingInv, StreamInv, CallInv
<1>19. CASE Receive
  <2> USE <1>19 DEF Receive, cpVars, loopVars, envVars, histVars
  <2>1. PositionsInv' /\ DoneInv' /\ HandlingInv' /\ CallInv'
    BY DEF PositionsInv, Earned, DoneInv, HandlingInv, CallInv, Reached, Items, PosOf, Unset
  <2>2. upNext \in Items
    BY <1>types DEF StreamInv
  <2>3. StreamInv'
    BY <2>2, <1>types DEF StreamInv, Ahead, Reached, Items
  <2> QED BY <2>1, <2>3
<1>20. CASE Deliver
  <2> USE <1>20 DEF Deliver, netVars, cpVars, envVars, histVars
  <2>1. PositionsInv' /\ DoneInv' /\ CallInv'
    BY DEF PositionsInv, Earned, DoneInv, CallInv, Reached, Items, PosOf, Unset
  <2>2. fev \in Items /\ upNext = fev + 1 /\ cp.tx < fev /\ Reached(fev)
    BY DEF StreamInv, Ahead
  <2>3. HandlingInv'
    BY <2>2 DEF HandlingInv, Reached, Items
  <2>4. StreamInv'
    BY <2>2 DEF StreamInv, Ahead, Items
  <2> QED BY <2>1, <2>3, <2>4
<1>21. CASE SendCancelled
  <2> USE <1>21 DEF SendCancelled, netVars, cpVars, loopVars, envVars, histVars
  <2>1. PositionsInv' /\ DoneInv' /\ HandlingInv' /\ CallInv'
    BY DEF PositionsInv, Earned, DoneInv, HandlingInv, CallInv, Reached, Items, PosOf, Unset
  <2> QED BY <2>1 DEF StreamInv
<1>22. CASE UpstreamClosed
  <2> USE <1>22 DEF UpstreamClosed, netVars, cpVars, loopVars, envVars, histVars
  <2>1. PositionsInv' /\ DoneInv' /\ HandlingInv' /\ CallInv'
    BY DEF PositionsInv, Earned, DoneInv, HandlingInv, CallInv, Reached, Items, PosOf, Unset
  <2> QED BY <2>1 DEF StreamInv
<1>24. CASE ListenAgain
  <2> USE <1>24 DEF ListenAgain, StartCall, cpVars, fwdVars
  <2>1. PositionsInv' /\ DoneInv'
    BY <1>types DEF PositionsInv, Earned, DoneInv, Reached, Items, PosOf, Unset
  <2> QED BY <2>1, <1>session DEF HandlingInv, StreamInv, CallInv
<1>25. CASE Restart
  <2> USE <1>25 DEF Restart, StartCall, fwdVars
  <2>1. PositionsInv' /\ DoneInv'
    BY <1>types DEF PositionsInv, Earned, DoneInv, Reached, Items, PosOf, Unset
  <2> QED BY <2>1, <1>session DEF HandlingInv, StreamInv, CallInv
<1>26. CASE UNCHANGED vars
  <2>1. UNCHANGED view
    BY <1>26 DEF vars, view, netVars, cpVars, loopVars, fwdVars, histVars, envVars
  <2> QED BY <1>1, <2>1
<1> QED
  BY <1>2, <1>3, <1>4, <1>5, <1>6, <1>7, <1>8, <1>9, <1>10, <1>11, <1>12,
     <1>13, <1>14, <1>15, <1>16, <1>17, <1>18, <1>19, <1>20, <1>21, <1>22,
     <1>24, <1>25, <1>26
  DEF Next, ListenerStep, ForwarderStep, Environment

-----------------------------------------------------------------------------
(***************************************************************************)
(* Delivery without a start block. A stream opened before the first        *)
(* checkpoint begins at the next commit, so what is handled may begin      *)
(* anywhere, again and again; from a checkpoint on it has no hole.         *)
(***************************************************************************)
FromNextCommit == StartBlock = NextCommit

\* What was handled after event k has no hole.
Unbroken(k) == \A j \in done, i \in Events : k < i /\ i < j => i \in done

\* A position is unset, or that of a handled event with no hole after it.
Anchored(pos) == pos = Unset \/ (pos = PosOf(pos.tx) /\ pos.tx \in done /\ Unbroken(pos.tx))

AnchorsInv ==
  /\ Anchored(cp) /\ Anchored(saved) /\ saved.tx <= cp.tx
  /\ \A k \in acked : k <= cp.tx /\ Unbroken(k) /\ (Durable => k <= saved.tx)

\* What was handled was committed, so the next commit comes after all of it.
CommittedInv == \A j \in done : Committed(j)

\* The loop handles the event after the checkpoint or, without one, an event
\* that nothing handled comes after.
NextInv ==
  /\ lpc \in {"handle", "checkpoint"} =>
       /\ Committed(lev)
       /\ cp = Unset => \A j \in done : j <= lev
       /\ cp # Unset => lev = cp.tx + 1
  /\ lpc = "checkpoint" => lev \in done

\* The forwarder and upstream hold exactly what follows.
FlowInv ==
  fpc \in {"recv", "send"} =>
    /\ fpc = "send" => upNext = fev + 1 /\ Committed(fev)
    /\ lpc = "range" /\ cp = Unset => \A j \in done : j < Ahead
    /\ lpc = "range" /\ cp # Unset => Ahead = cp.tx + 1
    /\ lpc \in {"handle", "checkpoint"} => Ahead = lev + 1

OnwardInv == AnchorsInv /\ CommittedInv /\ NextInv /\ FlowInv /\ CallInv /\ slot = "own" /\ chosen = "own"

\* A stream that starts at first continues after the checkpoint or, without one,
\* after everything that was handled.
LEMMA StartsOnward ==
  ASSUME FromNextCommit, TypeOK, Anchored(cp), CommittedInv, NEW first \in 1..(N + 1),
         \A i \in Events : Serves(i, cp) <=> i >= first
  PROVE  /\ cp = Unset => \A j \in done : j < first
         /\ cp # Unset => first = cp.tx + 1
<1> USE NAssumption
<1>types. done \subseteq Events /\ tip \in Nat
  BY HeightNat DEF TypeOK, HistoryOK, NetOK
<1>1. ASSUME cp = Unset, NEW j \in done PROVE j < first
  <2>1. j \in Events /\ Block[j] \in Nat /\ Block[j] < tip
    BY <1>1, <1>types, BlockAssumption DEF CommittedInv, Committed
  <2>2. ~Serves(j, cp)
    BY <1>1, <1>types, <2>1 DEF Serves, FromNextCommit
  <2> QED BY <2>1, <2>2
<1>2. ASSUME cp # Unset PROVE first = cp.tx + 1
  <2>1. cp.tx \in Events /\ cp = PosOf(cp.tx)
    BY <1>2, <1>types DEF Anchored
  <2>2. \A i \in Events : i > cp.tx <=> i >= first
    BY <2>1, ServesAfter
  <2>3. ~(cp.tx >= first)
    BY <2>1, <2>2
  <2>4. cp.tx + 1 \in Events => cp.tx + 1 >= first
    BY <2>1, <2>2
  <2> QED BY <2>1, <2>3, <2>4
<1> QED BY <1>1, <1>2

\* Handling the event after a handled one makes no hole after anything earlier.
LEMMA StaysUnbroken ==
  ASSUME NEW k \in Int, NEW m \in done, done \subseteq Events, k <= m, Unbroken(k),
         done' = done \cup {m + 1}
  PROVE  Unbroken(k)'
<1> SUFFICES ASSUME NEW j \in done', NEW i \in Events, k < i, i < j PROVE i \in done'
  BY DEF Unbroken
<1> USE NAssumption
<1>1. CASE j \in done
  BY <1>1 DEF Unbroken
<1>2. CASE j = m + 1
  <2>1. i = m \/ i < m
    BY <1>2
  <2> QED BY <2>1 DEF Unbroken
<1> QED BY <1>1, <1>2

\* A position in memory or on disk that is not unset is a handled event.
LEMMA AnchorIsEvent ==
  ASSUME LoopInv, NEW pos \in {cp, saved}, Anchored(pos)
  PROVE  /\ pos.tx \in 0..N
         /\ pos # Unset => pos.tx \in Events
         /\ pos = Unset <=> pos.tx = 0
BY NAssumption DEF LoopInv, TypeOK, CpOK, HistoryOK, Positions, Anchored, Unset

LEMMA OnwardInit == ASSUME FromNextCommit PROVE Init => OnwardInv
<1> SUFFICES ASSUME Init PROVE OnwardInv
  OBVIOUS
<1>1. AnchorsInv
  BY DEF Init, AnchorsInv, Anchored, Unset
<1> QED BY <1>1 DEF Init, OnwardInv, CommittedInv, NextInv, FlowInv, CallInv

\* Steps of the loop between two streams move neither position nor history.
LEMMA OutsideOnward ==
  ASSUME OnwardInv, lpc \in {"open", "subscribe", "ended", "sleep"},
         fpc \notin {"recv", "send"}, lpc' \in {"open", "subscribe", "ended", "sleep", "returned"},
         UNCHANGED <<tip, cp, saved, acked, fpc, done, callDone, slot, chosen>>
  PROVE  OnwardInv'
<1> USE DEF OnwardInv
<1>1. AnchorsInv' /\ CommittedInv'
  BY DEF AnchorsInv, Anchored, CommittedInv, Committed, Unbroken, PosOf, Unset
<1>2. NextInv' /\ FlowInv' /\ CallInv'
  BY DEF NextInv, FlowInv, CallInv
<1> QED BY <1>1, <1>2

LEMMA OnwardStep ==
  ASSUME FromNextCommit, LoopInv, OnwardInv, [Next]_vars
  PROVE  OnwardInv'
<1> USE NAssumption DEF OnwardInv
<1>types. /\ cp \in Positions /\ saved \in Positions /\ lev \in 0..N /\ fev \in 0..N
          /\ upNext \in 1..(N + 1) /\ done \subseteq Events /\ callDone \subseteq Events
          /\ acked \subseteq Events /\ tip \in Nat /\ Block \in [Events -> Nat]
          /\ cp.tx \in 0..N /\ saved.tx \in 0..N
  BY HeightNat, BlockAssumption
     DEF LoopInv, TypeOK, CpOK, LoopOK, ForwarderOK, NetOK, HistoryOK, Positions
<1>session. fpc # "none" => lpc \in {"range", "handle", "checkpoint"}
  BY DEF LoopInv, ForwarderInSession
<1>inhand. (lpc \in {"handle", "checkpoint"} => lev \in Events) /\ (fpc = "send" => fev \in Events)
  BY DEF LoopInv, TypeOK, LoopOK, ForwarderOK
<1>anchors. /\ cp # Unset => cp.tx \in Events
            /\ cp = Unset <=> cp.tx = 0
            /\ saved = Unset <=> saved.tx = 0
            /\ cp # Unset => cp.tx \in done
  BY AnchorIsEvent DEF AnchorsInv, Anchored
<1>pos. ASSUME NEW i \in Events PROVE PosOf(i).tx = i /\ PosOf(i) # Unset
  BY DEF PosOf, Unset
<1>1. CASE UNCHANGED <<view, acked, tip>>
  BY <1>1 DEF view, AnchorsInv, CommittedInv, Committed, NextInv, FlowInv, CallInv, Anchored,
              Unbroken, Ahead, PosOf, Unset
<1>2. CASE CommitBlock
  <2> USE <1>2 DEF CommitBlock, cpVars, loopVars, fwdVars, histVars, envVars
  <2>1. \A i \in Events : Committed(i) => Committed(i)'
    BY <1>types DEF Committed
  <2>2. AnchorsInv' /\ CallInv'
    BY DEF AnchorsInv, CallInv, Anchored, Unbroken, PosOf, Unset
  <2>3. CommittedInv'
    BY <2>1, <1>types DEF CommittedInv
  <2>4. NextInv'
    BY <2>1, <1>inhand DEF NextInv
  <2>5. FlowInv'
    BY <2>1, <1>inhand DEF FlowInv, Ahead
  <2> QED BY <2>2, <2>3, <2>4, <2>5
<1>3. CASE StreamDrops
  <2>1. UNCHANGED <<view, acked, tip>>
    BY <1>3 DEF StreamDrops, view, cpVars, loopVars, fwdVars, histVars, envVars, netVars
  <2> QED BY <1>1, <2>1
<1>4. CASE StreamCancelled
  <2>1. UNCHANGED <<view, acked, tip>>
    BY <1>4 DEF StreamCancelled, view, cpVars, loopVars, fwdVars, histVars, envVars, netVars
  <2> QED BY <1>1, <2>1
<1>5. CASE CancelCtx
  <2>1. UNCHANGED <<view, acked, tip>>
    BY <1>5 DEF CancelCtx, view, cpVars, loopVars, fwdVars, histVars, envVars, netVars
  <2> QED BY <1>1, <2>1
<1>6. CASE CloseClient
  <2>1. UNCHANGED <<view, acked, tip>>
    BY <1>6 DEF CloseClient, view, cpVars, loopVars, fwdVars, histVars, envVars, netVars
  <2> QED BY <1>1, <2>1
<1>7. CASE Release
  <2>1. UNCHANGED <<view, acked, tip>>
    BY <1>7 DEF Release, view, cpVars, loopVars, fwdVars, histVars, envVars, netVars
  <2> QED BY <1>1, <2>1
<1>8. CASE OpenGateway
  BY <1>8, <1>session, OutsideOnward
     DEF OpenGateway, netVars, cpVars, fwdVars, envVars, histVars
<1>9. CASE SubscribeFails
  BY <1>9, <1>session, OutsideOnward
     DEF SubscribeFails, netVars, cpVars, fwdVars, envVars, histVars
<1>10. CASE SessionEnded
  BY <1>10, <1>session, OutsideOnward
     DEF SessionEnded, netVars, cpVars, fwdVars, envVars, histVars
<1>11. CASE SleepCancelled
  BY <1>11, <1>session, OutsideOnward
     DEF SleepCancelled, netVars, cpVars, fwdVars, envVars, histVars
<1>12. CASE SleepElapsed
  BY <1>12, <1>session, OutsideOnward
     DEF SleepElapsed, netVars, cpVars, fwdVars, envVars, histVars
<1>13. CASE Subscribed
  <2> USE <1>13 DEF Subscribed, cpVars, envVars
  <2>1. Resume = {cp}
    BY DEF Resume
  <2>2. PICK first \in 1..(N + 1) :
          (\A i \in Events : Serves(i, cp) <=> i >= first) /\ upNext' = first
    BY <2>1
  <2>3. (cp = Unset => \A j \in done : j < upNext') /\ (cp # Unset => upNext' = cp.tx + 1)
    BY <2>2, StartsOnward DEF LoopInv, AnchorsInv
  <2>4. FlowInv'
    BY <2>3 DEF FlowInv, Ahead, Unset
  <2>5. AnchorsInv' /\ CommittedInv' /\ NextInv' /\ CallInv'
    BY DEF AnchorsInv, Anchored, CommittedInv, Committed, NextInv, CallInv, Unbroken, PosOf, Unset
  <2> QED BY <2>4, <2>5
<1>14. CASE HandleOK
  <2> USE <1>14 DEF HandleOK, netVars, cpVars, fwdVars, envVars
  <2>1. Committed(lev) /\ lev \in Events
    BY <1>inhand DEF NextInv
  <2>2. AnchorsInv'
    <3>1. CASE cp = Unset
      <4>1. acked = {} /\ saved = Unset
        BY <3>1, <1>types, <1>anchors DEF AnchorsInv
      <4> QED BY <3>1, <4>1 DEF AnchorsInv, Anchored, Unset
    <3>2. CASE cp # Unset
      <4>1. cp.tx \in done /\ done' = done \cup {cp.tx + 1}
        BY <3>2, <1>anchors DEF NextInv
      <4>2. ASSUME NEW k \in Int, k <= cp.tx, Unbroken(k) PROVE Unbroken(k)'
        BY <4>1, <4>2, <1>types, StaysUnbroken
      <4>3. Unbroken(cp.tx)'
        BY <3>2, <4>2, <1>types DEF AnchorsInv, Anchored
      <4>4. saved = Unset \/ Unbroken(saved.tx)'
        BY <4>2, <1>types DEF AnchorsInv, Anchored
      <4>5. \A k \in acked : Unbroken(k)'
        BY <4>2, <1>types DEF AnchorsInv
      <4> QED BY <4>1, <4>3, <4>4, <4>5 DEF AnchorsInv, Anchored, Unbroken, PosOf, Unset
    <3> QED BY <3>1, <3>2
  <2>3. CommittedInv'
    BY <2>1 DEF CommittedInv, Committed
  <2>4. NextInv'
    BY <2>1, <1>types DEF NextInv, Committed, Unset
  <2>5. FlowInv'
    BY DEF FlowInv, Ahead, Committed
  <2>6. CallInv'
    BY <1>types DEF CallInv
  <2> QED BY <2>2, <2>3, <2>4, <2>5, <2>6
<1>15. CASE HandleFails
  <2> USE <1>15 DEF HandleFails, CloseStream, cpVars, envVars, histVars
  <2>1. AnchorsInv' /\ CommittedInv'
    BY DEF AnchorsInv, Anchored, CommittedInv, Committed, Unbroken, PosOf, Unset
  <2> QED BY <2>1 DEF NextInv, FlowInv, CallInv
<1>here. ASSUME lpc = "checkpoint"
         PROVE  /\ lev \in Events /\ lev \in done /\ cp.tx < lev /\ Unbroken(lev)
                /\ PosOf(lev).tx = lev /\ PosOf(lev) # Unset
  <2>1. lev \in Events /\ lev \in done
    BY <1>here, <1>inhand DEF NextInv
  <2>2. CASE cp = Unset
    <3>1. \A j \in done : j <= lev
      BY <1>here, <2>2 DEF NextInv
    <3> QED BY <2>1, <2>2, <3>1, <1>pos, <1>types, <1>anchors DEF Unbroken
  <2>3. CASE cp # Unset
    <3>1. lev = cp.tx + 1 /\ Unbroken(cp.tx)
      BY <1>here, <2>3 DEF NextInv, AnchorsInv, Anchored
    <3> QED BY <2>1, <3>1, <1>pos, <1>types DEF Unbroken
  <2> QED BY <2>2, <2>3
<1>16. CASE CheckpointOK
  <2> USE <1>16 DEF CheckpointOK, netVars, fwdVars, envVars, histVars
  <2>1. /\ lev \in Events /\ lev \in done /\ cp.tx < lev /\ Unbroken(lev)
        /\ PosOf(lev).tx = lev /\ PosOf(lev) # Unset
    BY <1>here
  <2>2. Anchored(cp)' /\ cp'.tx = lev
    BY <2>1 DEF Anchored, Unbroken, PosOf, Unset
  <2>3. Anchored(saved)' /\ saved'.tx <= lev /\ saved.tx <= saved'.tx /\ (Durable => saved'.tx = lev)
    <3>1. CASE Durable
      BY <3>1, <2>1, <1>types DEF AnchorsInv, Anchored, Unbroken, PosOf, Unset
    <3>2. CASE ~Durable
      BY <3>2, <2>1, <1>types DEF AnchorsInv, Anchored, Unbroken, PosOf, Unset
    <3> QED BY <3>1, <3>2
  <2>4. \A k \in acked' : k <= cp'.tx /\ Unbroken(k)' /\ (Durable => k <= saved'.tx)
    <3> SUFFICES ASSUME NEW k \in acked'
                 PROVE  k <= cp'.tx /\ Unbroken(k)' /\ (Durable => k <= saved'.tx)
      OBVIOUS
    <3>1. CASE k = lev
      BY <3>1, <2>1, <2>2, <2>3 DEF Unbroken
    <3>2. CASE k \in acked
      BY <3>2, <2>1, <2>2, <2>3, <1>types DEF AnchorsInv, Unbroken
    <3> QED BY <3>1, <3>2
  <2>5. AnchorsInv'
    BY <2>2, <2>3, <2>4 DEF AnchorsInv
  <2>6. FlowInv'
    BY <2>1, <2>2, <1>types DEF FlowInv, Ahead, Committed, Unset
  <2>7. CallInv'
    BY <2>1, <2>2, <1>types DEF CallInv
  <2>8. NextInv' /\ CommittedInv'
    BY DEF NextInv, CommittedInv, Committed
  <2> QED BY <2>5, <2>6, <2>7, <2>8
<1>17. CASE CheckpointFails
  <2> USE <1>17 DEF CheckpointFails, CloseStream, envVars, histVars
  <2>1. /\ lev \in Events /\ lev \in done /\ cp.tx < lev /\ Unbroken(lev)
        /\ PosOf(lev).tx = lev /\ PosOf(lev) # Unset
    BY <1>here
  <2>2. Anchored(cp)' /\ cp.tx <= cp'.tx /\ cp'.tx \in 0..N
    <3>1. CASE cp' = cp
      BY <3>1, <1>types DEF AnchorsInv, Anchored, Unbroken, PosOf, Unset
    <3>2. CASE cp' = PosOf(lev)
      BY <3>2, <2>1, <1>types DEF Anchored, Unbroken, PosOf, Unset
    <3> QED BY <3>1, <3>2
  <2>3. Anchored(saved)'
    BY DEF AnchorsInv, Anchored, Unbroken, PosOf, Unset
  <2>4. \A k \in acked' : k <= cp'.tx /\ Unbroken(k)' /\ (Durable => k <= saved'.tx)
    BY <2>2, <1>types DEF AnchorsInv, Unbroken
  <2>5. AnchorsInv'
    BY <2>2, <2>3, <2>4, <1>types DEF AnchorsInv
  <2> QED BY <2>5 DEF NextInv, FlowInv, CallInv, CommittedInv, Committed
<1>18. CASE RangeEnds
  <2> USE <1>18 DEF RangeEnds, netVars, cpVars, envVars, histVars
  <2>1. AnchorsInv' /\ CommittedInv'
    BY DEF AnchorsInv, Anchored, CommittedInv, Committed, Unbroken, PosOf, Unset
  <2> QED BY <2>1 DEF NextInv, FlowInv, CallInv
<1>19. CASE Receive
  <2> USE <1>19 DEF Receive, cpVars, loopVars, envVars, histVars
  <2>1. AnchorsInv' /\ CommittedInv' /\ NextInv' /\ CallInv'
    BY DEF AnchorsInv, Anchored, CommittedInv, Committed, NextInv, CallInv, Unbroken, PosOf, Unset
  <2>2. FlowInv'
    BY <1>types DEF FlowInv, Ahead, Committed, Unset
  <2> QED BY <2>1, <2>2
<1>20. CASE Deliver
  <2> USE <1>20 DEF Deliver, netVars, cpVars, envVars, histVars
  <2>1. AnchorsInv' /\ CommittedInv' /\ CallInv'
    BY DEF AnchorsInv, Anchored, CommittedInv, Committed, CallInv, Unbroken, PosOf, Unset
  <2>2. /\ upNext = fev + 1 /\ Committed(fev)
        /\ cp = Unset => \A j \in done : j < fev
        /\ cp # Unset => fev = cp.tx + 1
    BY DEF FlowInv, Ahead
  <2>3. NextInv'
    BY <2>2, <1>types DEF NextInv, Committed, Unset
  <2>4. FlowInv'
    BY <2>2 DEF FlowInv, Ahead
  <2> QED BY <2>1, <2>3, <2>4
<1>21. CASE SendCancelled
  <2> USE <1>21 DEF SendCancelled, cpVars, loopVars, envVars, histVars
  <2>1. AnchorsInv' /\ CommittedInv' /\ NextInv' /\ CallInv'
    BY DEF AnchorsInv, Anchored, CommittedInv, Committed, NextInv, CallInv, Unbroken, PosOf, Unset
  <2> QED BY <2>1 DEF FlowInv
<1>22. CASE UpstreamClosed
  <2> USE <1>22 DEF UpstreamClosed, netVars, cpVars, loopVars, envVars, histVars
  <2>1. AnchorsInv' /\ CommittedInv' /\ NextInv' /\ CallInv'
    BY DEF AnchorsInv, Anchored, CommittedInv, Committed, NextInv, CallInv, Unbroken, PosOf, Unset
  <2> QED BY <2>1 DEF FlowInv
<1>24. CASE ListenAgain
  <2> USE <1>24 DEF ListenAgain, StartCall, fwdVars
  <2>1. AnchorsInv' /\ CommittedInv'
    BY DEF AnchorsInv, Anchored, CommittedInv, Committed, Unbroken, PosOf, Unset
  <2> QED BY <2>1, <1>session DEF NextInv, FlowInv, CallInv
<1>25. CASE Restart
  <2> USE <1>25 DEF Restart, StartCall
  <2>1. Anchored(cp)' /\ Anchored(saved)' /\ cp' = saved /\ saved' = saved
    BY DEF AnchorsInv, Anchored, Unbroken, PosOf, Unset
  <2>2. \A k \in acked' : k <= cp'.tx /\ Unbroken(k)' /\ (Durable => k <= saved'.tx)
    BY <2>1 DEF AnchorsInv, Unbroken
  <2>3. AnchorsInv'
    BY <2>1, <2>2, <1>types DEF AnchorsInv
  <2> QED BY <2>3 DEF NextInv, FlowInv, CallInv, CommittedInv, Committed
<1>26. CASE UNCHANGED vars
  <2>1. UNCHANGED <<view, acked, tip>>
    BY <1>26 DEF vars, view, netVars, cpVars, loopVars, fwdVars, histVars, envVars
  <2> QED BY <1>1, <2>1
<1> QED
  BY <1>2, <1>3, <1>4, <1>5, <1>6, <1>7, <1>8, <1>9, <1>10, <1>11, <1>12,
     <1>13, <1>14, <1>15, <1>16, <1>17, <1>18, <1>19, <1>20, <1>21, <1>22,
     <1>24, <1>25, <1>26
  DEF Next, ListenerStep, ForwarderStep, Environment

-----------------------------------------------------------------------------
(***************************************************************************)
(* What the invariants give. Without options of its own the listener may   *)
(* resume at the position of another: the run that shares them shows it.   *)
(***************************************************************************)
LEMMA Safety == ASSUME FromBlock PROVE Spec => [](LoopInv /\ DeliveryInv)
<1>1. Init => LoopInv /\ DeliveryInv
  BY LoopInvInit, DeliveryInvInit
<1>2. LoopInv /\ DeliveryInv /\ [Next]_vars => (LoopInv /\ DeliveryInv)'
  BY LoopInvStep, DeliveryInvStep
<1> QED BY <1>1, <1>2, PTL DEF Spec

LEMMA OnwardSafety == ASSUME FromNextCommit PROVE Spec => [](LoopInv /\ OnwardInv)
<1>1. Init => LoopInv /\ OnwardInv
  BY LoopInvInit, OnwardInit
<1>2. LoopInv /\ OnwardInv /\ [Next]_vars => (LoopInv /\ OnwardInv)'
  BY LoopInvStep, OnwardStep
<1> QED BY <1>1, <1>2, PTL DEF Spec

LEMMA OptionForms == FromBlock \/ FromNextCommit
BY StartAssumption DEF FromBlock, FromNextCommit

\* No event is skipped: whatever streams drop, processes restart and contexts
\* end, ListenChaincodeEvents handles an event only after every earlier event
\* it owes: from the start block on or, without one, after a checkpointed event.
THEOREM NothingSkipped == Spec => []NoGap
<1>1. CASE FromBlock
  <2>1. LoopInv /\ DeliveryInv => NoGap
    BY <1>1 DEF DeliveryInv, DoneInv, Reached, NoGap, Owed, FromBlock
  <2> QED BY <1>1, <2>1, Safety, PTL
<1>2. CASE FromNextCommit
  <2>1. LoopInv /\ OnwardInv => NoGap
    BY <1>2 DEF OnwardInv, AnchorsInv, Unbroken, NoGap, Owed, FromNextCommit
  <2> QED BY <1>2, <2>1, OnwardSafety, PTL
<1> QED BY <1>1, <1>2, OptionForms

\* Neither the checkpoint in memory nor the persisted one excludes an event
\* that the listener owes and that was not handled.
THEOREM CheckpointNeverAhead == Spec => []CheckpointCovered
<1>1. CASE FromBlock
  <2>1. ASSUME LoopInv, DeliveryInv PROVE CheckpointCovered
    <3> SUFFICES ASSUME NEW pos \in {cp, saved}, pos # Unset, NEW i \in Items, i \notin done
                 PROVE  Serves(i, pos)
      BY <1>1 DEF CheckpointCovered, Owed, FromBlock
    <3>1. pos.tx \in Items /\ pos = PosOf(pos.tx) /\ pos.tx \in done /\ Reached(pos.tx)
      BY <2>1 DEF DeliveryInv, PositionsInv, Earned
    <3>2. i \in Events /\ pos.tx \in Events
      BY <3>1 DEF Items
    <3>3. i > pos.tx
      BY <3>1, <3>2, NAssumption DEF Reached
    <3> QED BY <3>1, <3>2, <3>3, ServesAfter
  <2> QED BY <1>1, <2>1, Safety, PTL
<1>2. CASE FromNextCommit
  <2>1. ASSUME LoopInv, OnwardInv PROVE CheckpointCovered
    <3> SUFFICES ASSUME NEW pos \in {cp, saved}, pos # Unset, NEW i \in Events, i \notin done,
                        NEW k \in acked, k < i
                 PROVE  Serves(i, pos)
      BY <1>2 DEF CheckpointCovered, Owed, FromNextCommit
    <3>1. pos = PosOf(pos.tx) /\ pos.tx \in done /\ Unbroken(k)
      BY <2>1 DEF OnwardInv, AnchorsInv, Anchored
    <3>2. pos.tx \in Events
      BY <2>1, <3>1 DEF LoopInv, TypeOK, HistoryOK
    <3>3. i > pos.tx
      BY <3>1, <3>2, NAssumption DEF Unbroken
    <3> QED BY <3>1, <3>2, <3>3, ServesAfter
  <2> QED BY <1>2, <2>1, OnwardSafety, PTL
<1> QED BY <1>1, <1>2, OptionForms

\* Within one call of ListenChaincodeEvents no event reaches the handler twice.
THEOREM HandledOncePerCall == Spec => []NoRedelivery
<1>1. ASSUME LoopInv, CallInv, lpc = "handle" => cp.tx < lev PROVE NoRedelivery
  <2> SUFFICES ASSUME lpc = "handle", lev \in callDone PROVE FALSE
    BY DEF NoRedelivery
  <2>1. lev <= cp.tx /\ cp.tx < lev
    BY <1>1 DEF CallInv
  <2>2. lev \in Int /\ cp.tx \in Int
    BY <1>1, NAssumption DEF LoopInv, TypeOK, LoopOK, CpOK, Positions
  <2> QED BY <2>1, <2>2
<1>2. CASE FromBlock
  <2>1. LoopInv /\ DeliveryInv => NoRedelivery
    BY <1>1 DEF DeliveryInv, HandlingInv
  <2> QED BY <1>2, <2>1, Safety, PTL
<1>3. CASE FromNextCommit
  <2>1. ASSUME LoopInv, OnwardInv, lpc = "handle" PROVE cp.tx < lev
    <3>1. lev \in 1..N /\ cp.tx \in 0..N
      BY <2>1, NAssumption DEF LoopInv, TypeOK, LoopOK, CpOK, Positions
    <3>2. CASE cp = Unset
      BY <3>1, <3>2, NAssumption DEF Unset
    <3>3. CASE cp # Unset
      BY <2>1, <3>1, <3>3, NAssumption DEF OnwardInv, NextInv
    <3> QED BY <3>2, <3>3
  <2>2. LoopInv /\ OnwardInv => NoRedelivery
    BY <1>1, <2>1 DEF OnwardInv
  <2> QED BY <1>3, <2>2, OnwardSafety, PTL
<1> QED BY <1>2, <1>3, OptionForms

\* Every stream of a call serves only what the start block asks for.
OriginInv == origin # 0 => \A i \in Events : i >= origin => i \in Items

LEMMA OriginInvStep ==
  ASSUME FromBlock, LoopInv, DeliveryInv, OriginInv, [Next]_vars PROVE OriginInv'
<1> USE DEF OriginInv
<1>1. CASE Subscribed
  <2>1. PICK first \in 1..(N + 1) :
          /\ \A i \in Events : Serves(i, cp) <=> i >= first
          /\ origin' = IF origin = 0 THEN first ELSE origin
    BY <1>1 DEF Subscribed, Resume, DeliveryInv
  <2>2. \A i \in Events : i >= first => i \in Items
    BY <2>1, StartsInTurn DEF LoopInv, DeliveryInv, PositionsInv
  <2> QED BY <2>1, <2>2 DEF Items
<1>2. CASE ListenAgain \/ Restart
  BY <1>2 DEF ListenAgain, Restart, StartCall
<1>3. CASE UNCHANGED origin
  BY <1>3 DEF Items
<1>4. CASE ListenerStep /\ ~Subscribed
  BY <1>3, <1>4 DEF ListenerStep, OpenGateway, SubscribeFails, HandleOK, HandleFails, CheckpointOK,
     CheckpointFails, RangeEnds, SessionEnded, SleepCancelled, SleepElapsed, histVars
<1>5. CASE ForwarderStep \/ Release \/ StreamCancelled
  BY <1>3, <1>5 DEF ForwarderStep, Receive, Deliver, SendCancelled, UpstreamClosed, Release,
     StreamCancelled, histVars
<1>6. CASE Environment /\ ~ListenAgain /\ ~Restart
  BY <1>3, <1>6 DEF Environment, CommitBlock, StreamDrops, CancelCtx, CloseClient,
     histVars
<1>7. CASE UNCHANGED vars
  BY <1>3, <1>7 DEF vars, histVars
<1> QED BY <1>1, <1>2, <1>4, <1>5, <1>6, <1>7 DEF Next, ListenerStep, Environment

\* With a start block, nothing that the first stream of a call has begun to serve
\* is skipped when ListenChaincodeEvents reconnects; without one it can be, until
\* the first checkpoint.
THEOREM NothingSkippedByCall == ASSUME FromBlock PROVE Spec => []NoneSkippedByCall
<1>1. Init => OriginInv
  BY DEF Init, OriginInv
<1>2. LoopInv /\ DeliveryInv /\ OriginInv /\ [Next]_vars => OriginInv'
  BY OriginInvStep
<1>3. LoopInv /\ DeliveryInv /\ OriginInv => NoneSkippedByCall
  BY NAssumption DEF OriginInv, DeliveryInv, DoneInv, Reached, NoneSkippedByCall,
     LoopInv, TypeOK, HistoryOK
<1> QED BY <1>1, <1>2, <1>3, Safety, PTL DEF Spec

-----------------------------------------------------------------------------
(***************************************************************************)
(* The listener implements Delivery.                                       *)
(***************************************************************************)

\* The events a position excludes are those up to its own.
LEMMA RecordedUpTo ==
  ASSUME FromBlock, Earned(cp) PROVE Recorded = {i \in Items : i <= cp.tx}
<1> USE NAssumption
<1>1. CASE cp = Unset
  BY <1>1, ServesUnset DEF Recorded, Items, Unset
<1>2. CASE cp # Unset
  <2>1. cp.tx \in Events /\ cp = PosOf(cp.tx)
    BY <1>2 DEF Earned, Items
  <2>2. \A i \in Items : Serves(i, cp) <=> i > cp.tx
    BY <2>1, ServesAfter DEF Items
  <2> QED BY <2>1, <2>2 DEF Recorded, Items
<1> QED BY <1>1, <1>2

\* What is recorded after a step depends on the new position only.
LEMMA RecordedNext ==
  ASSUME FromBlock, Earned(cp)' PROVE Recorded' = {i \in Items : i <= cp'.tx}
<1> USE NAssumption
<1>1. ASSUME NEW i \in Items PROVE Serves(i, cp)' <=> (cp' = Unset \/ Serves(i, cp'))
  BY <1>1 DEF Serves, FromBlock, Items
<1>2. CASE cp' = Unset
  BY <1>1, <1>2 DEF Recorded, Items, Unset
<1>3. CASE cp' # Unset
  <2>1. cp'.tx \in Events /\ cp' = PosOf(cp'.tx)
    BY <1>3 DEF Earned, Items, PosOf, Unset
  <2>2. \A i \in Items : Serves(i, cp') <=> i > cp'.tx
    BY <2>1, ServesAfter DEF Items
  <2> QED BY <1>1, <1>3, <2>1, <2>2 DEF Recorded, Items
<1> QED BY <1>2, <1>3

LEMMA DeliverySimulation ==
  ASSUME FromBlock, LoopInv, DeliveryInv, DeliveryInv', [Next]_vars
  PROVE  [D!Next]_(D!vars)
<1> USE NAssumption
<1>1. Recorded = {i \in Items : i <= cp.tx} /\ Recorded' = {i \in Items : i <= cp'.tx}
  BY RecordedUpTo, RecordedNext DEF DeliveryInv, PositionsInv
<1>2. cp.tx \in 0..N /\ saved.tx \in 0..N /\ lev \in 0..N /\ Items \subseteq Events
  BY DEF LoopInv, TypeOK, CpOK, LoopOK, Positions, Items
<1>3. CASE UNCHANGED <<done, cp>>
  BY <1>1, <1>3 DEF D!vars
<1>4. CASE HandleOK
  <2>1. lev \in Items /\ cp.tx < lev /\ Reached(lev)
    BY <1>4 DEF HandleOK, DeliveryInv, HandlingInv
  <2>2. lev \notin Recorded
    BY <1>1, <1>2, <2>1
  <2>3. D!Before(lev) \subseteq done
    BY <2>1 DEF Reached, D!Before
  <2>4. Recorded' = Recorded
    BY <1>1, <1>4 DEF HandleOK, cpVars
  <2>5. D!Process(lev)
    BY <1>4, <2>2, <2>3, <2>4 DEF HandleOK, D!Process
  <2> QED BY <2>1, <2>5 DEF D!Next
<1>5. ASSUME lpc = "checkpoint", cp' = PosOf(lev), done' = done PROVE D!Next
  <2>1. lev \in Items /\ cp.tx < lev /\ lev \in done
    BY <1>5 DEF DeliveryInv, HandlingInv
  <2>2. Recorded' = D!UpTo(lev)
    BY <1>1, <1>5 DEF D!UpTo, PosOf
  <2>3. lev \notin Recorded
    BY <1>1, <1>2, <2>1
  <2>4. D!Record(lev)
    BY <1>5, <2>1, <2>2, <2>3 DEF D!Record
  <2> QED BY <2>1, <2>4 DEF D!Next
<1>6. CASE Restart
  <2>1. cp' = saved /\ done' = done
    BY <1>6 DEF Restart, StartCall
  <2>2. saved = Unset \/ saved.tx \in Recorded
    BY <1>1 DEF DeliveryInv, PositionsInv, Earned
  <2>3. CASE saved = Unset
    BY <1>1, <1>2, <2>1, <2>3 DEF D!Next, D!Forget, Unset, Items
  <2>4. CASE saved.tx \in Recorded
    BY <1>1, <2>1, <2>4 DEF D!Next, D!Forget, D!UpTo
  <2> QED BY <2>2, <2>3, <2>4
<1>7. CASE CheckpointOK
  BY <1>5, <1>7 DEF CheckpointOK, histVars
<1>8. CASE CheckpointFails
  BY <1>3, <1>5, <1>8 DEF CheckpointFails, histVars
<1>9. CASE \/ OpenGateway \/ Subscribed \/ SubscribeFails \/ HandleFails
           \/ RangeEnds \/ SessionEnded \/ SleepCancelled \/ SleepElapsed
  BY <1>3, <1>9 DEF OpenGateway, Subscribed, SubscribeFails, HandleFails, RangeEnds,
     SessionEnded, SleepCancelled, SleepElapsed, cpVars, histVars
<1>10. CASE \/ ForwarderStep \/ Release \/ StreamCancelled \/ CommitBlock \/ StreamDrops
            \/ CancelCtx \/ CloseClient \/ ListenAgain
  BY <1>3, <1>10 DEF ForwarderStep, Receive, Deliver, SendCancelled, UpstreamClosed, Release,
     StreamCancelled, CommitBlock, StreamDrops, CancelCtx, CloseClient,
     ListenAgain, StartCall, cpVars, histVars
<1>11. CASE UNCHANGED vars
  BY <1>3, <1>11 DEF vars, cpVars, histVars
<1> QED BY <1>4, <1>6, <1>7, <1>8, <1>9, <1>10, <1>11 DEF Next, ListenerStep, Environment

\* ListenChaincodeEvents implements at-least-once, in-order delivery: every step
\* of the loop, the forwarder, the gateway and the process is a step of Delivery
\* or leaves its state alone.
THEOREM ListenerImplementsDelivery == ASSUME FromBlock PROVE Spec => ImplementsDelivery
<1>1. ASSUME Init PROVE D!Init
  <2>1. Recorded = {}
    BY <1>1, ServesUnset DEF Init, Recorded, Items
  <2> QED BY <1>1, <2>1 DEF Init, D!Init
<1>2. LoopInv /\ DeliveryInv /\ (LoopInv /\ DeliveryInv)' /\ [Next]_vars => [D!Next]_(D!vars)
  BY DeliverySimulation
<1> QED BY <1>1, <1>2, Safety, PTL DEF Spec, ImplementsDelivery, D!Spec

-----------------------------------------------------------------------------
(***************************************************************************)
(* Delays and return values.                                              *)
(***************************************************************************)

\* The reconnect delay of ListenChaincodeEvents stays within the range that
\* eventOptions repaired, for every RetryBackoff(min, max).
THEOREM DelayInRange == Spec => []BackoffInRange
<1> USE BackoffRange DEF BackoffInRange
<1>1. Init => BackoffInRange
  BY DEF Init
<1>2. LoopInv /\ BackoffInRange /\ [Next]_vars => BackoffInRange'
  <2> SUFFICES ASSUME LoopInv, BackoffInRange, [Next]_vars PROVE BackoffInRange'
    OBVIOUS
  <2>1. backoff \in Nat
    BY DEF LoopInv, TypeOK, LoopOK
  <2>2. CASE SleepElapsed
    BY <2>1, <2>2 DEF SleepElapsed, MinOf
  <2>3. CASE CheckpointOK \/ ListenAgain \/ Restart
    BY <2>3 DEF CheckpointOK, ListenAgain, Restart, StartCall
  <2>4. ASSUME UNCHANGED backoff PROVE BackoffInRange'
    BY <2>4
  <2>5. CASE ListenerStep /\ ~SleepElapsed /\ ~CheckpointOK
    BY <2>4, <2>5 DEF ListenerStep, OpenGateway, Subscribed, SubscribeFails,
       HandleOK, HandleFails, CheckpointFails, RangeEnds, SessionEnded,
       SleepCancelled
  <2>6. CASE ForwarderStep \/ Release \/ StreamCancelled
    BY <2>4, <2>6 DEF ForwarderStep, loopVars, Receive, Deliver,
       SendCancelled, UpstreamClosed, Release, StreamCancelled
  <2>7. CASE Environment /\ ~ListenAgain /\ ~Restart
    BY <2>4, <2>7 DEF Environment, loopVars, CommitBlock, StreamDrops,
       CancelCtx, CloseClient
  <2>8. CASE UNCHANGED vars
    BY <2>4, <2>8 DEF vars, loopVars
  <2> QED BY <2>2, <2>3, <2>5, <2>6, <2>7, <2>8 DEF Next, ListenerStep, Environment
<1> QED BY <1>1, <1>2, LoopInvInit, LoopInvStep, PTL DEF Spec

\* A config error can only come from a closed client; no other error that ends
\* a session is final.
StopInv ==
  /\ lerr \in {"nil", "config", "canceled", "timeout", "unavailable", "endorsement"}
  /\ lerr = "config" => closed
  /\ NeverGivesUp

LEMMA StopInvStep == ASSUME LoopInv, StopInv, [Next]_vars PROVE StopInv'
<1> USE DEF StopInv, NeverGivesUp, netVars, cpVars, loopVars, fwdVars, gwVars, envVars, histVars
<1>1. CASE OpenGateway
  BY <1>1 DEF OpenGateway, configError, newError
<1>2. CASE Subscribed
  BY <1>2 DEF Subscribed
<1>3. CASE SubscribeFails
  BY <1>3, OpenErrorKind DEF SubscribeFails
<1>4. CASE HandleOK
  BY <1>4 DEF HandleOK
<1>5. CASE HandleFails
  BY <1>5 DEF HandleFails, CloseStream
<1>6. CASE CheckpointOK
  BY <1>6 DEF CheckpointOK
<1>7. CASE CheckpointFails
  BY <1>7 DEF CheckpointFails, CloseStream
<1>8. CASE RangeEnds
  BY <1>8 DEF RangeEnds, LoopInv, TypeOK, ForwarderOK
<1>9. CASE SessionEnded
  BY <1>9 DEF SessionEnded, reconnectable
<1>10. CASE SleepCancelled
  BY <1>10 DEF SleepCancelled
<1>11. CASE SleepElapsed
  BY <1>11 DEF SleepElapsed
<1>12. CASE Receive
  BY <1>12 DEF Receive
<1>13. CASE Deliver
  BY <1>13 DEF Deliver
<1>14. CASE SendCancelled
  BY <1>14 DEF SendCancelled
<1>15. CASE UpstreamClosed
  BY <1>15 DEF UpstreamClosed
<1>16. CASE Release
  BY <1>16 DEF Release
<1>17. CASE StreamCancelled
  BY <1>17 DEF StreamCancelled
<1>18. CASE CommitBlock
  BY <1>18 DEF CommitBlock
<1>19. CASE StreamDrops
  BY <1>19 DEF StreamDrops
<1>20. CASE CancelCtx
  BY <1>20 DEF CancelCtx
<1>21. CASE CloseClient
  BY <1>21 DEF CloseClient
<1>23. CASE ListenAgain
  BY <1>23 DEF ListenAgain, StartCall
<1>24. CASE Restart
  BY <1>24 DEF Restart, StartCall
<1>25. CASE UNCHANGED vars
  BY <1>25 DEF vars
<1> QED
  BY <1>1, <1>2, <1>3, <1>4, <1>5, <1>6, <1>7, <1>8, <1>9, <1>10, <1>11,
     <1>12, <1>13, <1>14, <1>15, <1>16, <1>17, <1>18, <1>19, <1>20, <1>21,
     <1>23, <1>24, <1>25
  DEF Next, ListenerStep, ForwarderStep, Environment

\* ListenChaincodeEvents stops only for a reason of its caller: nil only after
\* ctx ended, an error of its own only after Close; no stream failure stops it.
THEOREM StopsForAReason == Spec => []NeverGivesUp
<1>1. Init => StopInv
  BY DEF Init, StopInv, NeverGivesUp
<1>2. LoopInv /\ StopInv /\ [Next]_vars => StopInv'
  BY StopInvStep
<1>3. StopInv => NeverGivesUp
  BY DEF StopInv
<1> QED BY <1>1, <1>2, <1>3, LoopInvInit, LoopInvStep, PTL DEF Spec

=============================================================================
