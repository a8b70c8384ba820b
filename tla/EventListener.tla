--------------------------- MODULE EventListener ---------------------------
(***************************************************************************)
(* Contract.ListenChaincodeEvents of events.go: the reconnecting loop, the *)
(* goroutine that ChaincodeEvents starts to forward events into the        *)
(* unbuffered channel of an EventStream, the checkpointer, and the client  *)
(* and ledger around them.                                                 *)
(*                                                                         *)
(* Events are numbered 1..N in ledger order. Event i is in block Block[i]; *)
(* its transaction emits no other event, so i is its transaction ID too,   *)
(* and 0 stands for the empty transaction ID.                              *)
(***************************************************************************)
EXTENDS Listening, FiniteSets

CONSTANTS
  N,             \* number of events the chaincode will ever emit
  Block,         \* the block of each event
  Denied         \* the peer refuses the subscription

Events == 1..N

ASSUME NAssumption == N \in Nat \ {0}
ASSUME BlockAssumption ==
  /\ Block \in [Events -> Nat]
  /\ \A i, j \in Events : i <= j => Block[i] <= Block[j]
ASSUME FlagAssumption == Denied \in BOOLEAN

VARIABLES
  tip,       \* height of the channel: blocks 0..tip-1 are committed
  cp,        \* position held by the checkpointer
  saved,     \* position a restarted process finds
  lpc,       \* where the listener loop is
  lev,       \* the event it handles, 0 if none
  lerr,      \* err in the loop: a Kind, or "nil" for nil
  backoff,   \* the next reconnect delay
  ret,       \* how the call returned
  fpc,       \* where the forwarder goroutine of the current stream is
  fev,       \* the event it is sending
  serr,      \* EventStream.err: a Kind, or "nil" for nil
  upNext,    \* first event the gateway has not yet put into upstream
  live,      \* upstream is open
  ctxDone,   \* the caller's ctx has ended
  closed,    \* FabricClient.closed
  held,      \* gateways acquired and not released
  exiting,   \* stopped forwarders that have yet to run release()
  slot,      \* whose checkpointer the last element of opts is
  chosen,    \* whose checkpointer eventOptions took for the stream being opened
  drops, calls,
  done,      \* history: events handled successfully
  callDone,  \* history: events handled by the current call
  acked,     \* history: events whose checkpoint succeeded and was not lost
  origin     \* history: first event the first stream of the call serves, or 0

netVars   == <<tip, live, upNext, drops>>
cpVars    == <<cp, saved, acked>>
loopVars  == <<lpc, lev, lerr, backoff, ret>>
fwdVars   == <<fpc, fev, serr>>
gwVars    == <<held, exiting>>
envVars   == <<ctxDone, closed, slot, chosen, calls>>
histVars  == <<done, callDone, origin>>
vars      == <<netVars, cpVars, loopVars, fwdVars, gwVars, envVars, histVars>>

-----------------------------------------------------------------------------
(***************************************************************************)
(* Positions.                                                              *)
(***************************************************************************)
Unset     == [block |-> 0, tx |-> 0]
PosOf(i)  == [block |-> Block[i], tx |-> i]
Positions == [block : Nat, tx : 0..N]

Committed(i) == Block[i] < tip

Height == Block[N] + 1

\* What the peer serves for a request: WithCheckpoint is ignored when its
\* position is unset, then WithStartBlock applies, then the next commit.
Serves(i, pos) ==
  IF pos # Unset
  THEN \/ Block[i] > pos.block
       \/ Block[i] = pos.block /\ (pos.tx = 0 \/ i > pos.tx)
  ELSE IF StartBlock # NextCommit THEN Block[i] >= StartBlock
  ELSE Block[i] >= tip
-----------------------------------------------------------------------------
(***************************************************************************)
(* The listener loop.                                                      *)
(***************************************************************************)
Init ==
  /\ tip \in 1..Height
  /\ cp = Unset /\ saved = Unset /\ acked = {}
  /\ lpc = "open" /\ lev = 0 /\ lerr = "nil" /\ backoff = minBackoff /\ ret = "none"
  /\ fpc = "none" /\ fev = 0 /\ serr = "nil"
  /\ upNext = N + 1 /\ live = FALSE /\ drops = 0
  /\ ctxDone = FALSE /\ closed = FALSE /\ slot = "own" /\ chosen = "own" /\ calls = 1
  /\ held = 0 /\ exiting = 0
  /\ done = {} /\ callDone = {} /\ origin = 0

\* ChaincodeEvents resolves opts, and Contract.gateway refuses when the client is
\* closed.
OpenGateway ==
  /\ lpc = "open"
  /\ exiting <= MaxDrops + MaxCalls    \* bites only when Denied
  /\ chosen' = slot
  /\ IF closed
     THEN lpc' = "ended" /\ lerr' = configError.Kind /\ UNCHANGED held
     ELSE lpc' = "subscribe" /\ held' = held + 1 /\ UNCHANGED lerr
  /\ UNCHANGED <<netVars, cpVars, lev, backoff, ret, fwdVars, exiting, ctxDone, closed, slot, calls,
                 histVars>>

\* The position of the checkpointer that the options resolved to, read when the
\* request is made; that of another listener is any position it can have.
Resume ==
  IF chosen = "own" THEN {cp}
  ELSE {Unset} \cup {PosOf(i) : i \in {j \in Events : Committed(j)}}

\* Network.ChaincodeEvents succeeds and ChaincodeEvents starts the forwarder.
Subscribed ==
  /\ lpc = "subscribe"
  /\ ~ctxDone /\ ~(closed /\ CloseEndsStreams)
  /\ \E pos \in Resume, first \in 1..(N + 1) :
       /\ \A i \in Events : Serves(i, pos) <=> i >= first
       /\ upNext' = first
       /\ origin' = IF origin = 0 THEN first ELSE origin
  /\ live' = ~Denied
  /\ fpc' = "recv" /\ fev' = 0 /\ serr' = "nil"
  /\ lpc' = "range"
  /\ UNCHANGED <<tip, drops, cpVars, lev, lerr, backoff, ret, gwVars, envVars, done, callDone>>

\* The codes with which opening a stream fails. The answer of the peer is not
\* among them: it arrives on the open stream.
OpenCodes ==
  (IF ctxDone THEN {"Canceled", "DeadlineExceeded"} ELSE {})
    \cup (IF closed /\ CloseEndsStreams THEN {"Canceled"} ELSE {})
    \cup (IF drops < MaxDrops THEN {"Unavailable", "Unknown"} ELSE {})

\* Network.ChaincodeEvents fails: stop, release, classify. Mutant: no release.
MutSubscribeLeaks ==
  /\ lpc = "subscribe"
  /\ drops < MaxDrops /\ drops' = drops + 1
  /\ lerr' = "unavailable" /\ lpc' = "ended"
  /\ UNCHANGED <<tip, live, upNext, cpVars, lev, backoff, ret, fwdVars, gwVars, envVars, histVars>>
SubscribeFails ==
  /\ lpc = "subscribe"
  /\ \E code \in OpenCodes :
       /\ lerr' = classify(Failure(code), NoTxID, "evaluate", TRUE).Kind
       /\ drops' = IF code \in {"Unavailable", "Unknown"} THEN drops + 1 ELSE drops
  /\ held' = held - 1
  /\ lpc' = "ended"
  /\ UNCHANGED <<tip, live, upNext, cpVars, lev, backoff, ret, fwdVars, exiting, envVars, histVars>>

\* stream.Close before the loop returns: the forwarder can only exit now. Mutants:
\* the stream is left open; a forwarder that has exited is made to release again.
MutNoClose == UNCHANGED <<fwdVars, live, exiting>>
MutCloseTwice ==
  /\ fpc' = "none" /\ fev' = 0 /\ serr' = "nil"
  /\ live' = FALSE
  /\ exiting' = exiting + 1
CloseStream ==
  /\ fpc' = "none" /\ fev' = 0 /\ serr' = "nil"
  /\ live' = FALSE
  /\ exiting' = IF fpc \in {"recv", "send"} THEN exiting + 1 ELSE exiting

HandleOK ==
  /\ lpc = "handle"
  /\ done' = done \cup {lev} /\ callDone' = callDone \cup {lev}
  /\ lpc' = "checkpoint"
  /\ UNCHANGED <<netVars, cpVars, lev, lerr, backoff, ret, fwdVars, gwVars, envVars, origin>>

\* Mutant: the event that failed is checkpointed.
MutFailureCheckpointed ==
  /\ lpc = "handle"
  /\ CloseStream
  /\ cp' = PosOf(lev)
  /\ lpc' = "returned" /\ ret' = "handler" /\ lev' = 0
  /\ UNCHANGED <<tip, upNext, drops, saved, acked, lerr, backoff, held, envVars, histVars>>
HandleFails ==
  /\ lpc = "handle"
  /\ CloseStream
  /\ lpc' = "returned" /\ ret' = "handler" /\ lev' = 0
  /\ UNCHANGED <<tip, upNext, drops, cpVars, lerr, backoff, held, envVars, histVars>>

\* CheckpointTransaction succeeds and the delay starts over. Mutants: the block of
\* the event is recorded as processed; nothing is recorded.
MutBlockCheckpointed ==
  /\ lpc = "checkpoint"
  /\ cp' = [block |-> Block[lev] + 1, tx |-> 0]
  /\ saved' = IF Durable THEN cp' ELSE saved
  /\ acked' = acked \cup {lev}
  /\ backoff' = minBackoff
  /\ lpc' = "range" /\ lev' = 0
  /\ UNCHANGED <<netVars, lerr, ret, fwdVars, gwVars, envVars, histVars>>
MutNotCheckpointed ==
  /\ lpc = "checkpoint"
  /\ acked' = acked \cup {lev}
  /\ backoff' = minBackoff
  /\ lpc' = "range" /\ lev' = 0
  /\ UNCHANGED <<cp, saved, netVars, lerr, ret, fwdVars, gwVars, envVars, histVars>>
CheckpointOK ==
  /\ lpc = "checkpoint"
  /\ cp' = PosOf(lev)
  /\ saved' = IF Durable THEN PosOf(lev) ELSE saved
  /\ acked' = acked \cup {lev}
  /\ backoff' = minBackoff
  /\ lpc' = "range" /\ lev' = 0
  /\ UNCHANGED <<netVars, lerr, ret, fwdVars, gwVars, envVars, histVars>>

\* Only a durable checkpointer fails; its position in memory may have moved.
CheckpointFails ==
  /\ lpc = "checkpoint"
  /\ Durable
  /\ cp' \in {cp, PosOf(lev)}
  /\ CloseStream
  /\ lpc' = "returned" /\ ret' = "checkpoint" /\ lev' = 0
  /\ UNCHANGED <<tip, upNext, drops, saved, acked, lerr, backoff, held, envVars, histVars>>

\* range stream.Events() ends: err = stream.Err().
RangeEnds ==
  /\ lpc = "range" /\ fpc = "closed"
  /\ lerr' = serr
  /\ fpc' = "none" /\ serr' = "nil"
  /\ lpc' = "ended"
  /\ UNCHANGED <<netVars, cpVars, lev, backoff, ret, fev, gwVars, envVars, histVars>>

\* The end of a session: nil if ctx ended, the error if it is final, else sleep.
SessionEnded ==
  /\ lpc = "ended"
  /\ IF ctxDone THEN lpc' = "returned" /\ ret' = "nil"
     ELSE IF lerr # "nil" /\ ~reconnectable(lerr)
     THEN lpc' = "returned" /\ ret' = "error"
     ELSE lpc' = "sleep" /\ UNCHANGED ret
  /\ UNCHANGED <<netVars, cpVars, lev, lerr, backoff, fwdVars, gwVars, envVars, histVars>>

\* sleepCtx: the timer fires, or ctx ends; either when both have happened.
SleepCancelled ==
  /\ lpc = "sleep" /\ ctxDone
  /\ lpc' = "returned" /\ ret' = "nil"
  /\ UNCHANGED <<netVars, cpVars, lev, lerr, backoff, fwdVars, gwVars, envVars, histVars>>

\* Mutant: the delay doubles without a cap.
MutUncapped ==
  /\ lpc = "sleep"
  /\ backoff' = 2 * backoff
  /\ lpc' = "open" /\ lerr' = "nil"
  /\ UNCHANGED <<netVars, cpVars, lev, ret, fwdVars, gwVars, envVars, histVars>>
\* The delay is an int64 of nanoseconds: its double overflows only after a sleep of
\* more than 2^62 ns, 146 years.
SleepElapsed ==
  /\ lpc = "sleep"
  /\ backoff' = MinOf(2 * backoff, maxBackoff)
  /\ lpc' = "open" /\ lerr' = "nil"
  /\ UNCHANGED <<netVars, cpVars, lev, ret, fwdVars, gwVars, envVars, histVars>>
-----------------------------------------------------------------------------
(***************************************************************************)
(* The forwarder goroutine of ChaincodeEvents.                             *)
(***************************************************************************)

\* for ev := range upstream. Mutant: an event the loop is not ready for is dropped.
MutDropped ==
  /\ fpc = "recv" /\ live
  /\ upNext <= N /\ Committed(upNext)
  /\ IF lpc = "range" THEN fpc' = "send" /\ fev' = upNext ELSE UNCHANGED <<fpc, fev>>
  /\ upNext' = upNext + 1
  /\ UNCHANGED <<tip, live, drops, cpVars, loopVars, serr, gwVars, envVars, histVars>>
Receive ==
  /\ fpc = "recv" /\ live
  /\ upNext <= N /\ Committed(upNext)
  /\ fpc' = "send" /\ fev' = upNext
  /\ upNext' = upNext + 1
  /\ UNCHANGED <<tip, live, drops, cpVars, loopVars, serr, gwVars, envVars, histVars>>

\* s.ch <- out meets the range of the loop.
Deliver ==
  /\ fpc = "send" /\ lpc = "range"
  /\ lev' = fev /\ lpc' = "handle"
  /\ fpc' = "recv" /\ fev' = 0
  /\ UNCHANGED <<netVars, cpVars, lerr, backoff, ret, serr, gwVars, envVars, histVars>>

\* <-sctx.Done() while an event waits: the event is dropped, no error is set.
SendCancelled ==
  /\ fpc = "send" /\ ctxDone
  /\ fpc' = "closed" /\ fev' = 0 /\ serr' = "nil"
  /\ live' = FALSE
  /\ exiting' = exiting + 1
  /\ UNCHANGED <<tip, upNext, drops, cpVars, loopVars, held, envVars, histVars>>

\* upstream was closed: record ErrStreamClosed unless ctx ended, close s.ch.
\* Mutant: s.ch stays open.
MutChannelLeftOpen ==
  /\ fpc = "recv" /\ ~live
  /\ fpc' = "none" /\ exiting' = exiting + 1
  /\ UNCHANGED <<netVars, cpVars, loopVars, fev, serr, held, envVars, histVars>>
UpstreamClosed ==
  /\ fpc = "recv" /\ ~live
  /\ fpc' = "closed"
  /\ serr' = IF ctxDone THEN "nil" ELSE "unavailable"
  /\ exiting' = exiting + 1
  /\ UNCHANGED <<netVars, cpVars, loopVars, fev, held, envVars, histVars>>

\* The deferred release() runs after close(s.ch).
Release ==
  /\ exiting > 0
  /\ exiting' = exiting - 1 /\ held' = held - 1
  /\ UNCHANGED <<netVars, cpVars, loopVars, fwdVars, envVars, histVars>>
-----------------------------------------------------------------------------
(***************************************************************************)
(* The surroundings.                                                       *)
(***************************************************************************)
CommitBlock ==
  /\ tip < Height
  /\ tip' = tip + 1
  /\ UNCHANGED <<live, upNext, drops, cpVars, loopVars, fwdVars, gwVars, envVars, histVars>>

StreamDrops ==
  /\ live /\ drops < MaxDrops
  /\ live' = FALSE /\ drops' = drops + 1
  /\ UNCHANGED <<tip, upNext, cpVars, loopVars, fwdVars, gwVars, envVars, histVars>>

\* The gateway closes upstream when its context or its connection has ended.
StreamCancelled ==
  /\ live
  /\ ctxDone \/ (closed /\ CloseEndsStreams)
  /\ live' = FALSE
  /\ UNCHANGED <<tip, upNext, drops, cpVars, loopVars, fwdVars, gwVars, envVars, histVars>>

CancelCtx ==
  /\ ~ctxDone /\ lpc # "returned"
  /\ ctxDone' = TRUE
  /\ UNCHANGED <<netVars, cpVars, loopVars, fwdVars, gwVars, closed, slot, chosen, calls, histVars>>

\* FabricClient.Close.
CloseClient ==
  /\ ~closed
  /\ closed' = TRUE
  /\ UNCHANGED <<netVars, cpVars, loopVars, fwdVars, gwVars, ctxDone, slot, chosen, calls, histVars>>

\* opts has spare capacity and is given to another listener too, which appends its
\* own WithCheckpointer over the element this one appended.
OtherListens ==
  /\ slot = "own"
  /\ slot' = "other"
  /\ UNCHANGED <<netVars, cpVars, loopVars, fwdVars, gwVars, ctxDone, closed, chosen, calls, histVars>>

StartCall ==
  /\ calls < MaxCalls
  /\ calls' = calls + 1
  /\ lpc' = "open" /\ lev' = 0 /\ lerr' = "nil" /\ backoff' = minBackoff /\ ret' = "none"
  /\ ctxDone' = FALSE /\ slot' = "own" /\ chosen' = "own" /\ callDone' = {} /\ origin' = 0
  /\ UNCHANGED <<tip, upNext, drops, saved, done>>

\* The caller listens again, with the same checkpointer and a new ctx.
ListenAgain ==
  /\ lpc = "returned"
  /\ StartCall
  /\ UNCHANGED <<cp, acked, live, fwdVars, gwVars, closed>>

\* The process dies at any point and starts over.
Restart ==
  /\ StartCall
  /\ cp' = saved /\ acked' = IF Durable THEN acked ELSE {}
  /\ live' = FALSE
  /\ fpc' = "none" /\ fev' = 0 /\ serr' = "nil"
  /\ held' = 0 /\ exiting' = 0
  /\ closed' = FALSE
-----------------------------------------------------------------------------
ListenerStep ==
  \/ OpenGateway \/ Subscribed \/ SubscribeFails
  \/ HandleOK \/ HandleFails \/ CheckpointOK \/ CheckpointFails
  \/ RangeEnds \/ SessionEnded \/ SleepCancelled \/ SleepElapsed

ForwarderStep == Receive \/ Deliver \/ SendCancelled \/ UpstreamClosed

Environment ==
  \/ CommitBlock \/ StreamDrops \/ CancelCtx \/ CloseClient
  \/ ListenAgain \/ Restart

Next == ListenerStep \/ ForwarderStep \/ Release \/ StreamCancelled \/ Environment

Spec == Init /\ [][Next]_vars

\* The same with an options slice that another listener uses too.
SharedSpec == Init /\ [][Next \/ OtherListens]_vars

\* Goroutines that can run do run, the handler, the checkpointer and the signing
\* function return, and the gateway notices that its context or connection has ended.
Fairness ==
  /\ WF_vars(ListenerStep)
  /\ WF_vars(ForwarderStep)
  /\ WF_vars(Release)
  /\ WF_vars(StreamCancelled)

FairSpec == Spec /\ Fairness
-----------------------------------------------------------------------------
(***************************************************************************)
(* Correctness.                                                            *)
(***************************************************************************)

\* Every variable holds a value of its type, and the loop and the forwarder have
\* an event in hand exactly where the code does (a part per group of variables).
NetOK   == tip \in 1..Height /\ upNext \in 1..(N + 1) /\ drops \in Nat
FlagsOK == {live, ctxDone, closed} \subseteq BOOLEAN
CpOK    == cp \in Positions /\ saved \in Positions /\ acked \subseteq Events
LoopOK ==
  /\ lpc \in {"open", "subscribe", "range", "handle", "checkpoint", "ended", "sleep", "returned"}
  /\ lev \in 0..N /\ backoff \in Nat /\ lerr \in Kinds \cup {"nil"}
  /\ lpc \in {"handle", "checkpoint"} => lev # 0
  /\ ret \in {"none", "nil", "error", "handler", "checkpoint"}
ForwarderOK ==
  /\ fpc \in {"none", "recv", "send", "closed"} /\ serr \in {"nil", "unavailable"}
  /\ fev \in 0..N /\ (fpc = "send" => fev # 0)
CountsOK == held \in Nat /\ exiting \in Nat /\ calls \in Nat /\ {slot, chosen} \subseteq {"own", "other"}
HistoryOK == done \subseteq Events /\ callDone \subseteq Events /\ origin \in 0..(N + 1)
TypeOK == NetOK /\ FlagsOK /\ CpOK /\ LoopOK /\ ForwarderOK /\ CountsOK /\ HistoryOK

\* The events the listener owes its caller: from FromBlock on or, without it,
\* everything after an event that was checkpointed.
Items == {i \in Events : Block[i] >= StartBlock}
Owed  == IF StartBlock # NextCommit THEN Items
         ELSE {i \in Events : \E k \in acked : k < i}

\* No event is skipped (ListenChaincodeEvents, "so no event is skipped"):
\* whatever drops, restarts and cancellations happen, an event is handled only
\* after every owed event before it.
NoGap == \A j \in done, i \in Owed : i < j => i \in done

\* The checkpoint never runs ahead of the handler: each event that a stream
\* opened from the current or the persisted position would leave out was handled.
CheckpointCovered ==
  \A pos \in {cp, saved} : pos # Unset => \A i \in Owed : Serves(i, pos) \/ i \in done

\* Within one call no event is handled twice, reconnects included; only a
\* restart or a new call may deliver an event again.
NoRedelivery == lpc = "handle" => lev \notin callDone

\* The reconnect delay stays in the repaired range for any RetryBackoff
\* arguments, so that doubling never undercuts the minimum.
BackoffInRange == minBackoff <= backoff /\ backoff <= maxBackoff

\* The loop gives up only for a reason of its caller: nil only after ctx ended,
\* an error of its own only after the client was closed.
NeverGivesUp ==
  /\ ret = "nil" => ctxDone
  /\ ret = "error" => closed

\* Each gateway has exactly one holder that will release it: none is lost and
\* none is released twice, on any path out of a session.
GatewayAccounting ==
  held = exiting + (IF lpc = "subscribe" \/ fpc \in {"recv", "send"} THEN 1 ELSE 0)

\* Nothing that the first stream of a call has begun to serve is skipped.
NoneSkippedByCall ==
  \A j \in done, i \in Events : origin # 0 /\ origin <= i /\ i < j => i \in done

\* The listener implements at-least-once, in-order delivery of Items.
Recorded == {i \in Items : ~Serves(i, cp)}
D == INSTANCE Delivery WITH recorded <- Recorded
ImplementsDelivery == D!Spec

\* A committed event the listener owes is handled, or the call returns.
EventuallyHandled ==
  \A i \in Events : (i \in Owed /\ Committed(i)) ~> (i \in done \/ lpc = "returned")

\* The end of ctx makes the call return, wherever the loop and the forwarder are,
\* and so does closing a client that can end the handle's streams.
EndReturns ==
  /\ ctxDone ~> (lpc = "returned" \/ ~ctxDone)
  /\ (closed /\ CloseEndsStreams) ~> (lpc = "returned" \/ ~closed)

\* No gateway outlives the calls that acquired it: each forwarder exits and
\* runs release(), the ones a handler error left behind included.
GatewaysReleased == <>[](lpc = "returned" => held = 0)

\* A subscription the peer refuses makes the call return (a non-retryable error).
DenialReturns == Denied => <>(lpc = "returned")
=============================================================================
