------------------------------- MODULE Client -------------------------------
(***************************************************************************)
(* A FabricClient from New or NewWithConnection to Close (client.go), and  *)
(* the calls that goroutines make on it meanwhile (contract.go): queries,  *)
(* submissions, Wait and Release on the PendingTx of a submission, event   *)
(* streams (events.go), Close, the gateways and locks they hold and what   *)
(* the Observer is told.                                                   *)
(*                                                                         *)
(* Calls are numbered in the order they begin and each runs in a goroutine *)
(* of its own; the PendingTx or EventStream that call n made is pend[n] or *)
(* strm[n].                                                                *)
(***************************************************************************)
EXTENDS Errors, Config

CONSTANTS
  Setups,     \* the Configs tried, each with the connection given, if any
  Plans,      \* the operations that goroutines call, in the order they begin
  FailCodes,  \* gRPC codes with which a peer that can be reached fails a call
  MaxCalls    \* bound on the calls made

Queries     == {"evaluate", "tx_status", "height"}
Submissions == {"submit_async", "submit"}
Operations  == Queries \cup Submissions \cup {"wait", "events", "close"}

ASSUME ClientAssumption == FailCodes \subseteq Codes /\ MaxCalls \in Nat \ {0}
ASSUME PlanAssumption == Plans \subseteq [1..MaxCalls -> Operations]
\* Config has a timeout, of either sign, for each phase; an endpoint is tokens.
ASSUME SetupAssumption ==
  \A s \in Setups :
    /\ {"timeout", "endpoint", "host", "override"} \subseteq DOMAIN s.cfg
    /\ s.cfg.timeout \in [Phases -> Int]
    /\ s.cfg.endpoint \in Seq(STRING) /\ s.cfg.host \in Seq(STRING)

Calls     == 1..MaxCalls
Resources == {"gw", "conn", "id"}

VARIABLES
  stage,    \* how far New has come
  cfg,      \* Config, with defaults once it is valid
  given,    \* what was given to NewWithConnection, "none" for New
  dial,     \* target and TLS server name of the connection
  made,     \* the resources that are the client's own
  shut,     \* how often each resource was closed
  closed,   \* FabricClient.closed
  once,     \* FabricClient.closeOnce: 0 at first, then the step of Close
  call,     \* the calls
  pend,     \* the PendingTx of each submission
  strm,     \* the EventStreams, their forwarders and consumers
  open      \* gateways of other identities that are open

newVars    == <<stage, cfg, given, dial, made>>
clientVars == <<shut, closed, once>>
vars       == <<newVars, clientVars, call, pend, strm, open>>

\* A goroutine that has not called yet, a PendingTx and an EventStream that do
\* not exist.
NoCall == [op |-> "none", pc |-> "idle", ph |-> "none", p |-> 0, other |-> FALSE,
           signed |-> FALSE, deadline |-> FALSE, late |-> FALSE, after |-> FALSE,
           err |-> "nil", seen |-> <<>>]
NoPend == [state |-> "none", other |-> FALSE, lock |-> 0, released |-> FALSE, code |-> "none"]
NoStrm == [fwd |-> "none", other |-> FALSE, upstream |-> FALSE, stopped |-> FALSE, err |-> "nil"]
-----------------------------------------------------------------------------
(***************************************************************************)
(* New and NewWithConnection.                                              *)
(***************************************************************************)
Init ==
  /\ stage = "start"
  /\ \E s \in Setups : cfg = s.cfg /\ given = s.given
  /\ dial = [target |-> <<>>, name |-> <<>>] /\ made = {}
  /\ shut = [r \in Resources |-> 0] /\ closed = FALSE /\ once = 0
  /\ call = [n \in Calls |-> NoCall] /\ open = 0
  /\ pend = [n \in Calls |-> NoPend] /\ strm = [n \in Calls |-> NoStrm]

Construct(to) == stage' = to /\ UNCHANGED <<given, closed, once, call, pend, strm, open>>

Accepts == given # "nil" /\ validate(cfg, given = "none")

Refused ==
  /\ stage = "start" /\ ~Accepts
  /\ Construct("failed")
  /\ UNCHANGED <<cfg, dial, made, shut>>

Accepted ==
  /\ stage = "start" /\ Accepts
  /\ cfg' = withDefaults(cfg)
  /\ Construct(IF given = "none" THEN "dial" ELSE "identity")
  /\ UNCHANGED <<dial, made, shut>>

\* transportCredentials or grpc.NewClient fails; nothing exists yet.
DialFails ==
  /\ stage = "dial"
  /\ Construct("failed")
  /\ UNCHANGED <<cfg, dial, made, shut>>

Dialled ==
  /\ stage = "dial" /\ transportOK(cfg)
  /\ dial' = [target |-> grpcTarget(cfg.endpoint), name |-> serverNameFor(cfg)]
  /\ made' = {"conn"}
  /\ Construct("identity")
  /\ UNCHANGED <<cfg, shut>>

\* build: the default identity is given or loaded.
Identified ==
  /\ stage = "identity" /\ (cfg.Identity # "nil" \/ LoadIdentity(cfg))
  /\ made' = made \cup (IF cfg.Identity = "nil" THEN {"id"} ELSE {})
  /\ Construct("connect")
  /\ UNCHANGED <<cfg, dial, shut>>

LoadFails ==
  /\ stage = "identity" /\ cfg.Identity = "nil" /\ ~LoadIdentity(cfg)
  /\ Construct("undo")
  /\ UNCHANGED <<cfg, dial, made, shut>>

Connected ==
  /\ stage = "connect"
  /\ made' = made \cup {"gw"}
  /\ Construct("ready")
  /\ UNCHANGED <<cfg, dial, shut>>

\* Closing what is the client's own among rs.
Shut(rs) == shut' = [r \in Resources |-> IF r \in rs \cap made THEN shut[r] + 1 ELSE shut[r]]

\* build: client.Connect fails, and a loaded identity is closed.
ConnectFails ==
  /\ stage = "connect"
  /\ Shut({"id"})
  /\ Construct("undo")
  /\ UNCHANGED <<cfg, dial, made>>

\* New closes its connection when build failed.
Undone ==
  /\ stage = "undo"
  /\ Shut({"conn"})
  /\ Construct("failed")
  /\ UNCHANGED <<cfg, dial, made>>
-----------------------------------------------------------------------------
(***************************************************************************)
(* Close.                                                                  *)
(***************************************************************************)
To(n, pc) == call' = [call EXCEPT ![n].pc = pc]

\* Close marks the client closed before it takes things away. Mutant: afterwards.
MutFlagLast == <<"gw", "conn", "id", "flag">>
CloseOrder  == <<"flag", "gw", "conn", "id">>

\* closeOnce.Do: the first to come closes, the others wait until it has.
\* Mutant: the others return at once.
MutNotWaited(n) ==
  /\ call[n].pc = "once"
  /\ IF once = 0 THEN once' = 1 /\ To(n, "closing") ELSE To(n, "done") /\ UNCHANGED once
  /\ UNCHANGED <<newVars, shut, closed, pend, strm, open>>
CloseOnce(n) ==
  /\ call[n].pc = "once"
  /\ \/ once = 0 /\ once' = 1 /\ To(n, "closing")
     \/ once > Len(CloseOrder) /\ UNCHANGED once /\ To(n, "done")
  /\ UNCHANGED <<newVars, shut, closed, pend, strm, open>>

CloseStep(n) ==
  /\ call[n].pc = "closing"
  /\ closed' = (closed \/ CloseOrder[once] = "flag")
  /\ Shut({CloseOrder[once]})
  /\ once' = once + 1
  /\ IF once = Len(CloseOrder) THEN To(n, "done") ELSE UNCHANGED call
  /\ UNCHANGED <<newVars, pend, strm, open>>
-----------------------------------------------------------------------------
(***************************************************************************)
(* Calls.                                                                  *)
(***************************************************************************)
\* A goroutine calls. Wait needs a PendingTx that SubmitAsync returned.
Begin(n) ==
  /\ stage = "ready" /\ call[n].op = "none" /\ \A m \in 1..(n - 1) : call[m].op # "none"
  /\ \E plan \in Plans, op \in Operations, other, deadline \in BOOLEAN,
        p \in {0} \cup {q \in Calls : pend[q].state = "held"} :
       /\ op = plan[n] /\ \A m \in 1..(n - 1) : call[m].op = plan[m]
       /\ op = "wait" <=> p # 0
       /\ op \in {"wait", "close"} => ~other
       /\ op = "close" => ~deadline
       /\ call' = [call EXCEPT ![n] = [NoCall EXCEPT
            !.op = op, !.other = other, !.deadline = deadline, !.p = p,
            !.after = \E r \in Resources : shut[r] > 0,
            !.pc = CASE op = "wait" -> "lock" [] op = "close" -> "once" [] OTHER -> "gateway",
            !.ph = CASE op = "wait" -> "commitStatus" [] op = "close" -> "none"
                     [] op \in Submissions -> "endorse" [] OTHER -> "evaluate"]]
  /\ UNCHANGED <<newVars, clientVars, pend, strm, open>>

\* The caller's ctx ends, by its deadline or by its cancel function.
CtxEnds(n) ==
  /\ call[n].pc \in {"rpc", "lock"} /\ ~call[n].late
  /\ call' = [call EXCEPT ![n].late = TRUE]
  /\ UNCHANGED <<newVars, clientVars, pend, strm, open>>

\* The names by which CallInfo calls the phases, and the CallInfo of a phase.
OpOf == [evaluate |-> "evaluate", endorse |-> "endorse", submit |-> "submit", commitStatus |-> "commit"]
CallInfo(c, err) == [Operation |-> IF c.op = "tx_status" THEN c.op ELSE OpOf[c.ph], Err |-> err]

\* What the Observer has seen after a phase of call c that ended with err; Height and
\* ChaincodeEvents send none.
\* Mutant: the error is read before it is known.
MutErrTooEarly(c, err) ==
  IF c.op \in {"height", "events"} THEN c.seen ELSE Append(c.seen, CallInfo(c, "nil"))
observe(c, err) ==
  IF c.op \in {"height", "events"} THEN c.seen ELSE Append(c.seen, CallInfo(c, err))

\* The call returns; of its goroutine only the phase it came to and what it told
\* are left.
Returned(c, err, seen) ==
  [NoCall EXCEPT !.op = c.op, !.pc = "done", !.ph = c.ph, !.p = c.p, !.after = c.after,
                 !.err = err, !.seen = seen]

Return(n, err) == call' = [call EXCEPT ![n] = Returned(@, err, observe(@, err))]

Count(b) == IF b THEN 1 ELSE 0

\* Contract.gateway refuses, or NewProposal does. Submissions tell no Observer.
GatewayRefused(n) ==
  /\ call[n].pc = "gateway"
  /\ IF call[n].op \in Submissions
     THEN call' = [call EXCEPT ![n] = Returned(@, configError.Kind, <<>>)]
     ELSE Return(n, configError.Kind)
  /\ UNCHANGED <<newVars, clientVars, pend, strm, open>>

\* Contract.gateway: another identity than the client's gets its own gateway.
GatewayTaken(n) ==
  /\ call[n].pc = "gateway" /\ ~closed
  /\ To(n, "rpc")
  /\ open' = open + Count(call[n].other)
  /\ UNCHANGED <<newVars, clientVars, pend, strm>>

\* A gateway call begins with a signature. The signing function is given no ctx:
\* until it returns, nothing ends the call.
Signed(n) ==
  /\ call[n].pc = "rpc" /\ ~call[n].signed
  /\ call' = [call EXCEPT ![n].signed = TRUE]
  /\ UNCHANGED <<newVars, clientVars, pend, strm, open>>

\* The connection is there to carry an answer.
Reachable == shut["conn"] = 0

\* A query is answered. TxStatus and Height may fail to decode the answer.
QueryAnswered(n) ==
  /\ call[n].pc = "rpc" /\ call[n].signed /\ call[n].op \in Queries /\ Reachable
  /\ \E err \in {"nil"} \cup (IF call[n].op = "evaluate" THEN {} ELSE {"internal"}) : Return(n, err)
  /\ open' = open - Count(call[n].other)
  /\ UNCHANGED <<newVars, clientVars, pend, strm>>

Endorsed(n) ==
  /\ call[n].pc = "rpc" /\ call[n].signed /\ call[n].ph = "endorse" /\ Reachable
  /\ call' = [call EXCEPT ![n].ph = "submit", ![n].signed = FALSE, ![n].seen = observe(call[n], "nil")]
  /\ UNCHANGED <<newVars, clientVars, pend, strm, open>>

\* The orderer has the transaction: SubmitAsync hands its PendingTx, and the
\* gateway with it, to the caller, SubmitWith calls Wait on it.
Ordered(n) ==
  /\ call[n].pc = "rpc" /\ call[n].signed /\ call[n].ph = "submit" /\ Reachable
  /\ pend' = [pend EXCEPT ![n].state = IF call[n].op = "submit" THEN "inside" ELSE "held",
                          ![n].other = call[n].other]
  /\ IF call[n].op = "submit"
     THEN call' = [call EXCEPT ![n].pc = "lock", ![n].ph = "commitStatus", ![n].p = n,
                               ![n].signed = FALSE, ![n].seen = observe(call[n], "nil")]
     ELSE Return(n, "nil")
  /\ UNCHANGED <<newVars, clientVars, strm, open>>

Lock(n) ==
  /\ call[n].pc = "lock" /\ pend[call[n].p].lock = 0
  /\ pend' = [pend EXCEPT ![call[n].p].lock = n]
  /\ To(n, "rpc")
  /\ UNCHANGED <<newVars, clientVars, strm, open>>

\* p.once.Do(p.release): the gateways still open. Mutant: release runs each time.
MutEachTime(p) == open - Count(pend[p].other)
onceRelease(p) == open - Count(pend[p].other /\ ~pend[p].released)

\* Wait learns the status; it is the same for every Wait.
\* Mutant: the release comes after the check of st.Successful.
MutReleasedIfValid(n) ==
  LET p == call[n].p
  IN  /\ call[n].pc = "rpc" /\ call[n].signed /\ call[n].ph = "commitStatus" /\ Reachable
      /\ \E vc \in {"VALID", "MVCC_READ_CONFLICT"} :
           /\ pend[p].code \in {"none", vc}
           /\ pend' = [pend EXCEPT ![p].code = vc, ![p].lock = 0,
                                   ![p].released = @ \/ vc = "VALID"]
           /\ Return(n, IF vc = "VALID" THEN "nil" ELSE commitFailure(p, vc).Kind)
           /\ open' = IF vc = "VALID" THEN onceRelease(p) ELSE open
      /\ UNCHANGED <<newVars, clientVars, strm>>
StatusKnown(n) ==
  LET p == call[n].p
  IN  /\ call[n].pc = "rpc" /\ call[n].signed /\ call[n].ph = "commitStatus" /\ Reachable
      /\ \E vc \in {"VALID", "MVCC_READ_CONFLICT"} :
           /\ pend[p].code \in {"none", vc}
           /\ pend' = [pend EXCEPT ![p].code = vc, ![p].lock = 0, ![p].released = TRUE]
           /\ Return(n, IF vc = "VALID" THEN "nil" ELSE commitFailure(p, vc).Kind)
      /\ open' = onceRelease(p)
      /\ UNCHANGED <<newVars, clientVars, strm>>

\* PendingTx.Release.
Release(p) ==
  /\ pend[p].state = "held"
  /\ pend' = [pend EXCEPT ![p].released = TRUE]
  /\ open' = onceRelease(p)
  /\ UNCHANGED <<newVars, clientVars, call, strm>>

\* A gateway call fails without text: it is classified and observed; Wait unlocks,
\* the others release their gateway. Mutants: a failed Wait keeps the lock;
\* SubmitAsync releases only what it never submitted.
MutStaysLocked(n, code) ==
  /\ Return(n, classify(Failure(code), n, call[n].ph, TRUE).Kind)
  /\ UNCHANGED pend
  /\ open' = open - Count(call[n].other /\ call[n].ph # "commitStatus")
MutSubmitLeaks(n, code) ==
  /\ Return(n, classify(Failure(code), n, call[n].ph, TRUE).Kind)
  /\ pend' = [p \in Calls |-> IF pend[p].lock = n THEN [pend[p] EXCEPT !.lock = 0] ELSE pend[p]]
  /\ open' = open - Count(call[n].other /\ call[n].ph \notin {"submit", "commitStatus"})
CallFails(n, code) ==
  /\ Return(n, classify(Failure(code), n, call[n].ph, TRUE).Kind)
  /\ pend' = [p \in Calls |-> IF pend[p].lock = n THEN [pend[p] EXCEPT !.lock = 0] ELSE pend[p]]
  /\ open' = open - Count(call[n].other /\ call[n].ph # "commitStatus")

PeerFails(n) ==
  /\ call[n].pc = "rpc" /\ call[n].signed /\ Reachable
  /\ \E code \in FailCodes : CallFails(n, code)
  /\ UNCHANGED <<newVars, clientVars, strm>>

\* The signing function fails, before anything is sent.
SignFails(n) ==
  /\ call[n].pc = "rpc" /\ ~call[n].signed
  /\ CallFails(n, "Unknown")
  /\ UNCHANGED <<newVars, clientVars, strm>>

\* The gateway call, once signed, notices the end of ctx or of its connection.
GivesUp(n) ==
  /\ call[n].pc = "rpc" /\ call[n].signed
  /\ call[n].late \/ ~Reachable
  /\ CallFails(n, "Canceled")
  /\ UNCHANGED <<newVars, clientVars, strm>>

\* withDefaultTimeout: the deadline of ctx or the timeout of the phase passes.
\* ChaincodeEvents gives its context no timeout.
TimesOut(n) ==
  /\ call[n].pc = "rpc" /\ call[n].signed
  /\ call[n].op # "events" /\ bounded(call[n].deadline, cfg.timeout[call[n].ph])
  /\ CallFails(n, "DeadlineExceeded")
  /\ UNCHANGED <<newVars, clientVars, strm>>
-----------------------------------------------------------------------------
(***************************************************************************)
(* Event streams: ChaincodeEvents, its forwarder and the consumer, who may *)
(* stop reading at any time.                                               *)
(***************************************************************************)

\* The stream is open before the peer has answered anything; the forwarder starts
\* and keeps the gateway.
StreamOpened(n) ==
  /\ call[n].pc = "rpc" /\ call[n].signed /\ call[n].op = "events" /\ Reachable /\ ~call[n].late
  /\ strm' = [strm EXCEPT ![n] = [NoStrm EXCEPT !.fwd = "recv", !.other = call[n].other, !.upstream = TRUE]]
  /\ Return(n, "nil")
  /\ UNCHANGED <<newVars, clientVars, pend, open>>

Stream(n, s) == strm' = [strm EXCEPT ![n] = s] /\ UNCHANGED <<newVars, clientVars, call, pend>>

\* An event arrives, and the consumer takes it.
Forward(n) ==
  /\ strm[n].fwd = "recv" /\ strm[n].upstream
  /\ Stream(n, [strm[n] EXCEPT !.fwd = "send"])
  /\ UNCHANGED open
Consume(n) ==
  /\ strm[n].fwd = "send"
  /\ Stream(n, [strm[n] EXCEPT !.fwd = "recv"])
  /\ UNCHANGED open

\* EventStream.Close, or the end of the ctx the stream was opened with.
StreamStopped(n) ==
  /\ strm[n].fwd # "none" /\ ~strm[n].stopped
  /\ Stream(n, [strm[n] EXCEPT !.stopped = TRUE])
  /\ UNCHANGED open

\* The gateway closes upstream: the peer dropped it, its connection is closed, or
\* its context has ended. Only the last two are certain.
UpstreamEnds(n) ==
  /\ strm[n].upstream
  /\ Stream(n, [strm[n] EXCEPT !.upstream = FALSE])
  /\ UNCHANGED open

\* The forwarder exits: close(s.ch), then release(). Mutant: the send does not
\* look at sctx.
Exits(n, err) ==
  /\ Stream(n, [strm[n] EXCEPT !.fwd = "exited", !.err = err])
  /\ open' = open - Count(strm[n].other)
MutSendBlocks(n) ==
  /\ strm[n].fwd = "recv" /\ ~strm[n].upstream
  /\ Exits(n, IF strm[n].stopped THEN "nil" ELSE "unavailable")
ForwarderExits(n) ==
  \/ /\ strm[n].fwd = "send" /\ strm[n].stopped
     /\ Exits(n, "nil")
  \/ /\ strm[n].fwd = "recv" /\ ~strm[n].upstream
     /\ Exits(n, IF strm[n].stopped THEN "nil" ELSE "unavailable")
-----------------------------------------------------------------------------
Construction ==
  \/ Refused \/ Accepted \/ DialFails \/ Dialled \/ Identified \/ LoadFails
  \/ Connected \/ ConnectFails \/ Undone

\* What a goroutine does without an answer of the peer.
Local(n) ==
  \/ CloseOnce(n) \/ CloseStep(n) \/ GatewayRefused(n) \/ GatewayTaken(n) \/ Lock(n)
  \/ Signed(n) \/ SignFails(n) \/ GivesUp(n) \/ TimesOut(n) \/ StreamOpened(n)

Answered(n) == QueryAnswered(n) \/ Endorsed(n) \/ Ordered(n) \/ StatusKnown(n) \/ PeerFails(n)

Next ==
  \/ Construction
  \/ \E n \in Calls :
       \/ Begin(n) \/ CtxEnds(n) \/ Local(n) \/ Answered(n) \/ Release(n)
       \/ Forward(n) \/ Consume(n) \/ StreamStopped(n) \/ UpstreamEnds(n) \/ ForwarderExits(n)

Spec == Init /\ [][Next]_vars

\* Goroutines run and contexts time out. Nothing is assumed of the peer, of a
\* signing function, of the consumer of a stream, nor that a caller cancels.
Fairness ==
  \A n \in Calls :
    /\ WF_vars(CloseOnce(n) \/ CloseStep(n) \/ GatewayRefused(n) \/ GatewayTaken(n) \/ Lock(n))
    /\ WF_vars(GivesUp(n) \/ TimesOut(n) \/ StreamOpened(n))
    /\ WF_vars(ForwarderExits(n))
    /\ WF_vars((strm[n].stopped \/ ~Reachable) /\ UpstreamEnds(n))

FairSpec == Spec /\ Fairness

\* Signing functions return, as one with a key in memory does.
SignersReturn == \A n \in Calls : WF_vars(Signed(n) \/ SignFails(n))

SigningSpec == FairSpec /\ SignersReturn
-----------------------------------------------------------------------------
(***************************************************************************)
(* Correctness.                                                            *)
(***************************************************************************)
CallOK(c) ==
  /\ c.op \in Operations \cup {"none"}
  /\ c.pc \in {"idle", "gateway", "rpc", "lock", "once", "closing", "done"}
  /\ c.ph \in Phases \cup {"none"} /\ c.p \in 0..MaxCalls /\ c.err \in Kinds \cup {"nil"}
  /\ {c.other, c.signed, c.deadline, c.late, c.after} \subseteq BOOLEAN
PendOK(p) ==
  /\ p.state \in {"none", "inside", "held"} /\ p.lock \in 0..MaxCalls
  /\ p.code \in {"none"} \cup ValidationCodes /\ {p.other, p.released} \subseteq BOOLEAN
StrmOK(s) ==
  /\ s.fwd \in {"none", "recv", "send", "exited"} /\ s.err \in {"nil", "unavailable"}
  /\ {s.other, s.upstream, s.stopped} \subseteq BOOLEAN

\* Every variable holds a value of its type.
TypeOK ==
  /\ stage \in {"start", "dial", "identity", "connect", "undo", "ready", "failed"}
  /\ made \subseteq Resources /\ shut \in [Resources -> Nat] /\ open \in Nat
  /\ closed \in BOOLEAN /\ once \in 0..(Len(CloseOrder) + 1)
  /\ \A n \in Calls : CallOK(call[n]) /\ PendOK(pend[n]) /\ StrmOK(strm[n])

Done(n, ops) == call[n].pc = "done" /\ call[n].op \in ops

\* The client closes exactly its own resources, once each (Close, "Safe to call
\* twice"; NewWithConnection, "The connection is not closed by Close"): when New
\* has failed, and when any of several concurrent Close has returned, all of them
\* are closed.
ClosesItsOwn ==
  /\ \A r \in Resources : shut[r] <= Count(r \in made)
  /\ stage = "failed" \/ (\E n \in Calls : Done(n, {"close"})) =>
       \A r \in made : shut[r] = 1

\* A call that begins when Close has begun to take things away gets no gateway,
\* whatever Close has still to do ("Calls made after Close fail with KindConfig").
\* Wait is the exception: it asks without a gateway.
ClosedRefuses ==
  \A n \in Calls : call[n].after /\ call[n].op # "wait" =>
    call[n].pc # "rpc" /\ (call[n].pc = "done" /\ call[n].op # "close" => call[n].err = "config")

\* The gateways open for other identities are those of a call under way, of a
\* PendingTx that was not released and of a forwarder that runs: none is lost, and
\* none is closed twice however Wait and Release of a PendingTx meet. A PendingTx
\* that SubmitWith dropped still counts (see LeftBehind).
GatewayAccounting ==
  open = Cardinality({n \in Calls : call[n].pc = "rpc" /\ call[n].other /\ call[n].ph # "commitStatus"})
       + Cardinality({p \in Calls : pend[p].other /\ ~pend[p].released})
       + Cardinality({n \in Calls : strm[n].other /\ strm[n].fwd \in {"recv", "send"}})

\* SubmitWith leaves a gateway open behind it, with nobody to close it, only when
\* the status query failed; a definite answer, good or bad, has closed it.
LeftBehind ==
  \A n \in Calls : Done(n, {"submit"}) /\ pend[n].state = "inside" /\ ~pend[n].released =>
    call[n].err = "outcome_unknown"

\* A transaction the orderer accepted is never reported as if it had not been,
\* though Close, Release and ctx pull at the call: Wait and SubmitWith say nil,
\* its validation failure, or that the outcome is unknown.
AcceptedNotDenied ==
  \A n \in Calls : Done(n, {"submit", "wait"}) /\ call[n].p # 0 =>
    \/ call[n].err = "outcome_unknown"
    \/ call[n].err = "nil" /\ pend[call[n].p].code = "VALID"
    \/ call[n].err = "conflict" /\ pend[call[n].p].code = "MVCC_READ_CONFLICT"

\* One Wait at a time queries a PendingTx, and a Wait that ended, however it
\* ended, keeps no lock: whoever stands in line is behind a query under way that,
\* once signed, has a deadline. It stands in line whether its ctx has ended or not
\* (see WaitHonoursCtx).
WaitsTakeTurns ==
  \A p \in Calls :
    /\ \A n \in Calls : call[n].p = p /\ call[n].pc = "rpc" => pend[p].lock = n
    /\ pend[p].lock # 0 =>
         LET c == call[pend[p].lock]
         IN  c.pc = "rpc" /\ c.p = p /\ bounded(c.deadline, cfg.timeout[c.ph])

\* The operations that a call has come to by its phase, as CallInfo names them.
ToldBy(c) ==
  CASE c.op \in Queries -> <<c.op>>
    [] c.op = "wait" -> <<"commit">>
    [] c.op = "submit" /\ c.ph = "commitStatus" -> <<"endorse", "submit", "commit">>
    [] c.ph = "submit" -> <<"endorse", "submit">>
    [] OTHER -> <<"endorse">>

\* The phase in which a call succeeds.
LastPhase == [evaluate |-> "evaluate", tx_status |-> "evaluate", submit_async |-> "submit",
              submit |-> "commitStatus", wait |-> "commitStatus"]

\* When Evaluate, TxStatus, SubmitAsync, SubmitWith or Wait has returned, the
\* Observer was told exactly the phases that the call came to, each once and in
\* order, the last one with the error that the call returned and those before it
\* with none, and after a success every phase. Not so, against "every finished
\* operation" of the Observer: Height and streams tell nothing, nor does a submission
\* refused before it had a proposal.
ObserverSeesAll ==
  \A n \in Calls : Done(n, DOMAIN LastPhase) =>
    LET c == call[n]
        told == ToldBy(c)
    IN  /\ c.err = "nil" => c.ph = LastPhase[c.op]
        /\ \/ c.seen = [i \in DOMAIN told |->
                         [Operation |-> told[i], Err |-> IF i = Len(told) THEN c.err ELSE "nil"]]
           \/ c.seen = <<>> /\ c.op \in Submissions /\ c.ph = "endorse" /\ c.err = "config"

\* An endpoint that ends in host:port, bare or after a scheme with "://" (Config,
\* PeerEndpoint).
Documented(c) ==
  LET e == c.endpoint
      k == Len(e) - Len(c.host) - 2      \* the tokens before the host
  IN  /\ k >= 0 /\ SubSeq(e, k + 1, k + Len(c.host)) = c.host
      /\ e[Len(e) - 1] = ":" /\ e[Len(e)] # ":"
      /\ \A i \in (k + 1)..Len(e) : e[i] # "/"
      /\ \/ k = 0 /\ ~hasScheme(e)
         \/ k > 0 /\ e[k] = "/" /\ \E i \in 1..(k - 2) : SubSeq(e, i, i + 2) = <<":", "/", "/">>

\* TLS verifies the host that is dialled, or the override, for every endpoint of a
\* documented form (Config.PeerHostOverride, 'Empty means "use the host part of
\* PeerEndpoint"'). validate takes other forms too; of dns:host:port, a scheme
\* without slashes, serverNameFor makes dns:host.
VerifiesDialledHost ==
  "conn" \in made /\ Documented(cfg) =>
    /\ dial.name = IF cfg.override # <<>> THEN cfg.override ELSE cfg.host
    /\ IsSuffix(cfg.host, Before(dial.target, ":")) /\ hasScheme(dial.target)

\* Every call returns, whatever the peer does and though no ctx has a deadline,
\* if signing functions return ("When ctx has no deadline, each phase uses its
\* Config timeout").
CallsReturn == \A n \in Calls : call[n].op # "none" ~> call[n].pc = "done"

\* A Wait whose ctx has ended does not stay in line for the lock of its PendingTx
\* ("Wait blocks until the transaction is committed, ctx ends, or the commit status
\* timeout passes").
WaitHonoursCtx ==
  \A n \in Calls : call[n].pc = "lock" /\ call[n].late ~> call[n].pc # "lock"

\* A stream that was stopped gives back its gateway, though its consumer reads no
\* more ("The forwarding goroutine no longer leaks when the consumer stops reading").
StoppedStreamExits == \A n \in Calls : strm[n].stopped ~> strm[n].fwd = "exited"
=============================================================================
