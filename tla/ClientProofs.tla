---------------------------- MODULE ClientProofs ----------------------------
(***************************************************************************)
(* Proofs about Client, for every set of Configs, every plan of calls and  *)
(* every number of goroutines that share the client.                       *)
(***************************************************************************)
EXTENDS Client, ErrorsProofs, FiniteSetTheorems, SequenceTheorems

-----------------------------------------------------------------------------
(***************************************************************************)
(* What a call returns.                                                    *)
(***************************************************************************)

\* What the Observer is told of a phase.
Info(operation, err) == [Operation |-> operation, Err |-> err]

Outcomes == Kinds \cup {"nil"}
Infos    == [Operation : {"evaluate", "tx_status", "endorse", "submit", "commit"}, Err : Outcomes]

CallRecs ==
  [op : Operations \cup {"none"}, ph : Phases \cup {"none"}, p : 0..MaxCalls,
   pc : {"idle", "gateway", "rpc", "lock", "once", "closing", "done"},
   other : BOOLEAN, signed : BOOLEAN, deadline : BOOLEAN, late : BOOLEAN, after : BOOLEAN,
   err : Outcomes, seen : Seq(Infos)]
PendRecs ==
  [state : {"none", "inside", "held"}, other : BOOLEAN, lock : 0..MaxCalls,
   released : BOOLEAN, code : {"none"} \cup ValidationCodes]
StrmRecs ==
  [fwd : {"none", "recv", "send", "exited"}, other : BOOLEAN, upstream : BOOLEAN,
   stopped : BOOLEAN, err : {"nil", "unavailable"}]

LEMMA KindsAre ==
  Kinds = {"invalid_argument", "not_found", "already_exists", "conflict", "unauthorized",
           "failed_precondition", "chaincode", "endorsement", "submit", "commit_failed",
           "outcome_unknown", "timeout", "unavailable", "canceled", "config", "internal"}
BY DEF Kinds, kindCode

\* The Kind of a failed gateway call, in each phase.
FailKind(n, code, ph) == classify(Failure(code), n, ph, TRUE).Kind

LEMMA FailureKind ==
  ASSUME NEW n, NEW code, NEW ph \in Phases
  PROVE  /\ FailKind(n, code, ph) \in Kinds
         /\ ph = "commitStatus" => FailKind(n, code, ph) = "outcome_unknown"
<1> USE DEF FailKind
<1>kinds. kindFromCode(code, ph) \in Kinds /\ {"submit", "outcome_unknown"} \subseteq Kinds
  BY KindFromCode, KindsAre
<1>1. CASE ph = "evaluate"
  BY <1>1, <1>kinds, EvaluateFailure
<1>2. CASE ph = "endorse"
  BY <1>2, <1>kinds, EndorseFailure
<1>3. CASE ph = "submit"
  <2>1. CASE code \in RejectedBeforeOrdering
    <3>1. \A t, strict : classify(Failure(code), t, "submit", strict).Kind = "submit"
      BY <2>1, SubmitRejected
    <3> QED BY <1>3, <3>1, <1>kinds
  <2>2. CASE code \notin RejectedBeforeOrdering
    BY <1>3, <2>2, <1>kinds, SubmitOpen
  <2> QED BY <2>1, <2>2
<1>4. CASE ph = "commitStatus"
  BY <1>4, <1>kinds, CommitStatusFailure
<1> QED BY <1>1, <1>2, <1>3, <1>4 DEF Phases

-----------------------------------------------------------------------------
(***************************************************************************)
(* Where a call can stand, with the phase, the PendingTx and what the      *)
(* Observer has been told by then; n is the number of the call. It         *)
(* succeeds in its last phase only.                                        *)
(***************************************************************************)
Waiting(c, n) ==
  /\ c.ph = "commitStatus"
  /\ \/ c.op = "wait" /\ c.p # 0 /\ c.seen = <<>>
     \/ c.op = "submit" /\ c.p = n /\ c.seen = <<Info("endorse", "nil"), Info("submit", "nil")>>
Running(c, n) ==
  \/ c.p = 0 /\ c.op \in Queries \cup {"events"} /\ c.ph = "evaluate" /\ c.seen = <<>>
  \/ c.p = 0 /\ c.op \in Submissions /\ c.ph = "endorse" /\ c.seen = <<>>
  \/ c.p = 0 /\ c.op \in Submissions /\ c.ph = "submit" /\ c.seen = <<Info("endorse", "nil")>>
  \/ Waiting(c, n)
Finished(c, n) ==
  \/ c.op = "close" /\ c.p = 0
  \/ c.op \in {"height", "events"} /\ c.p = 0 /\ c.seen = <<>>
  \/ /\ c.op \in {"evaluate", "tx_status"} /\ c.p = 0 /\ c.ph = "evaluate"
     /\ c.seen = <<Info(c.op, c.err)>>
  \/ c.op = "wait" /\ c.p # 0 /\ c.ph = "commitStatus" /\ c.seen = <<Info("commit", c.err)>>
  \/ /\ c.op \in Submissions /\ c.p = 0 /\ c.ph = "endorse" /\ c.err # "nil"
     /\ (c.seen = <<>> /\ c.err = "config") \/ c.seen = <<Info("endorse", c.err)>>
  \/ /\ c.op \in Submissions /\ c.p = 0 /\ c.ph = "submit" /\ (c.op = "submit" => c.err # "nil")
     /\ c.seen = <<Info("endorse", "nil"), Info("submit", c.err)>>
  \/ /\ c.op = "submit" /\ c.p = n /\ c.ph = "commitStatus"
     /\ c.seen = <<Info("endorse", "nil"), Info("submit", "nil"), Info("commit", c.err)>>
Shape(c, n) ==
  \/ c.pc = "idle" /\ c = NoCall
  \/ /\ c.pc = "gateway" /\ c.p = 0 /\ c.seen = <<>>
     /\ \/ c.op \in Submissions /\ c.ph = "endorse"
        \/ c.op \in Queries \cup {"events"} /\ c.ph = "evaluate"
  \/ c.pc = "rpc" /\ Running(c, n)
  \/ c.pc = "lock" /\ Waiting(c, n)
  \/ c.pc \in {"once", "closing"} /\ c.op = "close" /\ c.p = 0
  \/ c.pc = "done" /\ Finished(c, n)

CallInv == call \in [Calls -> CallRecs] /\ \A n \in Calls : Shape(call[n], n)

LEMMA Appended ==
  ASSUME NEW x, NEW y, NEW z
  PROVE  /\ Append(<<>>, x) = <<x>> /\ Append(<<x>>, y) = <<x, y>>
         /\ Append(<<x, y>>, z) = <<x, y, z>>
<1>1. Append(<<>>, x) = <<x>>
  OBVIOUS
<1>2. Append(<<x>>, y) = <<x, y>>
  <2> DEFINE S == {x, y}
             s == Append(<<x>>, y)
             t == <<x, y>>
  <2>1. <<x>> \in Seq(S) /\ t \in Seq(S) /\ y \in S /\ Len(<<x>>) = 1 /\ Len(t) = 2 /\ <<x>>[1] = x
    OBVIOUS
  <2>2. s \in Seq(S) /\ Len(s) = 2 /\ s[1] = x /\ s[2] = y
    <3> HIDE DEF S
    <3> QED BY <2>1, AppendProperties
  <2>3. \A i \in 1..Len(s) : s[i] = t[i]
    <3> HIDE DEF s
    <3> QED BY <2>2
  <2> HIDE DEF S, s, t
  <2>4. s = t
    BY <2>1, <2>2, <2>3, SeqEqual
  <2> QED BY <2>4 DEF s, t
<1>3. Append(<<x, y>>, z) = <<x, y, z>>
  <2> DEFINE S == {x, y, z}
             s == Append(<<x, y>>, z)
             t == <<x, y, z>>
  <2>1. /\ <<x, y>> \in Seq(S) /\ t \in Seq(S) /\ z \in S /\ Len(<<x, y>>) = 2 /\ Len(t) = 3
        /\ <<x, y>>[1] = x /\ <<x, y>>[2] = y
    OBVIOUS
  <2>2. s \in Seq(S) /\ Len(s) = 3 /\ s[1] = x /\ s[2] = y /\ s[3] = z
    <3> HIDE DEF S
    <3> QED BY <2>1, AppendProperties
  <2>3. \A i \in 1..Len(s) : s[i] = t[i]
    <3> HIDE DEF s
    <3> QED BY <2>2
  <2> HIDE DEF S, s, t
  <2>4. s = t
    BY <2>1, <2>2, <2>3, SeqEqual
  <2> QED BY <2>4 DEF s, t
<1> QED BY <1>1, <1>2, <1>3

\* A call in a phase after which it has nothing left to do.
AtLast(c) == c.ph # "endorse" /\ (c.ph = "submit" => c.op # "submit")

\* A phase that ends is told to the Observer; a failure ends the call, and so does
\* a success in its last phase.
LEMMA ReturnedShape ==
  ASSUME NEW n \in Calls, NEW c \in CallRecs, NEW err \in Outcomes,
         Running(c, n), err # "nil" \/ AtLast(c)
  PROVE  /\ Returned(c, err, observe(c, err)) \in CallRecs
         /\ Shape(Returned(c, err, observe(c, err)), n)
         /\ Returned(c, err, observe(c, err)).err = err
<1> DEFINE r == Returned(c, err, observe(c, err))
<1>1. /\ r.op = c.op /\ r.pc = "done" /\ r.ph = c.ph /\ r.p = c.p /\ r.other = FALSE
      /\ r.deadline = FALSE /\ r.late = FALSE /\ r.after = c.after /\ r.err = err
      /\ r.seen = observe(c, err)
  BY DEF Returned, NoCall
<1>2. /\ c.op \in {"height", "events"} => observe(c, err) = <<>>
      /\ c.op \in {"evaluate", "tx_status"} => observe(c, err) = <<Info(c.op, err)>>
      /\ c.ph = "endorse" => observe(c, err) = <<Info("endorse", err)>>
      /\ c.ph = "submit" => observe(c, err) = <<Info("endorse", "nil"), Info("submit", err)>>
      /\ c.op = "wait" => observe(c, err) = <<Info("commit", err)>>
      /\ c.op = "submit" /\ c.ph = "commitStatus" =>
           observe(c, err) = <<Info("endorse", "nil"), Info("submit", "nil"), Info("commit", err)>>
  <2>1. /\ c.op = "tx_status" => CallInfo(c, err) = Info("tx_status", err)
        /\ c.op # "tx_status" /\ c.ph = "evaluate" => CallInfo(c, err) = Info("evaluate", err)
        /\ c.op # "tx_status" /\ c.ph = "endorse" => CallInfo(c, err) = Info("endorse", err)
        /\ c.op # "tx_status" /\ c.ph = "submit" => CallInfo(c, err) = Info("submit", err)
        /\ c.op # "tx_status" /\ c.ph = "commitStatus" => CallInfo(c, err) = Info("commit", err)
    BY DEF CallInfo, OpOf, Info
  <2>2. c.op \notin {"height", "events"} => observe(c, err) = Append(c.seen, CallInfo(c, err))
    BY DEF observe
  <2>3. CASE c.op \in {"height", "events"}
    BY <2>3 DEF observe, Running, Waiting, Queries, Submissions
  <2>4. CASE c.op \in {"evaluate", "tx_status"}
    BY <2>1, <2>2, <2>4, Appended DEF Running, Waiting, Queries, Submissions
  <2>5. CASE c.ph \in {"endorse", "submit"}
    BY <2>1, <2>2, <2>5, Appended DEF Running, Waiting, Queries, Submissions
  <2>6. CASE Waiting(c, n)
    BY <2>1, <2>2, <2>6, Appended DEF Waiting
  <2> QED BY <2>3, <2>4, <2>5, <2>6 DEF Running, Queries
<1>3. observe(c, err) \in Seq(Infos)
  <2>1. \A o \in {"evaluate", "tx_status", "endorse", "submit", "commit"}, e \in Outcomes : Info(o, e) \in Infos
    BY DEF Info, Infos
  <2>2. \A x, y, z \in Infos : {<<>>, <<x>>, <<x, y>>, <<x, y, z>>} \subseteq Seq(Infos)
    <3> HIDE DEF Infos
    <3> QED OBVIOUS
  <2>3. {Info("endorse", "nil"), Info("submit", "nil")} \subseteq Infos
    BY DEF Info, Infos, Outcomes
  <2> HIDE DEF Info, Infos
  <2>4. CASE c.op \in {"height", "events"}
    BY <1>2, <2>2, <2>3, <2>4
  <2>5. CASE c.op \in {"evaluate", "tx_status"}
    BY <1>2, <2>1, <2>2, <2>5
  <2>6. CASE c.ph = "endorse"
    BY <1>2, <2>1, <2>2, <2>6
  <2>7. CASE c.ph = "submit"
    BY <1>2, <2>1, <2>2, <2>3, <2>7
  <2>8. CASE Waiting(c, n)
    BY <1>2, <2>1, <2>2, <2>3, <2>8 DEF Waiting
  <2> QED BY <2>4, <2>5, <2>6, <2>7, <2>8 DEF Running, Queries
<1>4. r \in CallRecs
  BY <1>3 DEF Returned, NoCall, CallRecs, Outcomes
<1>5. Finished(r, n)
  <2> HIDE DEF r
  <2> QED BY <1>1, <1>2 DEF Running, Waiting, Finished, AtLast, Queries, Submissions
<1> QED BY <1>1, <1>4, <1>5 DEF Shape

LEMMA EmptySeen == <<>> \in Seq(Infos)
OBVIOUS

LEMMA CallUpdated ==
  ASSUME CallInv, NEW n \in Calls, NEW c \in CallRecs, Shape(c, n),
         call' = [call EXCEPT ![n] = c]
  PROVE  CallInv'
<1>1. call' \in [Calls -> CallRecs]
  BY DEF CallInv
<1>2. \A m \in Calls : call'[m] = IF m = n THEN c ELSE call[m]
  BY DEF CallInv
<1>3. ASSUME NEW m \in Calls PROVE Shape(call'[m], m)
  BY <1>2 DEF CallInv
<1> QED BY <1>1, <1>3 DEF CallInv

\* A call that moves on in To keeps all its fields but pc.
LEMMA CallMoved ==
  ASSUME CallInv, NEW n \in Calls, NEW pc, To(n, pc),
         pc \in {"rpc", "closing", "done"},
         Shape([call[n] EXCEPT !.pc = pc], n)
  PROVE  CallInv'
<1>1. call[n] \in CallRecs
  BY DEF CallInv
<1>2. [call[n] EXCEPT !.pc = pc] \in CallRecs
  BY <1>1 DEF CallRecs
<1>3. call' = [call EXCEPT ![n] = [call[n] EXCEPT !.pc = pc]]
  BY DEF To, CallInv
<1> QED BY <1>2, <1>3, CallUpdated

LEMMA CallReturned ==
  ASSUME CallInv, NEW n \in Calls, NEW err \in Outcomes, Return(n, err), Running(call[n], n),
         err # "nil" \/ AtLast(call[n])
  PROVE  CallInv'
<1>1. call[n] \in CallRecs
  BY DEF CallInv
<1>2. call' = [call EXCEPT ![n] = Returned(call[n], err, observe(call[n], err))]
  BY DEF Return, CallInv
<1> QED BY <1>1, <1>2, ReturnedShape, CallUpdated

LEMMA RunningInRpc ==
  ASSUME CallInv, NEW n \in Calls, call[n].pc = "rpc"
  PROVE  Running(call[n], n) /\ call[n].ph \in Phases
BY DEF CallInv, Shape, Running, Waiting, Phases

LEMMA CallFailed ==
  ASSUME CallInv, NEW n \in Calls, NEW code, call[n].pc = "rpc", CallFails(n, code)
  PROVE  CallInv'
<1>1. Running(call[n], n) /\ call[n].ph \in Phases
  BY RunningInRpc
<1>2. FailKind(n, code, call[n].ph) \in Outcomes /\ FailKind(n, code, call[n].ph) # "nil"
  BY <1>1, FailureKind, KindsAre DEF Outcomes
<1> QED BY <1>1, <1>2, CallReturned DEF CallFails, FailKind

\* The record of a call that begins.
NewCall(op, other, deadline, p, after) ==
  [NoCall EXCEPT
     !.op = op, !.other = other, !.deadline = deadline, !.p = p, !.after = after,
     !.pc = CASE op = "wait" -> "lock" [] op = "close" -> "once" [] OTHER -> "gateway",
     !.ph = CASE op = "wait" -> "commitStatus" [] op = "close" -> "none"
              [] op \in Submissions -> "endorse" [] OTHER -> "evaluate"]

BeginAs(n, plan, op, other, deadline, p) ==
  /\ op = plan[n] /\ \A m \in 1..(n - 1) : call[m].op = plan[m]
  /\ op = "wait" <=> p # 0
  /\ op \in {"wait", "close"} => ~other
  /\ op = "close" => ~deadline
  /\ call' = [call EXCEPT ![n] = NewCall(op, other, deadline, p, \E r \in Resources : shut[r] > 0)]

LEMMA BeginIs ==
  ASSUME NEW n \in Calls, Begin(n)
  PROVE  /\ stage = "ready" /\ call[n].op = "none"
         /\ \E plan \in Plans, op \in Operations, other \in BOOLEAN, deadline \in BOOLEAN,
               p \in {0} \cup {q \in Calls : pend[q].state = "held"} :
              BeginAs(n, plan, op, other, deadline, p)
BY DEF Begin, BeginAs, NewCall

\* The ways in which a gateway call fails.
Fails(n) == SignFails(n) \/ GivesUp(n) \/ TimesOut(n) \/ PeerFails(n)

\* A call has its signature, or its ctx ends: it stays where it is.
Notes(n) == CtxEnds(n) \/ Signed(n)

LEMMA CallInvInit == Init => CallInv
<1> SUFFICES ASSUME Init PROVE CallInv
  OBVIOUS
<1>1. NoCall \in CallRecs
  BY ClientAssumption DEF NoCall, CallRecs, Outcomes
<1>2. \A n \in Calls : call[n] = NoCall
  BY DEF Init
<1>3. NoCall.pc = "idle"
  BY DEF NoCall
<1> QED BY <1>1, <1>2, <1>3 DEF Init, CallInv, Shape

LEMMA CallInvStep == ASSUME CallInv, [Next]_vars PROVE CallInv'
<1>same. ASSUME UNCHANGED call PROVE CallInv'
  BY <1>same DEF CallInv
<1>1. CASE Construction \/ UNCHANGED vars
  BY <1>same, <1>1 DEF Construction, Refused, Accepted, DialFails, Dialled, Identified, LoadFails,
     Connected, ConnectFails, Undone, Construct, vars
<1>2. ASSUME NEW n \in Calls, Begin(n) PROVE CallInv'
  <2> DEFINE after == \E r \in Resources : shut[r] > 0
  <2>1. PICK plan \in Plans, op \in Operations, other \in BOOLEAN, deadline \in BOOLEAN,
             p \in {0} \cup {q \in Calls : pend[q].state = "held"} :
          BeginAs(n, plan, op, other, deadline, p)
    BY <1>2, BeginIs
  <2> DEFINE c == NewCall(op, other, deadline, p, after)
  <2>2. p \in 0..MaxCalls /\ after \in BOOLEAN
    BY ClientAssumption DEF Calls
  <2> HIDE DEF after
  <2>3. /\ c.op = op /\ c.p = p /\ c.seen = <<>>
        /\ op = "wait" => c.pc = "lock" /\ c.ph = "commitStatus"
        /\ op = "close" => c.pc = "once" /\ c.ph = "none"
        /\ op \notin {"wait", "close"} =>
             c.pc = "gateway" /\ c.ph = IF op \in Submissions THEN "endorse" ELSE "evaluate"
    BY DEF NewCall, NoCall, Submissions
  <2>4. c \in CallRecs
    <3> DEFINE pc == CASE op = "wait" -> "lock" [] op = "close" -> "once" [] OTHER -> "gateway"
               ph == CASE op = "wait" -> "commitStatus" [] op = "close" -> "none"
                       [] op \in Submissions -> "endorse" [] OTHER -> "evaluate"
    <3>1. pc \in {"lock", "once", "gateway"} /\ ph \in Phases \cup {"none"}
      BY DEF Phases
    <3>2. c = [NoCall EXCEPT !.op = op, !.other = other, !.deadline = deadline, !.p = p,
                             !.after = after, !.pc = pc, !.ph = ph]
      BY DEF NewCall
    <3> HIDE DEF pc, ph
    <3> QED BY <2>2, <3>1, <3>2, EmptySeen DEF NoCall, CallRecs, Outcomes
  <2> HIDE DEF c
  <2>5. Shape(c, n)
    BY <2>1, <2>3 DEF BeginAs, Shape, Waiting, Operations, Queries, Submissions
  <2> QED BY <2>1, <2>4, <2>5, CallUpdated DEF BeginAs, c, after
<1>3. ASSUME NEW n \in Calls, Notes(n) PROVE CallInv'
  <2>1. call[n] \in CallRecs /\ Shape(call[n], n) /\ call[n].pc \in {"rpc", "lock"}
    BY <1>3 DEF Notes, CtxEnds, Signed, CallInv
  <2>c. PICK c \in {[call[n] EXCEPT !.late = TRUE], [call[n] EXCEPT !.signed = TRUE]} :
          call' = [call EXCEPT ![n] = c]
    BY <1>3 DEF Notes, CtxEnds, Signed, CallInv
  <2>2. c \in CallRecs
    BY <2>1, <2>c DEF CallRecs
  <2>3. c.op = call[n].op /\ c.pc = call[n].pc /\ c.ph = call[n].ph /\ c.p = call[n].p /\ c.seen = call[n].seen
    BY <2>1, <2>c DEF CallRecs
  <2>4. Shape(c, n)
    BY <2>1, <2>3 DEF Shape, Running, Waiting
  <2> QED BY <2>2, <2>4, <2>c, CallUpdated
<1>4. ASSUME NEW n \in Calls, CloseOnce(n) \/ CloseStep(n) PROVE CallInv'
  <2>1. call[n].op = "close" /\ call[n].p = 0 /\ call[n] \in CallRecs
    BY <1>4 DEF CloseOnce, CloseStep, CallInv, Shape
  <2>2. ASSUME NEW pc \in {"closing", "done"} PROVE Shape([call[n] EXCEPT !.pc = pc], n)
    BY <2>1, <2>2 DEF Shape, Finished, CallRecs
  <2> QED BY <1>4, <1>same, <2>2, CallMoved DEF CloseOnce, CloseStep
<1>5. ASSUME NEW n \in Calls, GatewayRefused(n) PROVE CallInv'
  <2>1. /\ call[n].pc = "gateway" /\ Shape(call[n], n) /\ call[n] \in CallRecs
        /\ configError.Kind = "config" /\ "config" \in Outcomes
    BY <1>5, KindsAre DEF GatewayRefused, CallInv, configError, newError, Outcomes
  <2>2. CASE call[n].op \in Submissions
    <3> DEFINE c == Returned(call[n], "config", <<>>)
    <3>1. call' = [call EXCEPT ![n] = c]
      BY <1>5, <2>1, <2>2 DEF GatewayRefused, CallInv
    <3>2. c \in CallRecs
      BY <2>1, EmptySeen DEF Returned, NoCall, CallRecs
    <3>3. /\ c.pc = "done" /\ c.op = call[n].op /\ c.ph = call[n].ph /\ c.p = call[n].p
          /\ c.seen = <<>> /\ c.err = "config"
      BY DEF Returned, NoCall
    <3> HIDE DEF c
    <3>4. Shape(c, n)
      BY <2>1, <2>2, <3>3 DEF Shape, Finished, Queries, Submissions
    <3> QED BY <3>1, <3>2, <3>4, CallUpdated
  <2>3. CASE call[n].op \notin Submissions
    <3>1. Running(call[n], n)
      BY <2>1, <2>3 DEF Shape, Running
    <3> QED BY <1>5, <2>1, <2>3, <3>1, CallReturned DEF GatewayRefused
  <2> QED BY <2>2, <2>3
<1>6. ASSUME NEW n \in Calls, GatewayTaken(n) \/ Lock(n) PROVE CallInv'
  <2>1. call[n].pc \in {"gateway", "lock"} /\ call[n] \in CallRecs /\ Shape(call[n], n) /\ To(n, "rpc")
    BY <1>6 DEF GatewayTaken, Lock, CallInv
  <2> DEFINE c == [call[n] EXCEPT !.pc = "rpc"]
  <2>2. c.op = call[n].op /\ c.pc = "rpc" /\ c.ph = call[n].ph /\ c.p = call[n].p /\ c.seen = call[n].seen
    BY <2>1 DEF CallRecs
  <2>3. Shape(c, n)
    <3> HIDE DEF c
    <3> QED BY <2>1, <2>2 DEF Shape, Running, Waiting
  <2> QED BY <2>1, <2>3, CallMoved
<1>7. ASSUME NEW n \in Calls, Fails(n) PROVE CallInv'
  BY <1>7, CallFailed DEF Fails, SignFails, GivesUp, TimesOut, PeerFails
<1>8. ASSUME NEW n \in Calls, QueryAnswered(n) \/ StreamOpened(n) PROVE CallInv'
  <2>1. call[n].pc = "rpc" /\ Running(call[n], n) /\ {"nil", "internal"} \subseteq Outcomes
    BY <1>8, RunningInRpc, KindsAre DEF QueryAnswered, StreamOpened, Outcomes
  <2>2. PICK err \in {"nil", "internal"} : Return(n, err)
    BY <1>8 DEF QueryAnswered, StreamOpened
  <2>3. AtLast(call[n])
    BY <1>8, <2>1 DEF QueryAnswered, StreamOpened, Running, Waiting, AtLast, Queries, Submissions
  <2> QED BY <2>1, <2>2, <2>3, CallReturned
<1>9. ASSUME NEW n \in Calls, Endorsed(n) PROVE CallInv'
  <2> DEFINE c == [call[n] EXCEPT !.ph = "submit", !.signed = FALSE, !.seen = observe(call[n], "nil")]
  <2>1. /\ call[n].pc = "rpc" /\ call[n].ph = "endorse" /\ call[n] \in CallRecs
        /\ call[n].p = 0 /\ call[n].op \in Submissions /\ call[n].seen = <<>>
    BY <1>9 DEF Endorsed, CallInv, Shape, Running, Waiting
  <2>2. observe(call[n], "nil") = <<Info("endorse", "nil")>>
    <3>1. CallInfo(call[n], "nil") = Info("endorse", "nil")
      BY <2>1 DEF CallInfo, OpOf, Info, Submissions
    <3> QED BY <2>1, <3>1, Appended DEF observe, Submissions
  <2>3. <<Info("endorse", "nil")>> \in Seq(Infos)
    BY DEF Info, Infos, Outcomes
  <2>4. c \in CallRecs
    BY <2>1, <2>2, <2>3 DEF CallRecs, Phases
  <2>5. c.op = call[n].op /\ c.pc = "rpc" /\ c.ph = "submit" /\ c.p = 0 /\ c.seen = <<Info("endorse", "nil")>>
    BY <2>1, <2>2 DEF CallRecs
  <2>6. call' = [call EXCEPT ![n] = c]
    BY <1>9 DEF Endorsed, CallInv
  <2> HIDE DEF c
  <2>7. Shape(c, n)
    BY <2>1, <2>5 DEF Shape, Running
  <2> QED BY <2>4, <2>6, <2>7, CallUpdated
<1>10. ASSUME NEW n \in Calls, Ordered(n) PROVE CallInv'
  <2>1. /\ call[n].pc = "rpc" /\ call[n].ph = "submit" /\ call[n] \in CallRecs
        /\ call[n].p = 0 /\ call[n].op \in Submissions /\ call[n].seen = <<Info("endorse", "nil")>>
    BY <1>10 DEF Ordered, CallInv, Shape, Running, Waiting
  <2>2. CASE call[n].op = "submit"
    <3> DEFINE c == [call[n] EXCEPT !.pc = "lock", !.ph = "commitStatus", !.p = n,
                                    !.signed = FALSE, !.seen = observe(call[n], "nil")]
    <3>1. observe(call[n], "nil") = <<Info("endorse", "nil"), Info("submit", "nil")>>
      <4>1. CallInfo(call[n], "nil") = Info("submit", "nil")
        BY <2>1, <2>2 DEF CallInfo, OpOf, Info
      <4> QED BY <2>1, <2>2, <4>1, Appended DEF observe
    <3>2. <<Info("endorse", "nil"), Info("submit", "nil")>> \in Seq(Infos)
      BY DEF Info, Infos, Outcomes
    <3>3. c \in CallRecs
      <4>1. n \in 0..MaxCalls
        BY ClientAssumption DEF Calls
      <4>2. observe(call[n], "nil") \in Seq(Infos)
        BY <3>1, <3>2
      <4> QED BY <2>1, <4>1, <4>2 DEF CallRecs, Phases
    <3>4. /\ c.op = "submit" /\ c.pc = "lock" /\ c.ph = "commitStatus" /\ c.p = n
          /\ c.seen = <<Info("endorse", "nil"), Info("submit", "nil")>>
      BY <2>1, <2>2, <3>1 DEF CallRecs
    <3>5. call' = [call EXCEPT ![n] = c]
      BY <1>10, <2>2 DEF Ordered, CallInv
    <3> HIDE DEF c
    <3>6. Shape(c, n)
      BY <3>4 DEF Shape, Waiting
    <3> QED BY <3>3, <3>5, <3>6, CallUpdated
  <2>3. CASE call[n].op # "submit"
    BY <1>10, <2>1, <2>3, RunningInRpc, CallReturned DEF Ordered, Outcomes, AtLast
  <2> QED BY <2>2, <2>3
<1>11. ASSUME NEW n \in Calls, StatusKnown(n) PROVE CallInv'
  <2>1. {"nil", "conflict", "commit_failed"} \subseteq Outcomes
    BY KindsAre DEF Outcomes
  <2>2. PICK err \in Outcomes : Return(n, err)
    BY <1>11, <2>1, CommitFailureFields DEF StatusKnown
  <2> QED BY <1>11, <2>2, RunningInRpc, CallReturned DEF StatusKnown, AtLast
<1>12. ASSUME NEW n \in Calls, \/ Release(n) \/ Forward(n) \/ Consume(n) \/ StreamStopped(n)
                               \/ UpstreamEnds(n) \/ ForwarderExits(n)
       PROVE  CallInv'
  BY <1>12, <1>same DEF Release, Forward, Consume, StreamStopped, UpstreamEnds, ForwarderExits,
     Exits, Stream
<1> QED
  BY <1>1, <1>2, <1>3, <1>4, <1>5, <1>6, <1>7, <1>8, <1>9, <1>10, <1>11, <1>12
  DEF Next, Local, Answered, Notes, Fails

-----------------------------------------------------------------------------
(***************************************************************************)
(* What a step does to the calls: at most one of them changes, and none    *)
(* that has returned.                                                      *)
(***************************************************************************)
OthersKept(n) == \A m \in Calls \ {n} : call'[m] = call[m]

\* The fields of call n that the invariants below speak of, after it returned.
ReturnsAs(n, err) ==
  /\ OthersKept(n)
  /\ call'[n].pc = "done" /\ call'[n].err = err
  /\ call'[n].op = call[n].op /\ call'[n].p = call[n].p /\ call'[n].after = call[n].after

LEMMA ReturnEffect == ASSUME CallInv, NEW n \in Calls, NEW err, Return(n, err) PROVE ReturnsAs(n, err)
<1>1. call' = [call EXCEPT ![n] = Returned(call[n], err, observe(call[n], err))]
  BY DEF Return, CallInv
<1>2. call'[n] = Returned(call[n], err, observe(call[n], err)) /\ OthersKept(n)
  BY <1>1 DEF CallInv, OthersKept
<1> QED BY <1>2 DEF ReturnsAs, Returned, NoCall

\* Call n moves to pc; its phase may change.
MovesTo(n, pc) ==
  /\ OthersKept(n)
  /\ call'[n].pc = pc /\ call'[n].op = call[n].op /\ call'[n].p = call[n].p
  /\ call'[n].after = call[n].after /\ call'[n].err = call[n].err
  /\ call'[n].other = call[n].other

LEMMA MoveEffect == ASSUME CallInv, NEW n \in Calls, NEW pc, To(n, pc)
                    PROVE  MovesTo(n, pc) /\ call'[n].ph = call[n].ph
BY DEF To, CallInv, CallRecs, MovesTo, OthersKept

LEMMA NoteEffect == ASSUME CallInv, NEW n \in Calls, Notes(n)
                    PROVE  MovesTo(n, call[n].pc) /\ call'[n].ph = call[n].ph
BY DEF Notes, CtxEnds, Signed, CallInv, CallRecs, MovesTo, OthersKept

LEMMA EndorsedEffect == ASSUME CallInv, NEW n \in Calls, Endorsed(n)
                        PROVE  MovesTo(n, "rpc") /\ call'[n].ph = "submit"
BY DEF Endorsed, CallInv, CallRecs, MovesTo, OthersKept

LEMMA OrderedEffect ==
  ASSUME CallInv, NEW n \in Calls, Ordered(n)
  PROVE  \/ call[n].op = "submit_async" /\ ReturnsAs(n, "nil")
         \/ /\ call[n].op = "submit" /\ OthersKept(n) /\ call'[n].op = "submit"
            /\ call'[n].pc = "lock" /\ call'[n].p = n /\ call'[n].after = call[n].after
<1>1. call[n].op \in Submissions
  BY DEF Ordered, CallInv, Shape, Running, Waiting
<1>2. CASE call[n].op = "submit"
  BY <1>2 DEF Ordered, CallInv, CallRecs, OthersKept
<1>3. CASE call[n].op = "submit_async"
  BY <1>3, ReturnEffect DEF Ordered
<1> QED BY <1>1, <1>2, <1>3 DEF Submissions

LEMMA RefusedEffect == ASSUME CallInv, NEW n \in Calls, GatewayRefused(n) PROVE ReturnsAs(n, "config")
<1>1. configError.Kind = "config"
  BY DEF configError, newError
<1>2. CASE call[n].op \in Submissions
  <2>1. call'[n] = Returned(call[n], "config", <<>>) /\ OthersKept(n)
    BY <1>1, <1>2 DEF GatewayRefused, CallInv, OthersKept
  <2> QED BY <2>1 DEF ReturnsAs, Returned, NoCall
<1>3. CASE call[n].op \notin Submissions
  BY <1>1, <1>3, ReturnEffect DEF GatewayRefused
<1> QED BY <1>2, <1>3

LEMMA BeginEffect ==
  ASSUME CallInv, NEW n \in Calls, Begin(n)
  PROVE  /\ OthersKept(n) /\ call[n] = NoCall /\ stage = "ready"
         /\ call'[n].pc \in {"lock", "once", "gateway"} /\ call'[n].op # "none"
         /\ call'[n].pc = "lock" => call'[n].op = "wait"
         /\ call'[n].pc = "once" <=> call'[n].op = "close"
         /\ call'[n].p # 0 => call'[n].p \in Calls /\ pend[call'[n].p].state = "held"
         /\ call'[n].after = \E r \in Resources : shut[r] > 0
<1>1. PICK plan \in Plans, op \in Operations, other \in BOOLEAN, deadline \in BOOLEAN,
           p \in {0} \cup {q \in Calls : pend[q].state = "held"} :
        BeginAs(n, plan, op, other, deadline, p)
  BY BeginIs
<1>2. stage = "ready" /\ call[n].op = "none"
  BY BeginIs
<1> DEFINE after == \E r \in Resources : shut[r] > 0
           c == NewCall(op, other, deadline, p, after)
<1>3. call'[n] = c /\ OthersKept(n)
  BY <1>1 DEF BeginAs, CallInv, OthersKept
<1>4. c.op = op /\ c.p = p /\ c.after = after
  BY DEF NewCall, NoCall
<1>5. c.pc = CASE op = "wait" -> "lock" [] op = "close" -> "once" [] OTHER -> "gateway"
  BY DEF NewCall, NoCall
<1>6. call[n] = NoCall
  BY <1>2 DEF CallInv, Shape, Running, Waiting, Finished, Queries, Submissions
<1> HIDE DEF c, after
<1>7. op # "none"
  BY DEF Operations, Queries, Submissions
<1> QED BY <1>2, <1>3, <1>4, <1>5, <1>6, <1>7 DEF after

LEMMA FailEffect ==
  ASSUME CallInv, NEW n \in Calls, Fails(n)
  PROVE  /\ call[n].pc = "rpc" /\ UNCHANGED <<newVars, clientVars, strm>>
         /\ \E code : CallFails(n, code) /\ ReturnsAs(n, FailKind(n, code, call[n].ph))
BY ReturnEffect DEF Fails, SignFails, GivesUp, TimesOut, PeerFails, CallFails, FailKind

\* A step that changes a call.
LEMMA OneCallChanges ==
  ASSUME CallInv, NEW n \in Calls,
         \/ Begin(n) \/ CtxEnds(n) \/ Local(n) \/ Answered(n)
  PROVE  OthersKept(n) /\ (call'[n] = call[n] \/ call[n].pc # "done")
<1>1. CASE Begin(n)
  <2>1. NoCall.pc = "idle"
    BY DEF NoCall
  <2> QED BY <1>1, <2>1, BeginEffect
<1>2. CASE Notes(n)
  BY <1>2, NoteEffect DEF Notes, CtxEnds, Signed, MovesTo
<1>3. CASE CloseOnce(n) \/ GatewayTaken(n) \/ Lock(n)
  BY <1>3, MoveEffect DEF CloseOnce, GatewayTaken, Lock, MovesTo
<1>4. CASE CloseStep(n)
  BY <1>4, MoveEffect DEF CloseStep, MovesTo, OthersKept
<1>5. CASE GatewayRefused(n)
  BY <1>5, RefusedEffect DEF GatewayRefused, ReturnsAs
<1>6. CASE Fails(n)
  BY <1>6, FailEffect DEF ReturnsAs
<1>7. CASE StreamOpened(n) \/ QueryAnswered(n)
  BY <1>7, ReturnEffect DEF StreamOpened, QueryAnswered, ReturnsAs
<1>8. CASE Endorsed(n)
  BY <1>8, EndorsedEffect DEF Endorsed, MovesTo
<1>9. CASE Ordered(n)
  BY <1>9, OrderedEffect DEF Ordered, ReturnsAs
<1>10. CASE StatusKnown(n)
  BY <1>10, ReturnEffect DEF StatusKnown, ReturnsAs
<1> QED BY <1>1, <1>2, <1>3, <1>4, <1>5, <1>6, <1>7, <1>8, <1>9, <1>10
        DEF Local, Answered, Fails, Notes

\* The steps of streams, Release and New leave the calls alone.
LEMMA CallsKept ==
  ASSUME \/ Construction \/ UNCHANGED vars
         \/ \E n \in Calls : \/ Release(n) \/ Forward(n) \/ Consume(n) \/ StreamStopped(n)
                             \/ UpstreamEnds(n) \/ ForwarderExits(n)
  PROVE  UNCHANGED call
BY DEF Construction, Refused, Accepted, DialFails, Dialled, Identified, LoadFails,
   Connected, ConnectFails, Undone, Construct, vars, Release, Forward, Consume, StreamStopped,
   UpstreamEnds, ForwarderExits, Exits, Stream

LEMMA DoneStays ==
  ASSUME CallInv, [Next]_vars, NEW m \in Calls, call[m].pc = "done" PROVE call'[m] = call[m]
<1>1. ASSUME UNCHANGED call PROVE call'[m] = call[m]
  BY <1>1
<1>2. ASSUME NEW n \in Calls, \/ Begin(n) \/ CtxEnds(n) \/ Local(n) \/ Answered(n)
      PROVE  call'[m] = call[m]
  BY <1>2, OneCallChanges DEF OthersKept
<1> QED BY <1>1, <1>2, CallsKept DEF Next

-----------------------------------------------------------------------------
(***************************************************************************)
(* PendingTx. One that exists belongs to the call that made it, and its    *)
(* lock to the Wait that queries it.                                       *)
(***************************************************************************)
PendShape(p) ==
  \/ pend[p] = NoPend
  \/ pend[p].state = "held" /\ call[p].op = "submit_async" /\ call[p].pc = "done"
  \/ pend[p].state = "inside" /\ call[p].op = "submit" /\ call[p].p = p

WaitsOnOne == \A n \in Calls : call[n].p # 0 => pend[call[n].p].state # "none"
WaitLocks  == \A n \in Calls : call[n].pc = "rpc" /\ call[n].p # 0 => pend[call[n].p].lock = n
LockWaits  == \A p \in Calls : pend[p].lock # 0 =>
                                 call[pend[p].lock].pc = "rpc" /\ call[pend[p].lock].p = p

PendInv ==
  /\ pend \in [Calls -> PendRecs] /\ \A p \in Calls : PendShape(p)
  /\ WaitsOnOne /\ WaitLocks /\ LockWaits

LEMMA NoPendFields == NoPend.state = "none" /\ NoPend.lock = 0 /\ NoPend.other = FALSE /\ NoPend.released = FALSE
BY DEF NoPend

LEMMA PendInvInit == Init => PendInv
<1> SUFFICES ASSUME Init PROVE PendInv
  OBVIOUS
<1>1. NoPend \in PendRecs
  BY ClientAssumption DEF NoPend, PendRecs
<1>2. \A n \in Calls : pend[n] = NoPend /\ call[n].p = 0
  BY DEF Init, NoCall
<1>3. pend \in [Calls -> PendRecs]
  BY <1>1 DEF Init
<1> QED BY <1>2, <1>3, NoPendFields DEF PendInv, PendShape, WaitsOnOne, WaitLocks, LockWaits

LEMMA PInCalls == ASSUME CallInv, NEW n \in Calls, call[n].p # 0 PROVE call[n].p \in Calls
BY ClientAssumption DEF CallInv, CallRecs, Calls

LEMMA LockInCalls == ASSUME PendInv, NEW p \in Calls, pend[p].lock # 0 PROVE pend[p].lock \in Calls
BY ClientAssumption DEF PendInv, PendRecs, Calls

\* A step of a call that has no PendingTx, before and after.
LEMMA PendUntouched ==
  ASSUME CallInv, PendInv, CallInv', NEW n \in Calls, UNCHANGED pend, OthersKept(n),
         call[n].pc # "done", call[n].p = 0, call'[n].p = 0
  PROVE  PendInv'
<1>1. pend[n] = NoPend
  BY DEF PendInv, PendShape, Calls
<1>2. \A p \in Calls : PendShape(p)'
  BY <1>1 DEF PendInv, PendShape, OthersKept
<1>3. WaitsOnOne' /\ WaitLocks'
  BY DEF PendInv, WaitsOnOne, WaitLocks, OthersKept
<1>4. LockWaits'
  BY LockInCalls DEF PendInv, LockWaits, OthersKept, Calls
<1> QED BY <1>2, <1>3, <1>4 DEF PendInv

\* A query of a PendingTx, or a phase before it, ends: the lock is free again.
LEMMA PendRetired ==
  ASSUME CallInv, PendInv, CallInv', NEW n \in Calls, NEW err, call[n].pc = "rpc", ReturnsAs(n, err),
         pend' \in [Calls -> PendRecs],
         \A q \in Calls : /\ pend'[q].state = pend[q].state
                          /\ pend'[q].lock = IF pend[q].lock = n THEN 0 ELSE pend[q].lock
                          /\ pend[q] = NoPend => pend'[q] = NoPend
  PROVE  PendInv'
<1> USE DEF ReturnsAs
<1>1. \A p \in Calls : PendShape(p)'
  BY DEF PendInv, PendShape, OthersKept
<1>2. WaitsOnOne'
  BY PInCalls DEF PendInv, WaitsOnOne, OthersKept
<1>3. WaitLocks'
  BY PInCalls DEF PendInv, WaitLocks, OthersKept
<1>4. LockWaits'
  BY LockInCalls DEF PendInv, LockWaits, OthersKept
<1> QED BY <1>1, <1>2, <1>3, <1>4 DEF PendInv

LEMMA PendInvStep == ASSUME CallInv, PendInv, [Next]_vars PROVE PendInv'
<1>call. CallInv'
  BY CallInvStep
<1>same. ASSUME UNCHANGED <<call, pend>> PROVE PendInv'
  BY <1>same DEF PendInv, PendShape, WaitsOnOne, WaitLocks, LockWaits
<1>1. CASE Construction \/ UNCHANGED vars
  BY <1>same, <1>1 DEF Construction, Refused, Accepted, DialFails, Dialled, Identified, LoadFails,
     Connected, ConnectFails, Undone, Construct, vars
<1>2. ASSUME NEW n \in Calls, \/ Forward(n) \/ Consume(n) \/ StreamStopped(n)
                              \/ UpstreamEnds(n) \/ ForwarderExits(n)
      PROVE  PendInv'
  BY <1>2, <1>same DEF Forward, Consume, StreamStopped, UpstreamEnds, ForwarderExits, Exits, Stream
<1>3. ASSUME NEW n \in Calls, Begin(n) PROVE PendInv'
  <2>1. NoCall.pc = "idle" /\ NoCall.p = 0 /\ NoCall.op = "none"
    BY DEF NoCall
  <2>2. /\ OthersKept(n) /\ UNCHANGED pend /\ call'[n].pc # "rpc"
        /\ call[n].pc = "idle" /\ call[n].p = 0 /\ call[n].op = "none"
        /\ call'[n].p # 0 => pend[call'[n].p].state = "held"
    BY <1>3, <2>1, BeginEffect DEF Begin
  <2>3. \A p \in Calls : PendShape(p)'
    BY <2>2 DEF PendInv, PendShape, OthersKept
  <2>4. WaitsOnOne' /\ WaitLocks'
    BY <2>2 DEF PendInv, WaitsOnOne, WaitLocks, OthersKept
  <2>5. LockWaits'
    BY <2>2, LockInCalls DEF PendInv, LockWaits, OthersKept
  <2> QED BY <2>2, <2>3, <2>4, <2>5 DEF PendInv
<1>4. ASSUME NEW n \in Calls, Notes(n) PROVE PendInv'
  <2>1. MovesTo(n, call[n].pc) /\ UNCHANGED pend
    BY <1>4, NoteEffect DEF Notes, CtxEnds, Signed
  <2>2. \A p \in Calls : PendShape(p)'
    BY <2>1 DEF PendInv, PendShape, OthersKept, MovesTo
  <2>3. WaitsOnOne' /\ WaitLocks'
    BY <2>1 DEF PendInv, WaitsOnOne, WaitLocks, OthersKept, MovesTo
  <2>4. LockWaits'
    BY <2>1, LockInCalls DEF PendInv, LockWaits, OthersKept, MovesTo
  <2> QED BY <2>1, <2>2, <2>3, <2>4 DEF PendInv
<1>5. ASSUME NEW n \in Calls, \/ CloseOnce(n) \/ CloseStep(n) \/ GatewayRefused(n) \/ GatewayTaken(n)
                              \/ QueryAnswered(n) \/ StreamOpened(n) \/ Endorsed(n)
      PROVE  PendInv'
  <2>1. call[n].pc \in {"once", "closing", "gateway", "rpc"} /\ call[n].p = 0 /\ UNCHANGED pend
    BY <1>5 DEF CloseOnce, CloseStep, GatewayRefused, GatewayTaken, QueryAnswered, StreamOpened,
       Endorsed, CallInv, Shape, Running, Waiting, Queries
  <2>2. OthersKept(n) /\ call'[n].p = 0
    <3>1. CASE CloseOnce(n) \/ CloseStep(n) \/ GatewayTaken(n)
      BY <3>1, <2>1, MoveEffect DEF CloseOnce, CloseStep, GatewayTaken, MovesTo, OthersKept
    <3>2. CASE GatewayRefused(n)
      BY <3>2, <2>1, RefusedEffect DEF ReturnsAs
    <3>3. CASE QueryAnswered(n) \/ StreamOpened(n)
      BY <3>3, <2>1, ReturnEffect DEF QueryAnswered, StreamOpened, ReturnsAs
    <3>4. CASE Endorsed(n)
      BY <3>4, <2>1, EndorsedEffect DEF MovesTo
    <3> QED BY <1>5, <3>1, <3>2, <3>3, <3>4
  <2> QED BY <1>call, <2>1, <2>2, PendUntouched
<1>6. ASSUME NEW n \in Calls, Ordered(n) PROVE PendInv'
  <2>1. call[n].pc = "rpc" /\ call[n].p = 0
    BY <1>6 DEF Ordered, CallInv, Shape, Running, Waiting
  <2>2. pend[n] = NoPend
    BY <2>1 DEF PendInv, PendShape, Calls
  <2>3. /\ pend' \in [Calls -> PendRecs] /\ \A q \in Calls \ {n} : pend'[q] = pend[q]
        /\ pend'[n].state = (IF call[n].op = "submit" THEN "inside" ELSE "held")
        /\ pend'[n].lock = 0
    <3> DEFINE st == IF call[n].op = "submit" THEN "inside" ELSE "held"
               r == [pend[n] EXCEPT !.state = st, !.other = call[n].other]
    <3>1. call[n].other \in BOOLEAN /\ st \in {"inside", "held"}
      BY DEF CallInv, CallRecs
    <3>2. pend' = [pend EXCEPT ![n] = r]
      BY <1>6 DEF Ordered, PendInv
    <3>3. pend[n] \in PendRecs /\ pend[n].lock = 0
      BY <2>2, NoPendFields DEF PendInv
    <3> HIDE DEF st
    <3>4. r \in PendRecs /\ r.state = st /\ r.lock = 0
      BY <3>1, <3>3 DEF PendRecs
    <3> HIDE DEF r
    <3>5. pend' \in [Calls -> PendRecs] /\ pend'[n] = r /\ \A q \in Calls \ {n} : pend'[q] = pend[q]
      BY <3>2, <3>4 DEF PendInv
    <3> QED BY <3>4, <3>5 DEF st
  <2>4. /\ OthersKept(n) /\ call'[n].pc # "rpc"
        /\ \/ call[n].op = "submit_async" /\ call'[n].op = "submit_async" /\ call'[n].pc = "done" /\ call'[n].p = 0
           \/ call[n].op = "submit" /\ call'[n].op = "submit" /\ call'[n].p = n
    BY <1>6, <2>1, OrderedEffect DEF ReturnsAs
  <2>5. \A p \in Calls : PendShape(p)'
    BY <2>3, <2>4 DEF PendInv, PendShape, OthersKept
  <2>6. WaitsOnOne' /\ WaitLocks'
    BY <2>2, <2>3, <2>4, NoPendFields, PInCalls DEF PendInv, WaitsOnOne, WaitLocks, OthersKept
  <2>7. LockWaits'
    BY <2>1, <2>3, <2>4, LockInCalls DEF PendInv, LockWaits, OthersKept, Calls
  <2> QED BY <2>3, <2>5, <2>6, <2>7 DEF PendInv
<1>7. ASSUME NEW n \in Calls, Lock(n) PROVE PendInv'
  <2> DEFINE p == call[n].p
  <2>1. /\ MovesTo(n, "rpc") /\ call[n].pc = "lock" /\ p \in Calls /\ pend[p].lock = 0
        /\ pend[p].state # "none"
    BY <1>7, MoveEffect, PInCalls DEF Lock, CallInv, Shape, Waiting, PendInv, WaitsOnOne, Calls
  <2>2. /\ pend' \in [Calls -> PendRecs] /\ \A q \in Calls \ {p} : pend'[q] = pend[q]
        /\ pend'[p].state = pend[p].state /\ pend'[p].lock = n
    <3>1. n \in 0..MaxCalls
      BY ClientAssumption DEF Calls
    <3> QED BY <1>7, <2>1, <3>1 DEF Lock, PendInv, PendRecs
  <2> HIDE DEF p
  <2>3. \A q \in Calls : PendShape(q)'
    BY <2>1, <2>2, NoPendFields DEF PendInv, PendShape, OthersKept, MovesTo
  <2>4. WaitsOnOne'
    BY <2>1, <2>2, PInCalls DEF PendInv, WaitsOnOne, OthersKept, MovesTo, p
  <2>5. WaitLocks'
    BY <2>1, <2>2, PInCalls DEF PendInv, WaitLocks, OthersKept, MovesTo, p, Calls
  <2>6. LockWaits'
    BY <2>1, <2>2, LockInCalls DEF PendInv, LockWaits, OthersKept, MovesTo, p
  <2> QED BY <2>2, <2>3, <2>4, <2>5, <2>6 DEF PendInv
<1>8. ASSUME NEW n \in Calls, Fails(n) PROVE PendInv'
  <2>1. PICK code : CallFails(n, code) /\ ReturnsAs(n, FailKind(n, code, call[n].ph))
    BY <1>8, FailEffect
  <2>2. pend' \in [Calls -> PendRecs]
    BY <2>1, ClientAssumption DEF CallFails, PendInv, PendRecs
  <2>3. \A q \in Calls : /\ pend'[q].state = pend[q].state
                         /\ pend'[q].lock = IF pend[q].lock = n THEN 0 ELSE pend[q].lock
                         /\ pend[q] = NoPend => pend'[q] = NoPend
    BY <2>1, NoPendFields DEF CallFails, PendInv, PendRecs, Calls
  <2> QED BY <1>8, <1>call, <2>1, <2>2, <2>3, FailEffect, PendRetired
<1>9. ASSUME NEW n \in Calls, StatusKnown(n) PROVE PendInv'
  <2> DEFINE p == call[n].p
  <2>1. call[n].pc = "rpc" /\ p \in Calls /\ pend[p].lock = n /\ pend[p].state # "none"
    BY <1>9, PInCalls DEF StatusKnown, CallInv, Shape, Running, Waiting, PendInv, WaitLocks, WaitsOnOne, Calls
  <2>2. PICK vc \in {"VALID", "MVCC_READ_CONFLICT"} :
          /\ pend' = [pend EXCEPT ![p].code = vc, ![p].lock = 0, ![p].released = TRUE]
          /\ Return(n, IF vc = "VALID" THEN "nil" ELSE commitFailure(p, vc).Kind)
    BY <1>9 DEF StatusKnown
  <2>3. pend' \in [Calls -> PendRecs]
    BY <2>1, <2>2, ClientAssumption DEF PendInv, PendRecs, ValidationCodes, ConflictCodes
  <2>4. /\ \A q \in Calls \ {p} : pend'[q] = pend[q]
        /\ pend'[p].state = pend[p].state /\ pend'[p].lock = 0
    BY <2>1, <2>2 DEF PendInv, PendRecs
  <2>5. \A q \in Calls \ {p} : pend[q].lock # n
    BY <2>1 DEF PendInv, LockWaits, Calls
  <2> HIDE DEF p
  <2>6. \A q \in Calls : /\ pend'[q].state = pend[q].state
                         /\ pend'[q].lock = IF pend[q].lock = n THEN 0 ELSE pend[q].lock
                         /\ pend[q] = NoPend => pend'[q] = NoPend
    BY <2>1, <2>4, <2>5, NoPendFields
  <2> QED BY <1>call, <2>1, <2>2, <2>3, <2>6, ReturnEffect, PendRetired
<1>10. ASSUME NEW n \in Calls, Release(n) PROVE PendInv'
  <2>1. /\ pend' \in [Calls -> PendRecs] /\ UNCHANGED call /\ pend[n].state = "held"
        /\ \A q \in Calls : /\ pend'[q].state = pend[q].state /\ pend'[q].lock = pend[q].lock
                            /\ q # n => pend'[q] = pend[q]
    BY <1>10 DEF Release, PendInv, PendRecs
  <2>2. \A q \in Calls : PendShape(q)'
    BY <2>1, NoPendFields DEF PendInv, PendShape
  <2>3. WaitsOnOne' /\ WaitLocks' /\ LockWaits'
    BY <2>1, PInCalls DEF PendInv, WaitsOnOne, WaitLocks, LockWaits
  <2> QED BY <2>1, <2>2, <2>3 DEF PendInv
<1> QED
  BY <1>1, <1>2, <1>3, <1>4, <1>5, <1>6, <1>7, <1>8, <1>9, <1>10
  DEF Next, Local, Answered, Fails, Notes

-----------------------------------------------------------------------------
(***************************************************************************)
(* Event streams. One that exists belongs to a ChaincodeEvents that has    *)
(* returned.                                                               *)
(***************************************************************************)
StrmShape(n) == strm[n] = NoStrm \/ (strm[n].fwd # "none" /\ call[n].op = "events" /\ call[n].pc = "done")

StrmInv == strm \in [Calls -> StrmRecs] /\ \A n \in Calls : StrmShape(n)

LEMMA NoStrmFields ==
  NoStrm \in StrmRecs /\ NoStrm.fwd = "none" /\ NoStrm.other = FALSE /\ NoStrm.upstream = FALSE
BY DEF NoStrm, StrmRecs

LEMMA StrmInvInit == Init => StrmInv
BY NoStrmFields DEF Init, StrmInv, StrmShape

\* A stream that exists moves on.
LEMMA StreamMoved ==
  ASSUME StrmInv, NEW n \in Calls, NEW s \in StrmRecs, Stream(n, s), strm[n] # NoStrm, s.fwd # "none"
  PROVE  StrmInv'
<1>1. strm' \in [Calls -> StrmRecs] /\ strm'[n] = s /\ (\A m \in Calls \ {n} : strm'[m] = strm[m])
  BY DEF Stream, StrmInv
<1> QED BY <1>1 DEF Stream, StrmInv, StrmShape

LEMMA StrmInvStep == ASSUME CallInv, StrmInv, [Next]_vars PROVE StrmInv'
<1>same. ASSUME UNCHANGED strm PROVE StrmInv'
  BY <1>same, DoneStays DEF StrmInv, StrmShape
<1>1. CASE Construction \/ UNCHANGED vars
  BY <1>same, <1>1 DEF Construction, Refused, Accepted, DialFails, Dialled, Identified, LoadFails,
     Connected, ConnectFails, Undone, Construct, vars
<1>2. ASSUME NEW n \in Calls, \/ Begin(n) \/ CtxEnds(n) \/ Release(n)
                              \/ (Local(n) /\ ~StreamOpened(n)) \/ Answered(n)
      PROVE  StrmInv'
  BY <1>2, <1>same DEF Begin, CtxEnds, Release, Local, Answered, CloseOnce, CloseStep, GatewayRefused,
     GatewayTaken, Lock, Signed, SignFails, GivesUp, TimesOut, QueryAnswered, Endorsed, Ordered, StatusKnown, PeerFails
<1>3. ASSUME NEW n \in Calls, StreamOpened(n) PROVE StrmInv'
  <2>1. ReturnsAs(n, "nil") /\ call[n].op = "events"
    BY <1>3, ReturnEffect DEF StreamOpened
  <2>2. call[n].other \in BOOLEAN
    BY DEF CallInv, CallRecs
  <2> DEFINE s == [NoStrm EXCEPT !.fwd = "recv", !.other = call[n].other, !.upstream = TRUE]
  <2>3. s \in StrmRecs /\ s.fwd = "recv"
    BY <2>2 DEF NoStrm, StrmRecs
  <2>4. strm' = [strm EXCEPT ![n] = s]
    BY <1>3 DEF StreamOpened
  <2> HIDE DEF s
  <2>5. strm' \in [Calls -> StrmRecs] /\ strm'[n] = s /\ (\A m \in Calls \ {n} : strm'[m] = strm[m])
    BY <2>3, <2>4 DEF StrmInv
  <2> QED BY <2>1, <2>3, <2>5 DEF StrmInv, StrmShape, ReturnsAs, OthersKept
<1>4. ASSUME NEW n \in Calls, \/ Forward(n) \/ Consume(n) \/ StreamStopped(n)
                              \/ UpstreamEnds(n) \/ ForwarderExits(n)
      PROVE  StrmInv'
  <2>1. strm[n] \in StrmRecs /\ strm[n] # NoStrm /\ strm[n].fwd # "none"
    BY <1>4, NoStrmFields DEF StrmInv, StrmShape, Forward, Consume, StreamStopped, UpstreamEnds,
       ForwarderExits
  <2>2. CASE Forward(n)
    <3>1. [strm[n] EXCEPT !.fwd = "send"] \in StrmRecs /\ [strm[n] EXCEPT !.fwd = "send"].fwd # "none"
      BY <2>1 DEF StrmRecs
    <3> QED BY <2>1, <2>2, <3>1, StreamMoved DEF Forward
  <2>3. CASE Consume(n)
    <3>1. [strm[n] EXCEPT !.fwd = "recv"] \in StrmRecs /\ [strm[n] EXCEPT !.fwd = "recv"].fwd # "none"
      BY <2>1 DEF StrmRecs
    <3> QED BY <2>1, <2>3, <3>1, StreamMoved DEF Consume
  <2>4. CASE StreamStopped(n)
    <3>1. [strm[n] EXCEPT !.stopped = TRUE] \in StrmRecs /\ [strm[n] EXCEPT !.stopped = TRUE].fwd # "none"
      BY <2>1 DEF StrmRecs
    <3> QED BY <2>1, <2>4, <3>1, StreamMoved DEF StreamStopped
  <2>5. CASE UpstreamEnds(n)
    <3>1. [strm[n] EXCEPT !.upstream = FALSE] \in StrmRecs /\ [strm[n] EXCEPT !.upstream = FALSE].fwd # "none"
      BY <2>1 DEF StrmRecs
    <3> QED BY <2>1, <2>5, <3>1, StreamMoved DEF UpstreamEnds
  <2>6. CASE ForwarderExits(n)
    <3>1. ASSUME NEW err \in {"nil", "unavailable"}
          PROVE  /\ [strm[n] EXCEPT !.fwd = "exited", !.err = err] \in StrmRecs
                 /\ [strm[n] EXCEPT !.fwd = "exited", !.err = err].fwd # "none"
      BY <2>1 DEF StrmRecs
    <3>2. PICK err \in {"nil", "unavailable"} : Exits(n, err)
      BY <2>6 DEF ForwarderExits
    <3> QED BY <2>1, <3>1, <3>2, StreamMoved DEF Exits
  <2> QED BY <1>4, <2>2, <2>3, <2>4, <2>5, <2>6
<1> QED BY <1>1, <1>2, <1>3, <1>4 DEF Next, Local

-----------------------------------------------------------------------------
(***************************************************************************)
(* New and Close. Calls begin when New has succeeded, and then each phase  *)
(* has a timeout; what is shut follows from the step that Close is at.     *)
(***************************************************************************)
Stages == {"start", "dial", "identity", "connect", "undo", "ready", "failed"}

TimeoutInv ==
  /\ "timeout" \in DOMAIN cfg /\ cfg.timeout \in [Phases -> Int]
  /\ stage \notin {"start", "failed"} => \A ph \in Phases : cfg.timeout[ph] > 0

\* What can have been made at each stage of New.
Makes(st) ==
  CASE st \in {"start", "dial"} -> {}
    [] st = "identity" -> {"conn"}
    [] st \in {"connect", "undo"} -> {"conn", "id"}
    [] OTHER -> Resources

BuildInv ==
  /\ stage \in Stages /\ made \subseteq Makes(stage)
  /\ stage # "ready" => once = 0 /\ \A n \in Calls : call[n].pc = "idle"

LEMMA Defaulted ==
  ASSUME NEW c, "timeout" \in DOMAIN c, c.timeout \in [Phases -> Int], NEW own, validate(c, own)
  PROVE  /\ "timeout" \in DOMAIN withDefaults(c) /\ withDefaults(c).timeout \in [Phases -> Int]
         /\ \A ph \in Phases : withDefaults(c).timeout[ph] > 0
<1> DEFINE t == [ph \in DOMAIN DefaultTimeout |->
                   IF c.timeout[ph] = 0 THEN DefaultTimeout[ph] ELSE c.timeout[ph]]
<1>1. DOMAIN DefaultTimeout = Phases /\ \A ph \in Phases : DefaultTimeout[ph] \in Int /\ DefaultTimeout[ph] > 0
  BY DEF DefaultTimeout, Phases
<1>2. \A ph \in Phases : c.timeout[ph] \in Int /\ c.timeout[ph] >= 0
  BY DEF validate
<1>3. t \in [Phases -> Int] /\ \A ph \in Phases : t[ph] > 0
  BY <1>1, <1>2
<1>4. withDefaults(c) = [c EXCEPT !.timeout = t]
  BY DEF withDefaults
<1> HIDE DEF t
<1> QED BY <1>3, <1>4

LEMMA TimeoutInvStep == ASSUME TimeoutInv, [Next]_vars PROVE TimeoutInv'
<1>1. CASE Accepted
  <2>1. validate(cfg, given = "none") /\ cfg' = withDefaults(cfg)
    BY <1>1 DEF Accepted, Accepts
  <2> QED BY <2>1, Defaulted DEF TimeoutInv
<1>2. CASE Construction /\ ~Accepted
  BY <1>2 DEF TimeoutInv, Construction, Refused, DialFails, Dialled, Identified, LoadFails,
     Connected, ConnectFails, Undone, Construct
<1>3. ASSUME UNCHANGED <<cfg, stage>> PROVE TimeoutInv'
  BY <1>3 DEF TimeoutInv
<1>4. CASE Next /\ ~Construction
  BY <1>3, <1>4 DEF Next, Begin, CtxEnds, Local, Answered, Release, Forward, Consume, StreamStopped,
     UpstreamEnds, ForwarderExits, Exits, Stream, CloseOnce, CloseStep, GatewayRefused, GatewayTaken,
     Lock, Signed, SignFails, GivesUp, TimesOut, StreamOpened, QueryAnswered, Endorsed, Ordered, StatusKnown, PeerFails,
     newVars
<1>5. CASE UNCHANGED vars
  BY <1>3, <1>5 DEF vars, newVars
<1> QED BY <1>2, <1>1, <1>4, <1>5

\* Only New changes what it has made, and only before any call.
LEMMA CallsLeaveNew == ASSUME Next, ~Construction PROVE UNCHANGED newVars
BY DEF Next, Begin, CtxEnds, Local, Answered, Release, Forward, Consume, StreamStopped,
     UpstreamEnds, ForwarderExits, Exits, Stream, CloseOnce, CloseStep, GatewayRefused, GatewayTaken,
     Lock, Signed, SignFails, GivesUp, TimesOut, StreamOpened, QueryAnswered, Endorsed, Ordered, StatusKnown, PeerFails

LEMMA BuildInvStep == ASSUME CallInv, BuildInv, [Next]_vars PROVE BuildInv'
<1> USE DEF BuildInv, Stages, Makes, Resources
<1>1. CASE Construction
  BY <1>1 DEF Construction, Refused, Accepted, DialFails, Dialled, Identified, LoadFails,
     Connected, ConnectFails, Undone, Construct
<1>2. ASSUME stage = "ready", UNCHANGED newVars PROVE BuildInv'
  BY <1>2 DEF newVars
<1>3. ASSUME UNCHANGED <<stage, made, once, call>> PROVE BuildInv'
  BY <1>3
<1>4. ASSUME NEW n \in Calls, \/ Begin(n) \/ CtxEnds(n) \/ Local(n) \/ Answered(n) PROVE stage = "ready"
  <2>1. Begin(n) \/ call[n].pc # "idle"
    BY <1>4 DEF CtxEnds, Local, Answered, CloseOnce, CloseStep, GatewayRefused, GatewayTaken,
       Lock, Signed, SignFails, GivesUp, TimesOut, StreamOpened, QueryAnswered, Endorsed, Ordered, StatusKnown, PeerFails
  <2> QED BY <2>1 DEF Begin
<1>5. ASSUME NEW n \in Calls, \/ Release(n) \/ Forward(n) \/ Consume(n) \/ StreamStopped(n)
                              \/ UpstreamEnds(n) \/ ForwarderExits(n)
      PROVE  UNCHANGED <<stage, made, once, call>>
  BY <1>5 DEF Release, Forward, Consume, StreamStopped, UpstreamEnds, ForwarderExits, Exits, Stream,
     newVars, clientVars
<1>6. CASE UNCHANGED vars
  BY <1>3, <1>6 DEF vars, newVars, clientVars
<1>7. CASE Next /\ ~Construction
  BY <1>2, <1>3, <1>4, <1>5, <1>7, CallsLeaveNew DEF Next
<1> QED BY <1>1, <1>6, <1>7

\* The step of Close that takes a resource away; the flag comes first.
StepOf == [gw |-> 2, conn |-> 3, id |-> 4]

\* Resource r was closed, by Close or by a New that failed.
Gone(r) ==
  /\ r \in made
  /\ \/ stage = "undo" /\ r = "id"
     \/ stage = "failed"
     \/ once > StepOf[r]

OnceInv ==
  /\ once \in 0..5 /\ closed = (once > 1)
  /\ \A n \in Calls : call[n].pc = "closing" => once \in 1..4
  /\ \A m, n \in Calls : call[m].pc = "closing" /\ call[n].pc = "closing" => m = n
  /\ \A n \in Calls : Done(n, {"close"}) => once = 5

ShutInv == shut = [r \in Resources |-> Count(Gone(r))]

LEMMA CloseOrderIs ==
  /\ Len(CloseOrder) = 4 /\ CloseOrder[1] = "flag" /\ CloseOrder[2] = "gw"
  /\ CloseOrder[3] = "conn" /\ CloseOrder[4] = "id"
BY DEF CloseOrder

\* A step of Close by call n.
LEMMA CloseStepIs ==
  ASSUME OnceInv, NEW n \in Calls, CloseStep(n)
  PROVE  /\ once \in 1..4 /\ once' = once + 1 /\ closed' = (once' > 1)
         /\ once = 4 => To(n, "done")
         /\ once # 4 => UNCHANGED call
         /\ \A r \in Resources : r \in {CloseOrder[once]} <=> StepOf[r] = once
<1>1. once \in 1..4
  BY DEF CloseStep, OnceInv
<1>2. closed' = (once' > 1) /\ once' = once + 1
  <2>1. once' = once + 1 /\ closed' = (closed \/ CloseOrder[once] = "flag") /\ closed = (once > 1)
    BY DEF CloseStep, OnceInv
  <2>2. closed' = TRUE
    <3>1. CASE once = 1
      BY <2>1, <3>1, CloseOrderIs
    <3>2. CASE once > 1
      BY <2>1, <3>2
    <3>3. once = 1 \/ once > 1
      BY <1>1
    <3> QED BY <3>1, <3>2, <3>3, Zenon
  <2>3. (once' > 1) = TRUE
    BY <1>1, <2>1
  <2> QED BY <2>1, <2>2, <2>3
<1>3. (once = 4 => To(n, "done")) /\ (once # 4 => UNCHANGED call)
  BY <1>1, CloseOrderIs DEF CloseStep
<1>4. \A r \in Resources : r \in {CloseOrder[once]} <=> StepOf[r] = once
  BY <1>1, CloseOrderIs DEF Resources, StepOf
<1> QED BY <1>1, <1>2, <1>3, <1>4

LEMMA OnceInvStep == ASSUME CallInv, OnceInv, [Next]_vars PROVE OnceInv'
<1>same. ASSUME UNCHANGED <<call, once, closed>> PROVE OnceInv'
  BY <1>same DEF OnceInv, Done
\* Calls that are neither Close nor changed by one.
<1>other. ASSUME UNCHANGED <<once, closed>>, NEW n \in Calls, OthersKept(n),
                 call'[n].pc # "closing", call'[n].pc = "done" => call'[n].op # "close"
          PROVE  OnceInv'
  BY <1>other DEF OnceInv, Done, OthersKept
<1>1. CASE Construction \/ UNCHANGED vars
  BY <1>same, <1>1 DEF Construction, Refused, Accepted, DialFails, Dialled, Identified, LoadFails,
     Connected, ConnectFails, Undone, Construct, vars, clientVars
<1>2. ASSUME NEW n \in Calls, \/ Release(n) \/ Forward(n) \/ Consume(n) \/ StreamStopped(n)
                              \/ UpstreamEnds(n) \/ ForwarderExits(n)
      PROVE  OnceInv'
  BY <1>2, <1>same DEF Release, Forward, Consume, StreamStopped, UpstreamEnds, ForwarderExits, Exits,
     Stream, clientVars
<1>3. ASSUME NEW n \in Calls, CloseOnce(n) PROVE OnceInv'
  <2>1. CASE once = 0 /\ once' = 1 /\ To(n, "closing")
    <3>1. MovesTo(n, "closing") /\ closed' = closed
      BY <1>3, <2>1, MoveEffect DEF CloseOnce
    <3> QED BY <2>1, <3>1 DEF OnceInv, Done, MovesTo, OthersKept
  <2>2. CASE once > 4 /\ UNCHANGED once /\ To(n, "done")
    <3>1. MovesTo(n, "done") /\ closed' = closed
      BY <1>3, <2>2, MoveEffect DEF CloseOnce
    <3> QED BY <2>2, <3>1 DEF OnceInv, Done, MovesTo, OthersKept
  <2> QED BY <1>3, <2>1, <2>2, CloseOrderIs DEF CloseOnce
<1>4. ASSUME NEW n \in Calls, CloseStep(n) PROVE OnceInv'
  <2>1. call[n].pc = "closing" /\ once \in 1..4 /\ once' = once + 1 /\ closed' = (once' > 1)
    BY <1>4, CloseStepIs DEF CloseStep
  <2>2. CASE once = 4
    <3>1. MovesTo(n, "done")
      BY <1>4, <2>2, CloseStepIs, MoveEffect
    <3> QED BY <2>1, <2>2, <3>1 DEF OnceInv, Done, MovesTo, OthersKept
  <2>3. CASE once # 4
    <3>1. UNCHANGED call
      BY <1>4, <2>3, CloseStepIs
    <3> QED BY <2>1, <2>3, <3>1 DEF OnceInv, Done
  <2> QED BY <2>2, <2>3
<1>5. ASSUME NEW n \in Calls, Begin(n) PROVE OnceInv'
  BY <1>5, <1>other, BeginEffect DEF Begin, clientVars
<1>6. ASSUME NEW n \in Calls, Notes(n) \/ GatewayTaken(n) \/ Lock(n) \/ Endorsed(n) PROVE OnceInv'
  <2>1. \E pc \in {"rpc", "lock"} : MovesTo(n, pc)
    BY <1>6, NoteEffect, MoveEffect, EndorsedEffect DEF Notes, CtxEnds, Signed, GatewayTaken, Lock
  <2> QED BY <1>6, <1>other, <2>1 DEF Notes, CtxEnds, Signed, GatewayTaken, Lock, Endorsed, MovesTo, clientVars
<1>7. ASSUME NEW n \in Calls, \/ GatewayRefused(n) \/ Fails(n) \/ StreamOpened(n) \/ QueryAnswered(n)
                              \/ StatusKnown(n)
      PROVE  OnceInv'
  <2>1. call[n].pc \in {"gateway", "rpc"} /\ UNCHANGED <<once, closed>>
    BY <1>7 DEF GatewayRefused, Fails, SignFails, GivesUp, TimesOut, PeerFails, StreamOpened, QueryAnswered,
       StatusKnown, clientVars
  <2>2. call[n].op # "close"
    BY <2>1 DEF CallInv, Shape, Running, Waiting, Queries, Submissions
  <2>3. \E err : ReturnsAs(n, err)
    BY <1>7, RefusedEffect, FailEffect, ReturnEffect DEF StreamOpened, QueryAnswered, StatusKnown
  <2> QED BY <1>other, <2>1, <2>2, <2>3 DEF ReturnsAs
<1>8. ASSUME NEW n \in Calls, Ordered(n) PROVE OnceInv'
  BY <1>8, <1>other, OrderedEffect DEF Ordered, clientVars, ReturnsAs
<1> QED
  BY <1>1, <1>2, <1>3, <1>4, <1>5, <1>6, <1>7, <1>8 DEF Next, Local, Answered, Fails, Notes

LEMMA ShutInvStep == ASSUME CallInv, BuildInv, OnceInv, ShutInv, [Next]_vars PROVE ShutInv'
<1> USE DEF ShutInv
<1>same. ASSUME UNCHANGED <<shut, stage, made, once>> PROVE ShutInv'
  BY <1>same DEF Gone, Count
<1>none. stage \in {"start", "dial", "identity", "connect"} => shut = [r \in Resources |-> 0]
  <2> SUFFICES ASSUME stage \in {"start", "dial", "identity", "connect"}, NEW r \in Resources
               PROVE  ~Gone(r)
    BY DEF Count
  <2> QED BY DEF BuildInv, Gone, Resources, StepOf
<1>1. CASE Refused \/ Accepted \/ DialFails \/ Dialled \/ Identified \/ Connected
  <2>1. /\ stage \in {"start", "dial", "identity", "connect"} /\ shut' = shut /\ once' = 0 /\ once = 0
        /\ stage' # "undo" /\ (stage' = "failed" => made' = {})
    BY <1>1 DEF Refused, Accepted, DialFails, Dialled, Identified, Connected, Construct, BuildInv, Makes
  <2>2. \A r \in Resources : ~Gone(r)'
    BY <2>1 DEF Gone, Resources, StepOf
  <2> QED BY <1>none, <2>1, <2>2 DEF Count
<1>2. CASE LoadFails
  <2>1. stage = "identity" /\ shut' = shut /\ once' = 0 /\ stage' = "undo" /\ made' = made /\ "id" \notin made
    BY <1>2 DEF LoadFails, Construct, BuildInv, Makes
  <2>2. \A r \in Resources : ~Gone(r)'
    BY <2>1 DEF Gone, Resources, StepOf
  <2> QED BY <1>none, <2>1, <2>2 DEF Count
<1>3. CASE ConnectFails
  <2>1. stage = "connect" /\ once' = 0 /\ stage' = "undo" /\ made' = made /\ Shut({"id"})
    BY <1>3 DEF ConnectFails, Construct, BuildInv
  <2>2. \A r \in Resources : Gone(r)' <=> r \in {"id"} \cap made
    BY <2>1 DEF Gone, Resources, StepOf
  <2> QED BY <1>none, <2>1, <2>2 DEF Count, Shut
<1>4. CASE Undone
  <2>1. /\ stage = "undo" /\ once = 0 /\ once' = 0 /\ stage' = "failed" /\ made' = made /\ Shut({"conn"})
        /\ "gw" \notin made
    BY <1>4 DEF Undone, Construct, BuildInv, Makes
  <2>2. \A r \in Resources : (Gone(r) <=> r = "id" /\ r \in made) /\ (Gone(r)' <=> r \in made)
    BY <2>1 DEF Gone, Resources, StepOf
  <2>3. \A r \in Resources : Count(Gone(r))' = IF r \in {"conn"} \cap made THEN Count(Gone(r)) + 1 ELSE Count(Gone(r))
    BY <2>1, <2>2 DEF Count, Resources
  <2> QED BY <2>1, <2>3 DEF Shut
<1>5. ASSUME NEW n \in Calls, CloseStep(n) PROVE ShutInv'
  <2>1. /\ once \in 1..4 /\ once' = once + 1 /\ Shut({CloseOrder[once]})
        /\ \A r \in Resources : r \in {CloseOrder[once]} <=> StepOf[r] = once
    BY <1>5, CloseStepIs DEF CloseStep
  <2>2. stage = "ready" /\ stage' = stage /\ made' = made
    BY <1>5 DEF CloseStep, BuildInv, newVars
  <2>3. \A r \in Resources : StepOf[r] \in 2..4
    BY DEF Resources, StepOf
  <2>4. \A r \in Resources : Count(Gone(r))' = IF r \in {CloseOrder[once]} \cap made
                                               THEN Count(Gone(r)) + 1 ELSE Count(Gone(r))
    BY <2>1, <2>2, <2>3 DEF Count, Gone
  <2> QED BY <2>1, <2>4 DEF Shut
<1>6. ASSUME NEW n \in Calls, CloseOnce(n) PROVE ShutInv'
  <2>1. stage' = stage /\ made' = made /\ shut' = shut /\ (once' = once \/ (once = 0 /\ once' = 1))
    BY <1>6 DEF CloseOnce, newVars
  <2>2. \A r \in Resources : StepOf[r] \in 2..4
    BY DEF Resources, StepOf
  <2>3. \A r \in Resources : Count(Gone(r))' = Count(Gone(r))
    BY <2>1, <2>2 DEF Count, Gone, OnceInv
  <2> QED BY <2>1, <2>3
<1>7. ASSUME NEW n \in Calls, \/ Begin(n) \/ Notes(n) \/ GatewayRefused(n) \/ GatewayTaken(n) \/ Lock(n)
                              \/ Fails(n) \/ StreamOpened(n) \/ Answered(n)
      PROVE  ShutInv'
  BY <1>7, <1>same DEF Begin, Notes, CtxEnds, Signed, GatewayRefused, GatewayTaken, Lock, Fails, SignFails,
     GivesUp, TimesOut,
     StreamOpened, Answered, QueryAnswered, Endorsed, Ordered, StatusKnown, PeerFails, newVars, clientVars
<1>8. ASSUME NEW n \in Calls, \/ Release(n) \/ Forward(n) \/ Consume(n) \/ StreamStopped(n)
                              \/ UpstreamEnds(n) \/ ForwarderExits(n)
      PROVE  ShutInv'
  BY <1>8, <1>same DEF Release, Forward, Consume, StreamStopped, UpstreamEnds, ForwarderExits, Exits,
     Stream, newVars, clientVars
<1>9. CASE UNCHANGED vars
  BY <1>9, <1>same DEF vars, newVars, clientVars
<1> QED
  BY <1>1, <1>2, <1>3, <1>4, <1>5, <1>6, <1>7, <1>8, <1>9
  DEF Next, Construction, Local, Fails, Notes

-----------------------------------------------------------------------------
(***************************************************************************)
(* What calls return. A call that began after Close had begun to take      *)
(* things away gets no gateway; one that waited for a transaction tells    *)
(* what became of it.                                                      *)
(***************************************************************************)

\* A status that was learned and a gateway that was released stay so.
LEMMA PendMonotone ==
  ASSUME CallInv, PendInv, [Next]_vars, NEW q \in Calls
  PROVE  /\ pend[q].code # "none" => pend'[q].code = pend[q].code
         /\ pend[q].released => pend'[q].released
<1> DEFINE Goal == /\ pend[q].code # "none" => pend'[q].code = pend[q].code
                   /\ pend[q].released => pend'[q].released
<1>1. ASSUME UNCHANGED pend PROVE Goal
  BY <1>1
<1>2. ASSUME NEW n \in Calls, Ordered(n) PROVE Goal
  BY <1>2 DEF Ordered, PendInv, PendRecs
<1>3. ASSUME NEW n \in Calls, Lock(n) PROVE Goal
  BY <1>3 DEF Lock, PendInv, PendRecs
<1>4. ASSUME NEW n \in Calls, Fails(n) PROVE Goal
  <2>1. PICK code : CallFails(n, code)
    BY <1>4, FailEffect
  <2>2. pend[q] \in PendRecs /\ (pend'[q] = pend[q] \/ pend'[q] = [pend[q] EXCEPT !.lock = 0])
    BY <2>1 DEF CallFails, PendInv
  <2> QED BY <2>2 DEF PendRecs
<1>5. ASSUME NEW n \in Calls, StatusKnown(n) PROVE Goal
  BY <1>5 DEF StatusKnown, PendInv, PendRecs
<1>6. ASSUME NEW n \in Calls, Release(n) PROVE Goal
  BY <1>6 DEF Release, PendInv, PendRecs
<1>7. ASSUME NEW n \in Calls,
             \/ Begin(n) \/ Notes(n) \/ CloseOnce(n) \/ CloseStep(n) \/ GatewayRefused(n) \/ GatewayTaken(n)
             \/ StreamOpened(n) \/ QueryAnswered(n) \/ Endorsed(n) \/ Forward(n) \/ Consume(n)
             \/ StreamStopped(n) \/ UpstreamEnds(n) \/ ForwarderExits(n)
      PROVE  UNCHANGED pend
  BY <1>7 DEF Begin, Notes, CtxEnds, Signed, CloseOnce, CloseStep, GatewayRefused, GatewayTaken, StreamOpened,
     QueryAnswered, Endorsed, Forward, Consume, StreamStopped, UpstreamEnds, ForwarderExits, Exits, Stream
<1>8. ASSUME Construction \/ UNCHANGED vars PROVE Goal
  BY <1>1, <1>8 DEF Construction, Refused, Accepted, DialFails, Dialled, Identified, LoadFails,
     Connected, ConnectFails, Undone, Construct, vars
<1> HIDE DEF Goal
<1>9. ASSUME NEW n \in Calls, \/ Begin(n) \/ CtxEnds(n) \/ Local(n) \/ Answered(n) \/ Release(n)
                              \/ Forward(n) \/ Consume(n) \/ StreamStopped(n) \/ UpstreamEnds(n)
                              \/ ForwarderExits(n)
      PROVE  Goal
  <2>1. CASE Ordered(n) \/ Lock(n) \/ Fails(n) \/ StatusKnown(n) \/ Release(n)
    BY <2>1, <1>2, <1>3, <1>4, <1>5, <1>6
  <2>2. CASE ~(Ordered(n) \/ Lock(n) \/ Fails(n) \/ StatusKnown(n) \/ Release(n))
    BY <2>2, <1>1, <1>7, <1>9 DEF Local, Answered, Fails, Notes
  <2> QED BY <2>1, <2>2
<1>10. Goal
  BY <1>8, <1>9 DEF Next
<1> QED BY <1>10 DEF Goal

\* A call that has just returned, with the PendingTx it waited for.
LEMMA JustReturned ==
  ASSUME CallInv, PendInv, [Next]_vars, NEW n \in Calls, call[n].pc # "done",
         call'[n].pc = "done", call'[n].p # 0
  PROVE  \/ call'[n].err = "outcome_unknown"
         \/ /\ pend'[call'[n].p].released
            /\ \/ call'[n].err = "nil" /\ pend'[call'[n].p].code = "VALID"
               \/ call'[n].err = "conflict" /\ pend'[call'[n].p].code = "MVCC_READ_CONFLICT"
<1> DEFINE Goal == \/ call'[n].err = "outcome_unknown"
                   \/ /\ pend'[call'[n].p].released
                      /\ \/ call'[n].err = "nil" /\ pend'[call'[n].p].code = "VALID"
                         \/ call'[n].err = "conflict" /\ pend'[call'[n].p].code = "MVCC_READ_CONFLICT"
<1>1. CASE Fails(n)
  <2>1. PICK code : ReturnsAs(n, FailKind(n, code, call[n].ph))
    BY <1>1, FailEffect
  <2>2. call[n].pc = "rpc" /\ call[n].p # 0
    BY <1>1, <2>1, FailEffect DEF ReturnsAs
  <2>3. call[n].ph = "commitStatus"
    BY <2>2 DEF CallInv, Shape, Running, Waiting
  <2>4. call'[n].err = "outcome_unknown"
    BY <2>1, <2>3, FailureKind DEF ReturnsAs, Phases
  <2> QED BY <2>4
<1>2. CASE StatusKnown(n)
  <2> DEFINE p == call[n].p
  <2>1. PICK vc \in {"VALID", "MVCC_READ_CONFLICT"} :
          /\ pend' = [pend EXCEPT ![p].code = vc, ![p].lock = 0, ![p].released = TRUE]
          /\ Return(n, IF vc = "VALID" THEN "nil" ELSE commitFailure(p, vc).Kind)
    BY <1>2 DEF StatusKnown
  <2>2. ReturnsAs(n, IF vc = "VALID" THEN "nil" ELSE commitFailure(p, vc).Kind)
    BY <2>1, ReturnEffect
  <2>3. commitFailure(p, "MVCC_READ_CONFLICT").Kind = "conflict"
    BY DEF commitFailure, newError, ConflictCodes
  <2>4. call'[n].p = p /\ p \in Calls /\ call'[n].err = (IF vc = "VALID" THEN "nil" ELSE "conflict")
    BY <2>2, <2>3, PInCalls DEF ReturnsAs
  <2>5. pend'[p].released /\ pend'[p].code = vc
    BY <2>1, <2>4 DEF PendInv, PendRecs
  <2> HIDE DEF p
  <2> QED BY <2>4, <2>5
<1>3. ASSUME \/ CloseOnce(n) \/ CloseStep(n) \/ GatewayRefused(n) \/ StreamOpened(n) \/ QueryAnswered(n)
             \/ Ordered(n)
      PROVE  FALSE
  <2>1. call[n].p = 0
    BY <1>3 DEF CloseOnce, CloseStep, GatewayRefused, StreamOpened, QueryAnswered, Ordered, CallInv,
       Shape, Running, Waiting, Queries
  <2>2. CASE CloseOnce(n) \/ CloseStep(n)
    BY <2>1, <2>2, MoveEffect DEF CloseOnce, CloseStep, MovesTo
  <2>3. CASE GatewayRefused(n)
    BY <2>1, <2>3, RefusedEffect DEF ReturnsAs
  <2>4. CASE StreamOpened(n) \/ QueryAnswered(n)
    BY <2>1, <2>4, ReturnEffect DEF StreamOpened, QueryAnswered, ReturnsAs
  <2>5. CASE Ordered(n)
    BY <2>1, <2>5, OrderedEffect DEF ReturnsAs
  <2> QED BY <1>3, <2>2, <2>3, <2>4, <2>5
<1>4. ASSUME Begin(n) \/ Notes(n) \/ GatewayTaken(n) \/ Lock(n) \/ Endorsed(n) PROVE FALSE
  <2>1. CASE Begin(n)
    BY <2>1, BeginEffect
  <2>2. CASE Notes(n)
    BY <2>2, NoteEffect DEF MovesTo
  <2>3. CASE GatewayTaken(n) \/ Lock(n)
    BY <2>3, MoveEffect DEF GatewayTaken, Lock, MovesTo
  <2>4. CASE Endorsed(n)
    BY <2>4, EndorsedEffect DEF MovesTo
  <2> QED BY <1>4, <2>1, <2>2, <2>3, <2>4
<1>5. ASSUME NEW m \in Calls, m # n, Begin(m) \/ CtxEnds(m) \/ Local(m) \/ Answered(m) PROVE FALSE
  BY <1>5, OneCallChanges DEF OthersKept
<1>6. ASSUME UNCHANGED call PROVE FALSE
  BY <1>6
<1> HIDE DEF Goal
<1>7. Goal
  <2>1. CASE \E m \in Calls : Begin(m) \/ CtxEnds(m) \/ Local(m) \/ Answered(m)
    <3>1. Begin(n) \/ CtxEnds(n) \/ Local(n) \/ Answered(n)
      BY <2>1, <1>5
    <3> QED BY <3>1, <1>1, <1>2, <1>3, <1>4 DEF Local, Answered, Fails, Notes, Goal
  <2> QED BY <2>1, <1>6, CallsKept DEF Next
<1> QED BY <1>7 DEF Goal

\* Whoever waited for a transaction and learned its status has released its gateway.
ReleasedInv ==
  \A n \in Calls : call[n].pc = "done" /\ call[n].p # 0 /\ call[n].err # "outcome_unknown" =>
                     pend[call[n].p].released

LEMMA OutcomeStep ==
  ASSUME CallInv, PendInv, AcceptedNotDenied, ReleasedInv, [Next]_vars
  PROVE  AcceptedNotDenied' /\ ReleasedInv'
<1> SUFFICES ASSUME NEW n \in Calls, call'[n].pc = "done", call'[n].p # 0
             PROVE  /\ call'[n].op \in {"submit", "wait"} =>
                         \/ call'[n].err = "outcome_unknown"
                         \/ call'[n].err = "nil" /\ pend'[call'[n].p].code = "VALID"
                         \/ call'[n].err = "conflict" /\ pend'[call'[n].p].code = "MVCC_READ_CONFLICT"
                    /\ call'[n].err # "outcome_unknown" => pend'[call'[n].p].released
  BY DEF AcceptedNotDenied, ReleasedInv, Done
<1>1. CASE call[n].pc = "done"
  <2>1. call'[n] = call[n] /\ call[n].p \in Calls
    BY <1>1, DoneStays, PInCalls
  <2> QED BY <1>1, <2>1, PendMonotone DEF AcceptedNotDenied, ReleasedInv, Done
<1>2. CASE call[n].pc # "done"
  BY <1>2, JustReturned
<1> QED BY <1>1, <1>2

\* A call that began when something had been closed gets no gateway.
AfterInv ==
  \A n \in Calls : call[n].after =>
    /\ closed
    /\ call[n].op # "wait" => /\ call[n].pc \notin {"rpc", "lock"}
                              /\ call[n].pc = "done" /\ call[n].op # "close" => call[n].err = "config"

LEMMA ShutClosed ==
  ASSUME OnceInv, ShutInv, stage = "ready", \E r \in Resources : shut[r] > 0 PROVE closed
<1>1. PICK r \in Resources : shut[r] > 0
  OBVIOUS
<1>2. Gone(r) /\ StepOf[r] \in 2..4
  BY <1>1 DEF ShutInv, Count, Resources, StepOf
<1>3. once > 1
  BY <1>2 DEF Gone, OnceInv
<1> QED BY <1>3 DEF OnceInv

LEMMA ClosedStays == ASSUME OnceInv, [Next]_vars, closed PROVE closed'
<1>1. ASSUME UNCHANGED closed PROVE closed'
  BY <1>1
<1>2. ASSUME NEW n \in Calls, CloseStep(n) PROVE closed'
  BY <1>2 DEF CloseStep
<1>3. CASE Construction \/ UNCHANGED vars
  BY <1>1, <1>3 DEF Construction, Refused, Accepted, DialFails, Dialled, Identified, LoadFails,
     Connected, ConnectFails, Undone, Construct, vars, clientVars
<1>4. ASSUME NEW n \in Calls, \/ Begin(n) \/ CtxEnds(n) \/ (Local(n) /\ ~CloseStep(n)) \/ Answered(n) \/ Release(n)
                              \/ Forward(n) \/ Consume(n) \/ StreamStopped(n) \/ UpstreamEnds(n) \/ ForwarderExits(n)
      PROVE  UNCHANGED closed
  BY <1>4 DEF Begin, CtxEnds, Local, Answered, Release, Forward, Consume, StreamStopped,
     UpstreamEnds, ForwarderExits, Exits, Stream, CloseOnce, GatewayRefused, GatewayTaken,
     Lock, Signed, SignFails, GivesUp, TimesOut, StreamOpened, QueryAnswered, Endorsed, Ordered, StatusKnown, PeerFails,
     clientVars
<1> QED BY <1>1, <1>2, <1>3, <1>4 DEF Next

LEMMA AfterInvStep ==
  ASSUME CallInv, OnceInv, ShutInv, AfterInv, [Next]_vars PROVE AfterInv'
<1> SUFFICES ASSUME NEW m \in Calls, call'[m].after
             PROVE  /\ closed'
                    /\ call'[m].op # "wait" =>
                         /\ call'[m].pc \notin {"rpc", "lock"}
                         /\ call'[m].pc = "done" /\ call'[m].op # "close" => call'[m].err = "config"
  BY DEF AfterInv
<1> DEFINE Goal == /\ closed'
                   /\ call'[m].op # "wait" =>
                         /\ call'[m].pc \notin {"rpc", "lock"}
                         /\ call'[m].pc = "done" /\ call'[m].op # "close" => call'[m].err = "config"
<1>1. ASSUME call'[m] = call[m] PROVE Goal
  BY <1>1, ClosedStays DEF AfterInv
<1>2. CASE Begin(m)
  <2>1. closed
    BY <1>2, BeginEffect, ShutClosed
  <2> QED BY <1>2, <2>1, BeginEffect, ClosedStays
<1>3. CASE Notes(m)
  <2>1. MovesTo(m, call[m].pc) /\ call[m].pc # "done"
    BY <1>3, NoteEffect DEF Notes, CtxEnds, Signed
  <2> QED BY <2>1, ClosedStays DEF AfterInv, MovesTo
<1>4. CASE CloseOnce(m) \/ CloseStep(m)
  <2>1. call[m].op = "close"
    BY <1>4 DEF CloseOnce, CloseStep, CallInv, Shape
  <2>2. call'[m] = call[m] \/ (\E pc \in {"closing", "done"} : MovesTo(m, pc))
    BY <1>4, MoveEffect DEF CloseOnce, CloseStep
  <2> QED BY <1>1, <2>1, <2>2, ClosedStays DEF AfterInv, MovesTo
<1>5. CASE GatewayRefused(m)
  BY <1>5, RefusedEffect, ClosedStays DEF AfterInv, ReturnsAs
<1>6. CASE GatewayTaken(m)
  <2>1. ~closed /\ MovesTo(m, "rpc")
    BY <1>6, MoveEffect DEF GatewayTaken
  <2> QED BY <2>1 DEF AfterInv, MovesTo
\* Nothing else happens to a call that began then, unless it is a Wait.
<1>7. ASSUME \/ Lock(m) \/ Endorsed(m) \/ Ordered(m) \/ Fails(m) \/ StreamOpened(m) \/ QueryAnswered(m)
             \/ StatusKnown(m)
      PROVE  Goal
  <2>1. call[m].pc \in {"rpc", "lock"}
    BY <1>7 DEF Lock, Endorsed, Ordered, Fails, SignFails, GivesUp, TimesOut, PeerFails, StreamOpened,
       QueryAnswered, StatusKnown
  <2>2. call'[m].after = call[m].after /\ call'[m].op = call[m].op
    <3>1. CASE Lock(m) \/ Endorsed(m)
      BY <3>1, MoveEffect, EndorsedEffect DEF Lock, MovesTo
    <3>2. CASE Ordered(m)
      BY <3>2, OrderedEffect DEF ReturnsAs
    <3>3. CASE Fails(m)
      BY <3>3, FailEffect DEF ReturnsAs
    <3>4. CASE StreamOpened(m) \/ QueryAnswered(m) \/ StatusKnown(m)
      BY <3>4, ReturnEffect DEF StreamOpened, QueryAnswered, StatusKnown, ReturnsAs
    <3> QED BY <1>7, <3>1, <3>2, <3>3, <3>4
  <2> QED BY <2>1, <2>2, ClosedStays DEF AfterInv
<1>8. ASSUME NEW n \in Calls, n # m, Begin(n) \/ CtxEnds(n) \/ Local(n) \/ Answered(n) PROVE Goal
  BY <1>1, <1>8, OneCallChanges DEF OthersKept
<1> HIDE DEF Goal
<1>9. Goal
  <2>1. CASE \E n \in Calls : Begin(n) \/ CtxEnds(n) \/ Local(n) \/ Answered(n)
    <3>1. CASE Begin(m) \/ CtxEnds(m) \/ Local(m) \/ Answered(m)
      BY <3>1, <1>2, <1>3, <1>4, <1>5, <1>6, <1>7 DEF Local, Answered, Fails, Notes, Goal
    <3> QED BY <2>1, <3>1, <1>8
  <2> QED BY <2>1, <1>1, CallsKept DEF Next
<1> QED BY <1>9 DEF Goal

-----------------------------------------------------------------------------
(***************************************************************************)
(* The gateways of other identities. Each step moves at most one of them   *)
(* between a call, a PendingTx and the forwarder of a stream, or opens or  *)
(* closes it.                                                              *)
(***************************************************************************)
CallHolds(n) == call[n].pc = "rpc" /\ call[n].other /\ call[n].ph # "commitStatus"
PendHolds(p) == pend[p].other /\ ~pend[p].released
StrmHolds(n) == strm[n].other /\ strm[n].fwd \in {"recv", "send"}

LEMMA CountIs == ASSUME NEW b PROVE Count(b) \in {0, 1} /\ (b => Count(b) = 1) /\ (~b => Count(b) = 0)
BY DEF Count

\* Two sets of calls that agree but on n.
LEMMA AgreeBut ==
  ASSUME NEW n \in Calls, NEW S \in SUBSET Calls, NEW T \in SUBSET Calls, S \ {n} = T \ {n}
  PROVE  /\ Cardinality(S) \in Nat /\ Cardinality(T) \in Nat
         /\ Cardinality(T) - Count(n \in T) = Cardinality(S) - Count(n \in S)
<1>1. IsFiniteSet(Calls)
  BY ClientAssumption, FS_Interval DEF Calls
<1>2. ASSUME NEW R \in SUBSET Calls
      PROVE  /\ IsFiniteSet(R) /\ Cardinality(R) \in Nat
             /\ Cardinality(R \ {n}) = Cardinality(R) - Count(n \in R)
  <2>1. IsFiniteSet(R)
    BY <1>1, FS_Subset
  <2>2. Cardinality(R) \in Nat
    BY <2>1, FS_CardinalityType
  <2>3. Cardinality(R \ {n}) = IF n \in R THEN Cardinality(R) - 1 ELSE Cardinality(R)
    BY <2>1, FS_RemoveElement
  <2> QED BY <2>1, <2>2, <2>3 DEF Count
<1>3. /\ Cardinality(S) \in Nat /\ Cardinality(S \ {n}) = Cardinality(S) - Count(n \in S)
      /\ Cardinality(T) \in Nat /\ Cardinality(T \ {n}) = Cardinality(T) - Count(n \in T)
  BY <1>2
<1>4. Cardinality(S \ {n}) = Cardinality(T \ {n})
  OBVIOUS
<1> QED BY <1>3, <1>4

\* What a step that changes call n, stream n and PendingTx p does to the count.
LEMMA Accounted ==
  ASSUME GatewayAccounting, NEW n \in Calls, NEW p \in Calls,
         \A m \in Calls \ {n} : (CallHolds(m)' <=> CallHolds(m)) /\ (StrmHolds(m)' <=> StrmHolds(m)),
         \A q \in Calls \ {p} : PendHolds(q)' <=> PendHolds(q),
         open' = open - Count(CallHolds(n)) - Count(PendHolds(p)) - Count(StrmHolds(n))
                      + Count(CallHolds(n)') + Count(PendHolds(p)') + Count(StrmHolds(n)')
  PROVE  GatewayAccounting'
<1> DEFINE C  == {m \in Calls : CallHolds(m)}
           P  == {q \in Calls : PendHolds(q)}
           S  == {m \in Calls : StrmHolds(m)}
           C1 == {m \in Calls : CallHolds(m)'}
           P1 == {q \in Calls : PendHolds(q)'}
           S1 == {m \in Calls : StrmHolds(m)'}
<1>1. open = Cardinality(C) + Cardinality(P) + Cardinality(S)
  BY DEF GatewayAccounting, CallHolds, PendHolds, StrmHolds
<1>2. GatewayAccounting' <=> open' = Cardinality(C1) + Cardinality(P1) + Cardinality(S1)
  BY DEF GatewayAccounting, CallHolds, PendHolds, StrmHolds
<1>3. /\ (CallHolds(n) <=> n \in C) /\ (CallHolds(n)' <=> n \in C1)
      /\ (PendHolds(p) <=> p \in P) /\ (PendHolds(p)' <=> p \in P1)
      /\ (StrmHolds(n) <=> n \in S) /\ (StrmHolds(n)' <=> n \in S1)
  OBVIOUS
<1>4. C \ {n} = C1 \ {n} /\ P \ {p} = P1 \ {p} /\ S \ {n} = S1 \ {n}
  OBVIOUS
<1>5. /\ C \in SUBSET Calls /\ P \in SUBSET Calls /\ S \in SUBSET Calls
      /\ C1 \in SUBSET Calls /\ P1 \in SUBSET Calls /\ S1 \in SUBSET Calls
  OBVIOUS
<1> HIDE DEF C, P, S, C1, P1, S1
<1>6. /\ Cardinality(C) \in Nat /\ Cardinality(C1) \in Nat
      /\ Cardinality(C1) - Count(n \in C1) = Cardinality(C) - Count(n \in C)
  BY <1>4, <1>5, AgreeBut
<1>7. /\ Cardinality(P) \in Nat /\ Cardinality(P1) \in Nat
      /\ Cardinality(P1) - Count(p \in P1) = Cardinality(P) - Count(p \in P)
  BY <1>4, <1>5, AgreeBut
<1>8. /\ Cardinality(S) \in Nat /\ Cardinality(S1) \in Nat
      /\ Cardinality(S1) - Count(n \in S1) = Cardinality(S) - Count(n \in S)
  BY <1>4, <1>5, AgreeBut
<1>9. /\ Count(CallHolds(n)) = Count(n \in C) /\ Count(CallHolds(n)') = Count(n \in C1)
      /\ Count(PendHolds(p)) = Count(p \in P) /\ Count(PendHolds(p)') = Count(p \in P1)
      /\ Count(StrmHolds(n)) = Count(n \in S) /\ Count(StrmHolds(n)') = Count(n \in S1)
  BY <1>3 DEF Count
<1>10. /\ Count(n \in C) \in Int /\ Count(n \in C1) \in Int /\ Count(p \in P) \in Int
       /\ Count(p \in P1) \in Int /\ Count(n \in S) \in Int /\ Count(n \in S1) \in Int
  BY CountIs
<1> QED BY <1>1, <1>2, <1>6, <1>7, <1>8, <1>9, <1>10

LEMMA OpenIsNat == ASSUME GatewayAccounting PROVE open \in Nat
<1>1. IsFiniteSet(Calls)
  BY ClientAssumption, FS_Interval DEF Calls
<1>2. \A S \in SUBSET Calls : Cardinality(S) \in Nat
  BY <1>1, FS_Subset, FS_CardinalityType
<1> DEFINE C == {n \in Calls : CallHolds(n)}
           P == {p \in Calls : PendHolds(p)}
           S == {n \in Calls : StrmHolds(n)}
<1>3. open = Cardinality(C) + Cardinality(P) + Cardinality(S)
  BY DEF GatewayAccounting, CallHolds, PendHolds, StrmHolds
<1>4. C \in SUBSET Calls /\ P \in SUBSET Calls /\ S \in SUBSET Calls
  OBVIOUS
<1> HIDE DEF C, P, S
<1> QED BY <1>2, <1>3, <1>4

LEMMA AccountingStep ==
  ASSUME CallInv, PendInv, StrmInv, GatewayAccounting, [Next]_vars PROVE GatewayAccounting'
<1>same. ASSUME UNCHANGED <<call, pend, strm, open>> PROVE GatewayAccounting'
  BY <1>same DEF GatewayAccounting
<1>nat. open \in Nat
  BY OpenIsNat
\* A call that changes and holds no gateway before or after.
<1>idle. ASSUME NEW n \in Calls, OthersKept(n), UNCHANGED <<pend, strm, open>>, CallHolds(n)' <=> CallHolds(n)
         PROVE  GatewayAccounting'
  <2>1. Count(CallHolds(n)') = Count(CallHolds(n))
    BY <1>idle DEF Count
  <2>2. \A m \in Calls \ {n} : (CallHolds(m)' <=> CallHolds(m)) /\ (StrmHolds(m)' <=> StrmHolds(m))
    BY <1>idle DEF OthersKept, CallHolds, StrmHolds
  <2>3. \A q \in Calls : (PendHolds(q)' <=> PendHolds(q)) /\ Count(PendHolds(q)') = Count(PendHolds(q))
    BY <1>idle DEF PendHolds
  <2>4. Count(StrmHolds(n)') = Count(StrmHolds(n))
    BY <1>idle DEF StrmHolds
  <2>5. Count(CallHolds(n)) \in Int /\ Count(PendHolds(n)) \in Int /\ Count(StrmHolds(n)) \in Int
    BY CountIs
  <2>6. open' = open - Count(CallHolds(n)) - Count(PendHolds(n)) - Count(StrmHolds(n))
                     + Count(CallHolds(n)') + Count(PendHolds(n)') + Count(StrmHolds(n)')
    BY <1>idle, <1>nat, <2>1, <2>3, <2>4, <2>5
  <2> QED BY <2>2, <2>3, <2>6, Accounted
<1>1. CASE Construction \/ UNCHANGED vars
  BY <1>same, <1>1 DEF Construction, Refused, Accepted, DialFails, Dialled, Identified, LoadFails,
     Connected, ConnectFails, Undone, Construct, vars
<1>2. ASSUME NEW n \in Calls, Begin(n) PROVE GatewayAccounting'
  <2>1. NoCall.pc = "idle"
    BY DEF NoCall
  <2> QED BY <1>2, <1>idle, <2>1, BeginEffect DEF Begin, CallHolds
<1>3. ASSUME NEW n \in Calls, Notes(n) PROVE GatewayAccounting'
  <2>1. MovesTo(n, call[n].pc) /\ call'[n].ph = call[n].ph
    BY <1>3, NoteEffect
  <2>2. UNCHANGED <<pend, strm, open>>
    BY <1>3 DEF Notes, CtxEnds, Signed
  <2> QED BY <1>idle, <2>1, <2>2 DEF CallHolds, MovesTo
<1>4. ASSUME NEW n \in Calls, CloseOnce(n) \/ CloseStep(n) PROVE GatewayAccounting'
  <2>1. call[n].pc # "rpc" /\ UNCHANGED <<pend, strm, open>>
    BY <1>4 DEF CloseOnce, CloseStep
  <2>2. OthersKept(n) /\ call'[n].pc # "rpc"
    BY <1>4, <2>1, MoveEffect DEF CloseOnce, CloseStep, MovesTo, OthersKept
  <2> QED BY <1>idle, <2>1, <2>2 DEF CallHolds
<1>5. ASSUME NEW n \in Calls, GatewayRefused(n) PROVE GatewayAccounting'
  BY <1>5, <1>idle, RefusedEffect DEF GatewayRefused, CallHolds, ReturnsAs
<1>6. ASSUME NEW n \in Calls, Endorsed(n) PROVE GatewayAccounting'
  <2>1. MovesTo(n, "rpc") /\ call'[n].ph = "submit"
    BY <1>6, EndorsedEffect
  <2>2. UNCHANGED <<pend, strm, open>> /\ call[n].pc = "rpc" /\ call[n].ph = "endorse"
    BY <1>6 DEF Endorsed
  <2> QED BY <1>idle, <2>1, <2>2 DEF CallHolds, MovesTo
\* A call that takes a gateway or gives it back, and leaves PendingTx and streams alone.
<1>call. ASSUME NEW n \in Calls, OthersKept(n), UNCHANGED strm,
                \A q \in Calls : PendHolds(q)' <=> PendHolds(q),
                open' = open - Count(CallHolds(n)) + Count(CallHolds(n)')
         PROVE  GatewayAccounting'
  <2>1. \A m \in Calls \ {n} : (CallHolds(m)' <=> CallHolds(m)) /\ (StrmHolds(m)' <=> StrmHolds(m))
    BY <1>call DEF OthersKept, CallHolds, StrmHolds
  <2>2. Count(PendHolds(n)') = Count(PendHolds(n)) /\ Count(StrmHolds(n)') = Count(StrmHolds(n))
    BY <1>call DEF StrmHolds, Count
  <2>3. /\ Count(CallHolds(n)) \in Int /\ Count(CallHolds(n)') \in Int /\ Count(PendHolds(n)) \in Int
        /\ Count(StrmHolds(n)) \in Int
    BY CountIs
  <2>4. open' = open - Count(CallHolds(n)) - Count(PendHolds(n)) - Count(StrmHolds(n))
                     + Count(CallHolds(n)') + Count(PendHolds(n)') + Count(StrmHolds(n)')
    BY <1>call, <1>nat, <2>2, <2>3
  <2> QED BY <1>call, <2>1, <2>4, Accounted
<1>7. ASSUME NEW n \in Calls, GatewayTaken(n) PROVE GatewayAccounting'
  <2>1. MovesTo(n, "rpc") /\ call'[n].ph = call[n].ph /\ call[n].pc = "gateway"
    BY <1>7, MoveEffect DEF GatewayTaken
  <2>2. call[n].ph # "commitStatus"
    BY <2>1 DEF CallInv, Shape
  <2>3. ~CallHolds(n) /\ (CallHolds(n)' <=> call[n].other)
    BY <2>1, <2>2 DEF CallHolds, MovesTo
  <2>4. open' = open + Count(call[n].other) /\ UNCHANGED <<pend, strm>>
    BY <1>7 DEF GatewayTaken
  <2>5. Count(CallHolds(n)) = 0 /\ Count(CallHolds(n)') = Count(call[n].other)
    BY <2>3 DEF Count
  <2>6. open' = open - Count(CallHolds(n)) + Count(CallHolds(n)')
    BY <1>nat, <2>4, <2>5
  <2> QED BY <1>call, <2>1, <2>4, <2>6 DEF MovesTo, PendHolds
<1>8. ASSUME NEW n \in Calls, QueryAnswered(n) PROVE GatewayAccounting'
  <2>1. call[n].pc = "rpc" /\ (\E err : ReturnsAs(n, err)) /\ open' = open - Count(call[n].other)
        /\ UNCHANGED <<pend, strm>>
    BY <1>8, ReturnEffect DEF QueryAnswered
  <2>2. call[n].ph = "evaluate"
    BY <1>8 DEF QueryAnswered, CallInv, Shape, Running, Waiting, Queries, Submissions
  <2>3. (CallHolds(n) <=> call[n].other) /\ ~CallHolds(n)'
    BY <2>1, <2>2 DEF CallHolds, ReturnsAs
  <2>4. Count(CallHolds(n)) = Count(call[n].other) /\ Count(CallHolds(n)') = 0 /\ Count(call[n].other) \in Int
    BY <2>3 DEF Count
  <2>5. open' = open - Count(CallHolds(n)) + Count(CallHolds(n)')
    BY <1>nat, <2>1, <2>4
  <2> QED BY <1>call, <2>1, <2>5 DEF ReturnsAs, PendHolds
<1>9. ASSUME NEW n \in Calls, Fails(n) PROVE GatewayAccounting'
  <2>1. PICK code : CallFails(n, code) /\ ReturnsAs(n, FailKind(n, code, call[n].ph))
    BY <1>9, FailEffect
  <2>2. call[n].pc = "rpc" /\ UNCHANGED strm
    BY <1>9, FailEffect
  <2>3. (CallHolds(n) <=> call[n].other /\ call[n].ph # "commitStatus") /\ ~CallHolds(n)'
    BY <2>1, <2>2 DEF CallHolds, ReturnsAs
  <2>4. Count(CallHolds(n)) \in Int /\ Count(CallHolds(n)') = 0
    BY <2>3 DEF Count
  <2>5. Count(call[n].other /\ call[n].ph # "commitStatus") = Count(CallHolds(n))
    BY <2>3 DEF Count
  <2>6. open' = open - Count(CallHolds(n)) + Count(CallHolds(n)')
    BY <1>nat, <2>1, <2>4, <2>5 DEF CallFails
  <2>7. ASSUME NEW q \in Calls PROVE PendHolds(q)' <=> PendHolds(q)
    <3>1. pend[q] \in PendRecs /\ (pend'[q] = pend[q] \/ pend'[q] = [pend[q] EXCEPT !.lock = 0])
      BY <2>1 DEF CallFails, PendInv
    <3>2. pend'[q].other = pend[q].other /\ pend'[q].released = pend[q].released
      BY <3>1 DEF PendRecs
    <3> QED BY <3>2 DEF PendHolds
  <2> QED BY <1>call, <2>1, <2>2, <2>6, <2>7 DEF ReturnsAs
<1>10. ASSUME NEW n \in Calls, Lock(n) PROVE GatewayAccounting'
  <2> DEFINE p == call[n].p
  <2>1. MovesTo(n, "rpc") /\ call'[n].ph = call[n].ph /\ call[n].pc = "lock" /\ UNCHANGED <<strm, open>>
    BY <1>10, MoveEffect DEF Lock
  <2>2. call[n].ph = "commitStatus"
    BY <2>1 DEF CallInv, Shape, Waiting
  <2>3. ~CallHolds(n) /\ ~CallHolds(n)'
    BY <2>1, <2>2 DEF CallHolds, MovesTo
  <2>4. Count(CallHolds(n)) = 0 /\ Count(CallHolds(n)') = 0
    BY <2>3 DEF Count
  <2>5. ASSUME NEW q \in Calls PROVE PendHolds(q)' <=> PendHolds(q)
    <3>1. pend[q] \in PendRecs /\ (pend'[q] = pend[q] \/ pend'[q] = [pend[q] EXCEPT !.lock = n])
      BY <1>10 DEF Lock, PendInv
    <3>2. pend'[q].other = pend[q].other /\ pend'[q].released = pend[q].released
      BY <3>1 DEF PendRecs
    <3> QED BY <3>2 DEF PendHolds
  <2>6. open' = open - Count(CallHolds(n)) + Count(CallHolds(n)')
    BY <1>nat, <2>1, <2>4
  <2> QED BY <1>call, <2>1, <2>5, <2>6 DEF MovesTo
\* The call hands its gateway to its PendingTx.
<1>11. ASSUME NEW n \in Calls, Ordered(n) PROVE GatewayAccounting'
  <2>1. call[n].pc = "rpc" /\ call[n].ph = "submit" /\ call[n].p = 0 /\ UNCHANGED <<strm, open>>
    BY <1>11 DEF Ordered, CallInv, Shape, Running, Waiting
  <2>2. OthersKept(n) /\ call'[n].pc # "rpc"
    BY <1>11, OrderedEffect DEF ReturnsAs
  <2>3. pend[n] = NoPend
    BY <2>1 DEF PendInv, PendShape, Calls
  <2>4. \A q \in Calls \ {n} : pend'[q] = pend[q]
    BY <1>11 DEF Ordered, PendInv
  <2>5. pend'[n].other = call[n].other /\ pend'[n].released = FALSE
    <3> DEFINE st == IF call[n].op = "submit" THEN "inside" ELSE "held"
    <3>1. pend'[n] = [pend[n] EXCEPT !.state = st, !.other = call[n].other] /\ pend[n] \in PendRecs
      BY <1>11 DEF Ordered, PendInv
    <3> HIDE DEF st
    <3> QED BY <3>1, <2>3, NoPendFields DEF PendRecs
  <2>6. /\ CallHolds(n) <=> call[n].other
        /\ ~CallHolds(n)' /\ ~PendHolds(n)
        /\ PendHolds(n)' <=> call[n].other
    BY <2>1, <2>2, <2>3, <2>5, NoPendFields DEF CallHolds, PendHolds
  <2>7. /\ Count(CallHolds(n)) = Count(PendHolds(n)') /\ Count(CallHolds(n)) \in Int
        /\ Count(CallHolds(n)') = 0 /\ Count(PendHolds(n)) = 0
    BY <2>6 DEF Count
  <2>8. Count(StrmHolds(n)') = Count(StrmHolds(n)) /\ Count(StrmHolds(n)) \in Int
    BY <2>1, CountIs DEF StrmHolds
  <2>9. open' = open - Count(CallHolds(n)) - Count(PendHolds(n)) - Count(StrmHolds(n))
                     + Count(CallHolds(n)') + Count(PendHolds(n)') + Count(StrmHolds(n)')
    BY <1>nat, <2>1, <2>7, <2>8
  <2>10. /\ \A m \in Calls \ {n} : (CallHolds(m)' <=> CallHolds(m)) /\ (StrmHolds(m)' <=> StrmHolds(m))
         /\ \A q \in Calls \ {n} : PendHolds(q)' <=> PendHolds(q)
    BY <2>1, <2>2, <2>4 DEF OthersKept, CallHolds, StrmHolds, PendHolds
  <2> QED BY <2>9, <2>10, Accounted
\* Release, by a caller or by a Wait that learned the status, in call n.
<1>release. ASSUME NEW n \in Calls, NEW p \in Calls, OthersKept(n), CallHolds(n)' <=> CallHolds(n), UNCHANGED strm,
                   open' = onceRelease(p), pend'[p].released, \A q \in Calls \ {p} : pend'[q] = pend[q]
            PROVE  GatewayAccounting'
  <2>1. ~PendHolds(p)'
    BY <1>release DEF PendHolds
  <2>2. Count(PendHolds(p)') = 0 /\ Count(PendHolds(p)) \in Int /\ open' = open - Count(PendHolds(p))
    <3>1. Count(PendHolds(p)') = 0
      BY <2>1 DEF Count
    <3>2. open' = open - Count(PendHolds(p))
      BY <1>release DEF onceRelease, PendHolds
    <3>3. Count(PendHolds(p)) \in Int
      BY CountIs
    <3> QED BY <3>1, <3>2, <3>3
  <2>3. Count(CallHolds(n)') = Count(CallHolds(n)) /\ Count(StrmHolds(n)') = Count(StrmHolds(n))
    BY <1>release DEF StrmHolds, Count
  <2>4. Count(CallHolds(n)) \in Int /\ Count(StrmHolds(n)) \in Int
    BY CountIs
  <2>5. open' = open - Count(CallHolds(n)) - Count(PendHolds(p)) - Count(StrmHolds(n))
                     + Count(CallHolds(n)') + Count(PendHolds(p)') + Count(StrmHolds(n)')
    BY <1>nat, <2>2, <2>3, <2>4
  <2>6. /\ \A m \in Calls \ {n} : (CallHolds(m)' <=> CallHolds(m)) /\ (StrmHolds(m)' <=> StrmHolds(m))
        /\ \A q \in Calls \ {p} : PendHolds(q)' <=> PendHolds(q)
    BY <1>release DEF OthersKept, CallHolds, StrmHolds, PendHolds
  <2> QED BY <2>5, <2>6, Accounted
<1>12. ASSUME NEW n \in Calls, StatusKnown(n) PROVE GatewayAccounting'
  <2> DEFINE p == call[n].p
  <2>1. call[n].pc = "rpc" /\ call[n].ph = "commitStatus" /\ open' = onceRelease(p) /\ UNCHANGED strm
    BY <1>12 DEF StatusKnown
  <2>2. p \in Calls
    BY <2>1, PInCalls DEF CallInv, Shape, Running, Waiting, Calls
  <2>3. PICK vc \in {"VALID", "MVCC_READ_CONFLICT"} :
          /\ pend' = [pend EXCEPT ![p].code = vc, ![p].lock = 0, ![p].released = TRUE]
          /\ Return(n, IF vc = "VALID" THEN "nil" ELSE commitFailure(p, vc).Kind)
    BY <1>12 DEF StatusKnown
  <2>4. pend'[p].released /\ \A q \in Calls \ {p} : pend'[q] = pend[q]
    BY <2>2, <2>3 DEF PendInv, PendRecs
  <2>5. \E err : ReturnsAs(n, err)
    BY <2>3, ReturnEffect
  <2>6. OthersKept(n) /\ ~CallHolds(n) /\ ~CallHolds(n)'
    BY <2>1, <2>5 DEF CallHolds, ReturnsAs
  <2> HIDE DEF p
  <2> QED BY <1>release, <2>1, <2>2, <2>4, <2>6
<1>13. ASSUME NEW n \in Calls, Release(n) PROVE GatewayAccounting'
  <2>1. pend'[n].released /\ \A q \in Calls \ {n} : pend'[q] = pend[q]
    BY <1>13 DEF Release, PendInv, PendRecs
  <2>2. UNCHANGED <<call, strm>> /\ open' = onceRelease(n)
    BY <1>13 DEF Release
  <2> QED BY <1>release, <2>1, <2>2 DEF OthersKept, CallHolds
\* The call hands its gateway to the forwarder of its stream.
<1>14. ASSUME NEW n \in Calls, StreamOpened(n) PROVE GatewayAccounting'
  <2>1. call[n].pc = "rpc" /\ ReturnsAs(n, "nil") /\ UNCHANGED <<pend, open>>
    BY <1>14, ReturnEffect DEF StreamOpened
  <2>2. call[n].ph = "evaluate"
    BY <1>14 DEF StreamOpened, CallInv, Shape, Running, Waiting, Submissions
  <2>3. strm[n] = NoStrm
    BY <2>1 DEF StrmInv, StrmShape
  <2>4. /\ \A m \in Calls \ {n} : strm'[m] = strm[m]
        /\ strm'[n].other = call[n].other /\ strm'[n].fwd = "recv"
    BY <1>14 DEF StreamOpened, StrmInv, NoStrm
  <2>5. /\ CallHolds(n) <=> call[n].other
        /\ ~CallHolds(n)' /\ ~StrmHolds(n)
        /\ StrmHolds(n)' <=> call[n].other
    BY <2>1, <2>2, <2>3, <2>4, NoStrmFields DEF CallHolds, StrmHolds, ReturnsAs
  <2>6. /\ Count(CallHolds(n)) = Count(StrmHolds(n)') /\ Count(CallHolds(n)) \in Int
        /\ Count(CallHolds(n)') = 0 /\ Count(StrmHolds(n)) = 0
    BY <2>5 DEF Count
  <2>7. Count(PendHolds(n)') = Count(PendHolds(n)) /\ Count(PendHolds(n)) \in Int
    BY <2>1, CountIs DEF PendHolds
  <2>8. open' = open - Count(CallHolds(n)) - Count(PendHolds(n)) - Count(StrmHolds(n))
                     + Count(CallHolds(n)') + Count(PendHolds(n)') + Count(StrmHolds(n)')
    BY <1>nat, <2>1, <2>6, <2>7
  <2>9. /\ \A m \in Calls \ {n} : (CallHolds(m)' <=> CallHolds(m)) /\ (StrmHolds(m)' <=> StrmHolds(m))
        /\ \A q \in Calls \ {n} : PendHolds(q)' <=> PendHolds(q)
    BY <2>1, <2>4 DEF OthersKept, ReturnsAs, CallHolds, StrmHolds, PendHolds
  <2> QED BY <2>8, <2>9, Accounted
\* A stream moves, and gives its gateway back when its forwarder exits.
<1>stream. ASSUME NEW n \in Calls, NEW s, Stream(n, s),
                  open' = open - Count(StrmHolds(n)) + Count(s.other /\ s.fwd \in {"recv", "send"})
           PROVE  GatewayAccounting'
  <2>1. strm'[n] = s /\ (\A m \in Calls \ {n} : strm'[m] = strm[m]) /\ UNCHANGED <<call, pend>>
    BY <1>stream DEF Stream, StrmInv
  <2>2. Count(StrmHolds(n)') = Count(s.other /\ s.fwd \in {"recv", "send"})
    BY <2>1 DEF StrmHolds
  <2>3. /\ Count(CallHolds(n)') = Count(CallHolds(n)) /\ Count(CallHolds(n)) \in Int
        /\ Count(PendHolds(n)') = Count(PendHolds(n)) /\ Count(PendHolds(n)) \in Int
        /\ Count(StrmHolds(n)) \in Int /\ Count(StrmHolds(n)') \in Int
    BY <2>1, CountIs DEF CallHolds, PendHolds
  <2>4. open' = open - Count(CallHolds(n)) - Count(PendHolds(n)) - Count(StrmHolds(n))
                     + Count(CallHolds(n)') + Count(PendHolds(n)') + Count(StrmHolds(n)')
    BY <1>stream, <1>nat, <2>2, <2>3
  <2>5. /\ \A m \in Calls \ {n} : (CallHolds(m)' <=> CallHolds(m)) /\ (StrmHolds(m)' <=> StrmHolds(m))
        /\ \A q \in Calls \ {n} : PendHolds(q)' <=> PendHolds(q)
    BY <2>1 DEF CallHolds, StrmHolds, PendHolds
  <2> QED BY <2>4, <2>5, Accounted
<1>15. ASSUME NEW n \in Calls, NEW s, Stream(n, s), UNCHANGED open,
              (s.other /\ s.fwd \in {"recv", "send"}) <=> StrmHolds(n)
       PROVE  GatewayAccounting'
  <2>1. Count(s.other /\ s.fwd \in {"recv", "send"}) = Count(StrmHolds(n)) /\ Count(StrmHolds(n)) \in Int
    BY <1>15 DEF Count
  <2>2. open' = open - Count(StrmHolds(n)) + Count(s.other /\ s.fwd \in {"recv", "send"})
    BY <1>15, <1>nat, <2>1
  <2> QED BY <1>15, <1>stream, <2>2
<1>16. ASSUME NEW n \in Calls, Forward(n) \/ Consume(n) \/ StreamStopped(n) \/ UpstreamEnds(n)
       PROVE  GatewayAccounting'
  <2>1. strm[n] \in StrmRecs
    BY DEF StrmInv
  <2>2. CASE Forward(n)
    BY <2>1, <2>2, <1>15 DEF Forward, StrmHolds, StrmRecs
  <2>3. CASE Consume(n)
    BY <2>1, <2>3, <1>15 DEF Consume, StrmHolds, StrmRecs
  <2>4. CASE StreamStopped(n)
    BY <2>1, <2>4, <1>15 DEF StreamStopped, StrmHolds, StrmRecs
  <2>5. CASE UpstreamEnds(n)
    BY <2>1, <2>5, <1>15 DEF UpstreamEnds, StrmHolds, StrmRecs
  <2> QED BY <1>16, <2>2, <2>3, <2>4, <2>5
<1>17. ASSUME NEW n \in Calls, ForwarderExits(n) PROVE GatewayAccounting'
  <2>1. PICK err : Exits(n, err)
    BY <1>17 DEF ForwarderExits
  <2>2. StrmHolds(n) <=> strm[n].other
    BY <1>17 DEF ForwarderExits, StrmHolds
  <2> DEFINE s == [strm[n] EXCEPT !.fwd = "exited", !.err = err]
  <2>3. s.fwd = "exited"
    BY DEF StrmInv, StrmRecs
  <2>4. Stream(n, s) /\ open' = open - Count(strm[n].other)
    BY <2>1 DEF Exits
  <2> HIDE DEF s
  <2>5. Count(s.other /\ s.fwd \in {"recv", "send"}) = 0 /\ Count(strm[n].other) = Count(StrmHolds(n))
    BY <2>2, <2>3 DEF Count
  <2>6. Count(StrmHolds(n)) \in Int
    BY CountIs
  <2>7. open' = open - Count(StrmHolds(n)) + Count(s.other /\ s.fwd \in {"recv", "send"})
    BY <1>nat, <2>4, <2>5, <2>6
  <2> QED BY <1>stream, <2>4, <2>7
<1>18. ASSUME NEW n \in Calls, Local(n) \/ Answered(n) PROVE GatewayAccounting'
  BY <1>18, <1>3, <1>4, <1>5, <1>6, <1>7, <1>8, <1>9, <1>10, <1>11, <1>12, <1>14
  DEF Local, Answered, Fails, Notes
<1> QED BY <1>1, <1>2, <1>3, <1>13, <1>16, <1>17, <1>18 DEF Next, Notes

-----------------------------------------------------------------------------
(***************************************************************************)
(* The invariants hold at first and together are inductive.                *)
(***************************************************************************)
ClientInv ==
  /\ CallInv /\ PendInv /\ StrmInv
  /\ TimeoutInv /\ BuildInv /\ OnceInv /\ ShutInv
  /\ AcceptedNotDenied /\ ReleasedInv /\ AfterInv
  /\ GatewayAccounting

LEMMA ClientInvInit == Init => ClientInv
<1> SUFFICES ASSUME Init PROVE ClientInv
  OBVIOUS
<1>1. CallInv /\ PendInv /\ StrmInv
  BY CallInvInit, PendInvInit, StrmInvInit
<1>2. \A n \in Calls : /\ call[n].pc = "idle" /\ call[n].after = FALSE
                       /\ pend[n].other = FALSE /\ strm[n].other = FALSE
  BY DEF Init, NoCall, NoPend, NoStrm
<1>3. TimeoutInv
  <2>1. stage = "start" /\ \E s \in Setups : cfg = s.cfg
    BY DEF Init
  <2> QED BY <2>1, SetupAssumption DEF TimeoutInv
<1>4. BuildInv
  BY <1>2 DEF Init, BuildInv, Stages, Makes
<1>5. OnceInv
  <2>1. once = 0 /\ closed = FALSE
    BY DEF Init
  <2>2. once \in 0..5 /\ (once > 1) = FALSE
    BY <2>1
  <2> QED BY <1>2, <2>1, <2>2 DEF OnceInv, Done
<1>6. ShutInv
  <2>1. \A r \in Resources : ~Gone(r)
    BY DEF Init, Gone
  <2> QED BY <2>1 DEF Init, ShutInv, Count
<1>7. AcceptedNotDenied /\ ReleasedInv /\ AfterInv
  BY <1>2 DEF AcceptedNotDenied, ReleasedInv, AfterInv, Done
<1>8. GatewayAccounting
  <2> DEFINE C == {n \in Calls : CallHolds(n)}
             P == {p \in Calls : PendHolds(p)}
             S == {n \in Calls : StrmHolds(n)}
  <2>1. C = {} /\ P = {} /\ S = {}
    BY <1>2 DEF CallHolds, PendHolds, StrmHolds
  <2>2. GatewayAccounting <=> open = Cardinality(C) + Cardinality(P) + Cardinality(S)
    BY DEF GatewayAccounting, CallHolds, PendHolds, StrmHolds
  <2> HIDE DEF C, P, S
  <2>3. Cardinality(C) = 0 /\ Cardinality(P) = 0 /\ Cardinality(S) = 0
    BY <2>1, FS_EmptySet
  <2> QED BY <2>2, <2>3 DEF Init
<1> QED BY <1>1, <1>3, <1>4, <1>5, <1>6, <1>7, <1>8 DEF ClientInv

LEMMA ClientInvStep == ASSUME ClientInv, [Next]_vars PROVE ClientInv'
<1>1. /\ CallInv /\ PendInv /\ StrmInv /\ TimeoutInv /\ BuildInv /\ OnceInv /\ ShutInv
      /\ AcceptedNotDenied /\ ReleasedInv /\ AfterInv /\ GatewayAccounting
  BY DEF ClientInv
<1>2. CallInv' /\ PendInv' /\ StrmInv'
  BY <1>1, CallInvStep, PendInvStep, StrmInvStep
<1>3. TimeoutInv' /\ BuildInv' /\ OnceInv' /\ ShutInv'
  BY <1>1, TimeoutInvStep, BuildInvStep, OnceInvStep, ShutInvStep
<1>4. AcceptedNotDenied' /\ ReleasedInv'
  BY <1>1, OutcomeStep
<1>5. AfterInv'
  BY <1>1, AfterInvStep
<1>6. GatewayAccounting'
  BY <1>1, AccountingStep
<1> QED BY <1>2, <1>3, <1>4, <1>5, <1>6 DEF ClientInv

LEMMA ClientInvariant == Spec => []ClientInv
<1>1. ClientInv /\ [Next]_vars => ClientInv'
  BY ClientInvStep
<1> QED BY <1>1, ClientInvInit, PTL DEF Spec

-----------------------------------------------------------------------------
(***************************************************************************)
(* Theorems.                                                               *)
(***************************************************************************)

\* Every variable of the client holds a value of its type, whatever the Configs,
\* the plan of calls and the number of goroutines; the count of open gateways in
\* particular never goes below zero.
THEOREM TypeCorrect == Spec => []TypeOK
<1>1. ASSUME ClientInv PROVE TypeOK
  <2> USE DEF ClientInv
  <2>1. stage \in Stages /\ made \subseteq Resources
    BY <1>1 DEF BuildInv, Makes, Stages, Resources
  <2>2. shut \in [Resources -> Nat]
    BY <1>1 DEF ShutInv, Count
  <2>3. open \in Nat
    BY <1>1, OpenIsNat
  <2>4. closed \in BOOLEAN /\ once \in 0..(Len(CloseOrder) + 1)
    BY <1>1, CloseOrderIs DEF OnceInv
  <2>5. ASSUME NEW n \in Calls PROVE CallOK(call[n])
    <3>1. call[n] \in CallRecs
      BY <1>1 DEF CallInv
    <3> QED BY <3>1 DEF CallRecs, CallOK, Outcomes
  <2>6. ASSUME NEW n \in Calls PROVE PendOK(pend[n])
    <3>1. pend[n] \in PendRecs
      BY <1>1 DEF PendInv
    <3> QED BY <3>1 DEF PendRecs, PendOK
  <2>7. ASSUME NEW n \in Calls PROVE StrmOK(strm[n])
    <3>1. strm[n] \in StrmRecs
      BY <1>1 DEF StrmInv
    <3> QED BY <3>1 DEF StrmRecs, StrmOK
  <2> QED BY <2>1, <2>2, <2>3, <2>4, <2>5, <2>6, <2>7 DEF TypeOK, Stages
<1> QED BY <1>1, ClientInvariant, PTL

\* However many goroutines call Close, and wherever New fails, the client closes
\* its own resources once each and no other (FabricClient.Close, build).
THEOREM OwnResourcesClosedOnce == Spec => []ClosesItsOwn
<1>1. ASSUME ClientInv PROVE ClosesItsOwn
  <2>1. BuildInv /\ OnceInv /\ ShutInv /\ CallInv
    BY <1>1 DEF ClientInv
  <2>2. \A r \in Resources : shut[r] = Count(Gone(r)) /\ StepOf[r] \in 2..4
    BY <2>1 DEF ShutInv, Resources, StepOf
  <2>3. \A r \in Resources : shut[r] <= Count(r \in made)
    BY <2>2 DEF Count, Gone
  <2>4. made \subseteq Resources
    BY <2>1 DEF BuildInv, Makes, Resources, Stages
  <2>5. ASSUME stage = "failed" \/ (\E n \in Calls : Done(n, {"close"})), NEW r \in made
        PROVE  shut[r] = 1
    <3>1. stage = "failed" \/ once = 5
      BY <2>1, <2>5 DEF OnceInv
    <3>2. r \in Resources /\ Gone(r)
      <4>1. r \in Resources /\ r \in made
        BY <2>4
      <4>2. once = 5 => once > StepOf[r]
        BY <2>2, <4>1
      <4> QED BY <3>1, <4>1, <4>2 DEF Gone
    <3> QED BY <2>2, <3>2 DEF Count
  <2> QED BY <2>3, <2>5 DEF ClosesItsOwn
<1> QED BY <1>1, ClientInvariant, PTL

\* A call that begins after Close has taken something away gets no gateway and is
\* refused with KindConfig, at whatever step Close is (FabricClient.Close sets
\* closed before it closes anything; Contract.gateway reads it).
THEOREM RefusedAfterClose == Spec => []ClosedRefuses
<1>1. ASSUME ClientInv PROVE ClosedRefuses
  BY <1>1 DEF ClientInv, AfterInv, ClosedRefuses
<1> QED BY <1>1, ClientInvariant, PTL

\* Every gateway that Contract.gateway opened for another identity has exactly one
\* holder that will close it, and the count of open ones is the number of holders.
THEOREM GatewaysAccounted == Spec => []GatewayAccounting
<1>1. ClientInv => GatewayAccounting
  BY DEF ClientInv
<1> QED BY <1>1, ClientInvariant, PTL

\* SubmitWith leaves a gateway open behind it only when its status query failed.
THEOREM LeftBehindOnlyUnknown == Spec => []LeftBehind
<1>1. ASSUME ClientInv PROVE LeftBehind
  <2> SUFFICES ASSUME NEW n \in Calls, Done(n, {"submit"}), pend[n].state = "inside", ~pend[n].released
               PROVE  call[n].err = "outcome_unknown"
    BY DEF LeftBehind
  <2>1. call[n].p = n
    BY <1>1, NoPendFields DEF ClientInv, PendInv, PendShape
  <2> QED BY <1>1, <2>1 DEF ClientInv, ReleasedInv, Done, Calls
<1> QED BY <1>1, ClientInvariant, PTL

\* Wait and SubmitWith never deny a transaction that the orderer accepted, though
\* other goroutines close the client, release the PendingTx or wait for it too
\* (PendingTx.Wait, classify with phaseCommitStatus).
THEOREM AcceptedTold == Spec => []AcceptedNotDenied
<1>1. ClientInv => AcceptedNotDenied
  BY DEF ClientInv
<1> QED BY <1>1, ClientInvariant, PTL

\* The lock of a PendingTx is held by the one Wait that queries its status, and
\* that query is bounded by a timeout (PendingTx.Wait, withDefaultTimeout).
THEOREM OneWaitAtATime == Spec => []WaitsTakeTurns
<1>1. ASSUME ClientInv PROVE WaitsTakeTurns
  <2> SUFFICES ASSUME NEW p \in Calls
               PROVE  /\ \A n \in Calls : call[n].p = p /\ call[n].pc = "rpc" => pend[p].lock = n
                      /\ pend[p].lock # 0 =>
                           /\ call[pend[p].lock].pc = "rpc" /\ call[pend[p].lock].p = p
                           /\ bounded(call[pend[p].lock].deadline, cfg.timeout[call[pend[p].lock].ph])
    BY DEF WaitsTakeTurns
  <2>1. CallInv /\ PendInv /\ BuildInv /\ TimeoutInv
    BY <1>1 DEF ClientInv
  <2>2. \A n \in Calls : call[n].p = p /\ call[n].pc = "rpc" => pend[p].lock = n
    BY <2>1 DEF PendInv, WaitLocks, Calls
  <2>3. ASSUME pend[p].lock # 0
        PROVE  /\ call[pend[p].lock].pc = "rpc" /\ call[pend[p].lock].p = p
               /\ bounded(call[pend[p].lock].deadline, cfg.timeout[call[pend[p].lock].ph])
    <3>1. PICK n \in Calls : n = pend[p].lock
      BY <2>1, <2>3, LockInCalls
    <3>2. call[n].pc = "rpc" /\ call[n].p = p
      BY <2>1, <2>3, <3>1 DEF PendInv, LockWaits
    <3>3. call[n].ph \in Phases
      BY <2>1, <3>2, RunningInRpc
    <3>4. stage = "ready"
      BY <2>1, <3>2 DEF BuildInv
    <3>5. cfg.timeout[call[n].ph] > 0
      BY <2>1, <3>3, <3>4 DEF TimeoutInv
    <3> QED BY <3>1, <3>2, <3>5 DEF bounded
  <2> QED BY <2>2, <2>3
<1> QED BY <1>1, ClientInvariant, PTL

\* What the Observer is told of the operations in told, if the last ends with err.
Told(told, err) ==
  [i \in DOMAIN told |-> [Operation |-> told[i], Err |-> IF i = Len(told) THEN err ELSE "nil"]]

\* When Evaluate, TxStatus, SubmitAsync, SubmitWith or Wait returns, the Observer was
\* told of exactly the phases that the call came to, once each and in order, of the
\* last one with the error returned; if that is nil, the call came to its last phase,
\* so each of its phases was told (Contract.observe, deferred or called where a phase
\* ends). Of a submission refused before it had a proposal it is told nothing.
THEOREM ObserverTold == Spec => []ObserverSeesAll
<1>1. ASSUME ClientInv PROVE ObserverSeesAll
  <2> SUFFICES ASSUME NEW n \in Calls, NEW c, c = call[n], c.pc = "done", c.op \in DOMAIN LastPhase
               PROVE  /\ c.err = "nil" => c.ph = LastPhase[c.op]
                      /\ \/ c.seen = Told(ToldBy(c), c.err)
                         \/ c.seen = <<>> /\ c.op \in Submissions /\ c.ph = "endorse" /\ c.err = "config"
    BY DEF ObserverSeesAll, Done, Told
  <2>1. Finished(c, n)
    BY <1>1 DEF ClientInv, CallInv, Shape
  <2>2. c.op \in {"evaluate", "tx_status", "submit_async", "submit", "wait"}
    BY DEF LastPhase
  <2>3. /\ c.op \in {"evaluate", "tx_status"} => LastPhase[c.op] = "evaluate"
        /\ c.op = "submit_async" => LastPhase[c.op] = "submit"
        /\ c.op \in {"submit", "wait"} => LastPhase[c.op] = "commitStatus"
    BY DEF LastPhase
  <2> HIDE DEF LastPhase, Info
  <2> USE DEF Submissions
  <2>5. CASE c.op \in {"evaluate", "tx_status"}
    <3>1. c.ph = "evaluate" /\ c.seen = <<Info(c.op, c.err)>>
      BY <2>1, <2>5 DEF Finished
    <3>2. ToldBy(c) = <<c.op>>
      BY <2>5, <3>1 DEF ToldBy, Queries
    <3>3. Told(<<c.op>>, c.err) = <<Info(c.op, c.err)>>
      BY DEF Told, Info
    <3> QED BY <2>3, <2>5, <3>1, <3>2, <3>3
  <2>6. CASE c.op = "wait"
    <3>1. c.ph = "commitStatus" /\ c.seen = <<Info("commit", c.err)>>
      BY <2>1, <2>6 DEF Finished
    <3>2. ToldBy(c) = <<"commit">>
      BY <2>6, <3>1 DEF ToldBy, Queries
    <3>3. Told(<<"commit">>, c.err) = <<Info("commit", c.err)>>
      BY DEF Told, Info
    <3> QED BY <2>3, <2>6, <3>1, <3>2, <3>3
  <2>7. CASE c.op \in Submissions
    <3>1. CASE /\ c.ph = "endorse" /\ c.err # "nil"
               /\ (c.seen = <<>> /\ c.err = "config") \/ c.seen = <<Info("endorse", c.err)>>
      <4>1. ToldBy(c) = <<"endorse">>
        BY <2>7, <3>1 DEF ToldBy, Queries
      <4>2. Told(<<"endorse">>, c.err) = <<Info("endorse", c.err)>>
        BY DEF Told, Info
      <4> QED BY <2>7, <3>1, <4>1, <4>2
    <3>2. CASE /\ c.ph = "submit" /\ (c.op = "submit" => c.err # "nil")
               /\ c.seen = <<Info("endorse", "nil"), Info("submit", c.err)>>
      <4>1. ToldBy(c) = <<"endorse", "submit">>
        BY <2>7, <3>2 DEF ToldBy, Queries
      <4>2. Told(<<"endorse", "submit">>, c.err) = <<Info("endorse", "nil"), Info("submit", c.err)>>
        BY DEF Told, Info
      <4> QED BY <2>3, <2>7, <3>2, <4>1, <4>2
    <3>3. CASE /\ c.op = "submit" /\ c.ph = "commitStatus"
               /\ c.seen = <<Info("endorse", "nil"), Info("submit", "nil"), Info("commit", c.err)>>
      <4>1. ToldBy(c) = <<"endorse", "submit", "commit">>
        BY <3>3 DEF ToldBy, Queries
      <4>2. Told(<<"endorse", "submit", "commit">>, c.err)
              = <<Info("endorse", "nil"), Info("submit", "nil"), Info("commit", c.err)>>
        BY DEF Told, Info
      <4> QED BY <2>3, <3>3, <4>1, <4>2
    <3> QED BY <2>1, <2>7, <3>1, <3>2, <3>3 DEF Finished
  <2> QED BY <2>2, <2>5, <2>6, <2>7
<1> QED BY <1>1, ClientInvariant, PTL

-----------------------------------------------------------------------------
(***************************************************************************)
(* The name that TLS verifies.                                             *)
(***************************************************************************)

\* The strings, among them the literals, which no prover knows to be strings.
Token == STRING \cup {"dns", ":", "/"}

LEMMA TokenSeq == \A s \in Seq(STRING) : s \in Seq(Token)
<1> SUFFICES ASSUME NEW s \in Seq(STRING) PROVE s \in Seq(Token)
  OBVIOUS
<1>1. Len(s) \in Nat /\ s \in [1..Len(s) -> STRING]
  OBVIOUS
<1>2. s \in [1..Len(s) -> Token]
  BY <1>1 DEF Token
<1> QED BY <1>1, <1>2

\* strings.LastIndex: the last occurrence of a token is where none follows.
LEMMA LastOccurrence ==
  ASSUME NEW e \in Seq(Token), NEW t, NEW m \in 1..Len(e), e[m] = t,
         \A i \in 1..Len(e) : i > m => e[i] # t
  PROVE  SelectLastInSeq(e, LAMBDA x : x = t) = m
<1> DEFINE I == {i \in 1..Len(e) : e[i] = t}
<1>1. m \in I /\ \A i \in I : m >= i
  OBVIOUS
<1>2. \A x \in I : (\A y \in I : x >= y) => x = m
  BY <1>1
<1>3. Max(I) = m
  BY <1>1, <1>2 DEF Max
<1>4. I # {}
  BY <1>1
<1> HIDE DEF I
<1>5. SelectLastInSeq(e, LAMBDA x : x = t) = IF I # {} THEN Max(I) ELSE 0
  BY DEF SelectLastInSeq, I
<1> QED BY <1>3, <1>4, <1>5

\* What precedes the port.
LEMMA BeforePort ==
  ASSUME NEW e \in Seq(Token), Len(e) >= 2, e[Len(e) - 1] = ":", e[Len(e)] # ":"
  PROVE  /\ Before(e, ":") \in Seq(Token) /\ Len(Before(e, ":")) = Len(e) - 2
         /\ \A i \in 1..(Len(e) - 2) : Before(e, ":")[i] = e[i]
<1>1. Len(e) - 1 \in 1..Len(e) /\ \A i \in 1..Len(e) : i > Len(e) - 1 => e[i] # ":"
  OBVIOUS
<1>2. SelectLastInSeq(e, LAMBDA x : x = ":") = Len(e) - 1
  BY <1>1, LastOccurrence
<1>3. Before(e, ":") = SubSeq(e, 1, Len(e) - 2)
  BY <1>1, <1>2 DEF Before
<1> QED BY <1>3, SubSeqProperties

\* What follows a scheme that ends in its last "/", or no scheme.
LEMMA AfterScheme ==
  ASSUME NEW e \in Seq(Token), NEW k \in 0..Len(e), k > 0 => e[k] = "/",
         \A i \in 1..Len(e) : i > k => e[i] # "/"
  PROVE  After(e, "/") = SubSeq(e, k + 1, Len(e))
<1>1. CASE k = 0
  <2> DEFINE I == {i \in 1..Len(e) : e[i] = "/"}
  <2>1. I = {}
    BY <1>1
  <2> HIDE DEF I
  <2>2. SelectLastInSeq(e, LAMBDA x : x = "/") = IF I # {} THEN Max(I) ELSE 0
    BY DEF SelectLastInSeq, I
  <2> QED BY <1>1, <2>1, <2>2 DEF After
<1>2. CASE k > 0
  <2>1. k \in 1..Len(e)
    BY <1>2
  <2>2. SelectLastInSeq(e, LAMBDA x : x = "/") = k
    BY <1>2, <2>1, LastOccurrence
  <2> QED BY <2>2 DEF After
<1> QED BY <1>1, <1>2

LEMMA SuffixByElements ==
  ASSUME NEW s \in Seq(Token), NEW t \in Seq(Token), Len(s) <= Len(t),
         \A i \in 1..Len(s) : t[Len(t) - Len(s) + i] = s[i]
  PROVE  IsSuffix(s, t)
<1> DEFINE r == Reverse(s)
           u == Reverse(t)
<1>1. r \in Seq(Token) /\ Len(r) = Len(s) /\ \A i \in 1..Len(s) : r[i] = s[Len(s) - i + 1]
  BY DEF Reverse
<1>2. u \in Seq(Token) /\ Len(u) = Len(t) /\ \A i \in 1..Len(t) : u[i] = t[Len(t) - i + 1]
  BY DEF Reverse
<1> HIDE DEF r, u
<1>3. \A i \in 1..Len(s) : r[i] = u[i]
  <2> SUFFICES ASSUME NEW i \in 1..Len(s) PROVE r[i] = u[i]
    OBVIOUS
  <2>1. Len(s) - i + 1 \in 1..Len(s) /\ i \in 1..Len(t)
    OBVIOUS
  <2>2. t[Len(t) - Len(s) + (Len(s) - i + 1)] = s[Len(s) - i + 1]
    BY <2>1
  <2>3. Len(t) - Len(s) + (Len(s) - i + 1) = Len(t) - i + 1
    OBVIOUS
  <2> QED BY <2>1, <2>2, <2>3, <1>1, <1>2
<1>4. SubSeq(r, 1, Len(r)) = SubSeq(u, 1, Len(r))
  BY <1>1, <1>2, <1>3
<1> QED BY <1>1, <1>2, <1>4 DEF IsSuffix, IsPrefix, r, u

\* The tokens e end in a host h and a port, after k others.
EndsInHost(e, h, k) ==
  /\ e \in Seq(Token) /\ h \in Seq(Token) /\ k \in Nat /\ Len(e) = k + Len(h) + 2
  /\ \A i \in 1..Len(h) : e[k + i] = h[i]
  /\ e[Len(e) - 1] = ":" /\ e[Len(e)] # ":"

\* serverNameFor cuts the host out of an endpoint.
LEMMA NameIsHost ==
  ASSUME NEW e, NEW h, NEW k, EndsInHost(e, h, k), k > 0 => e[k] = "/",
         \A i \in 1..Len(e) : i > k => e[i] # "/"
  PROVE  Before(After(e, "/"), ":") = h
<1> USE DEF EndsInHost
<1>1. k \in 0..Len(e) /\ Len(e) \in Nat /\ Len(h) \in Nat
  OBVIOUS
<1>2. PICK r : r = SubSeq(e, k + 1, Len(e))
  OBVIOUS
<1>3. After(e, "/") = r
  BY <1>1, <1>2, AfterScheme
<1>4. r \in Seq(Token) /\ Len(r) = Len(h) + 2 /\ \A i \in 1..(Len(h) + 2) : r[i] = e[k + i]
  BY <1>1, <1>2
<1>5. r[Len(r) - 1] = ":" /\ r[Len(r)] # ":" /\ Len(r) >= 2
  <2>1. r[Len(h) + 1] = e[k + (Len(h) + 1)] /\ r[Len(h) + 2] = e[k + (Len(h) + 2)]
    BY <1>1, <1>4
  <2>2. k + (Len(h) + 1) = Len(e) - 1 /\ k + (Len(h) + 2) = Len(e)
    BY <1>1
  <2> QED BY <1>1, <1>4, <2>1, <2>2
<1>6. PICK b : b = Before(r, ":")
  OBVIOUS
<1>7. b \in Seq(Token) /\ Len(b) = Len(r) - 2 /\ \A i \in 1..(Len(r) - 2) : b[i] = r[i]
  BY <1>4, <1>5, <1>6, BeforePort
<1>8. Len(b) = Len(h) /\ \A i \in 1..Len(h) : b[i] = h[i]
  BY <1>1, <1>4, <1>7
<1>9. b = h
  BY <1>7, <1>8, SeqEqual
<1> QED BY <1>3, <1>6, <1>9

\* What grpcTarget makes of it keeps its end.
LEMMA DnsKeepsHost ==
  ASSUME NEW e, NEW h, NEW k, EndsInHost(e, h, k),
         NEW p \in Seq(Token), Len(p) = 5, p[2] = ":", p[3] = "/", p[4] = "/"
  PROVE  EndsInHost(p \o e, h, k + 5) /\ hasScheme(p \o e)
<1> USE DEF EndsInHost
<1>1. PICK t : t = p \o e
  OBVIOUS
<1>2. /\ t \in Seq(Token) /\ Len(t) = 5 + Len(e) /\ Len(e) \in Nat /\ Len(h) \in Nat
      /\ \A i \in 1..Len(e) : t[5 + i] = e[i]
      /\ t[2] = ":" /\ t[3] = "/" /\ t[4] = "/"
  <2>0. Len(e) \in Nat /\ Len(h) \in Nat /\ e \in Seq(Token)
    OBVIOUS
  <2>a. p \o e \in Seq(Token) /\ Len(p \o e) = Len(p) + Len(e)
    BY <2>0, ConcatProperties
  <2>1. t \in Seq(Token) /\ Len(t) = 5 + Len(e) /\ Len(e) \in Nat /\ Len(h) \in Nat
    BY <1>1, <2>0, <2>a
  <2>2. \A i \in 1..Len(e) : t[5 + i] = e[i]
    BY <1>1, <2>1
  <2>3. \A i \in 1..5 : t[i] = p[i]
    BY <1>1, <2>1
  <2> QED BY <2>1, <2>2, <2>3
<1>3. \A i \in 1..Len(h) : t[(k + 5) + i] = h[i]
  <2> SUFFICES ASSUME NEW i \in 1..Len(h) PROVE t[(k + 5) + i] = h[i]
    OBVIOUS
  <2>1. k + i \in 1..Len(e) /\ (k + 5) + i = 5 + (k + i)
    BY <1>2
  <2> QED BY <1>2, <2>1
<1>4. t[Len(t) - 1] = ":" /\ t[Len(t)] # ":"
  <2>1. Len(e) - 1 \in 1..Len(e) /\ Len(e) \in 1..Len(e)
    BY <1>2
  <2>2. t[5 + (Len(e) - 1)] = e[Len(e) - 1] /\ t[5 + Len(e)] = e[Len(e)]
    BY <1>2, <2>1
  <2>3. Len(t) - 1 = 5 + (Len(e) - 1) /\ Len(t) = 5 + Len(e)
    BY <1>2
  <2> QED BY <2>2, <2>3
<1>5. SubSeq(t, 2, 2 + 2) = <<":", "/", "/">>
  <2>1. PICK s : s = SubSeq(t, 2, 2 + 2)
    OBVIOUS
  <2>2. s \in Seq(Token) /\ Len(s) = 3 /\ s[1] = t[2] /\ s[2] = t[3] /\ s[3] = t[4]
    BY <1>2, <2>1
  <2>3. PICK u : u = <<":", "/", "/">>
    OBVIOUS
  <2>a. ":" \in Token /\ "/" \in Token
    BY DEF Token
  <2>b. u \in Seq(Token)
    BY <2>3, <2>a
  <2>4. u \in Seq(Token) /\ Len(u) = 3 /\ u[1] = ":" /\ u[2] = "/" /\ u[3] = "/"
    BY <2>3, <2>b
  <2>c. s[1] = u[1] /\ s[2] = u[2] /\ s[3] = u[3]
    BY <1>2, <2>2, <2>4
  <2>d. \A i \in 1..Len(s) : i = 1 \/ i = 2 \/ i = 3
    BY <2>2
  <2>e. Len(s) = Len(u) /\ \A i \in 1..Len(s) : s[i] = u[i]
    BY <2>2, <2>4, <2>c, <2>d
  <2>5. s = u
    BY <2>2, <2>4, <2>e, SeqEqual
  <2> QED BY <2>1, <2>3, <2>5
<1>6. hasScheme(t)
  BY <1>2, <1>5 DEF hasScheme
<1> QED BY <1>1, <1>2, <1>3, <1>4, <1>6

LEMMA HostBeforePort ==
  ASSUME NEW e, NEW h, NEW k, EndsInHost(e, h, k) PROVE IsSuffix(h, Before(e, ":"))
<1> USE DEF EndsInHost
<1>1. Len(e) \in Nat /\ Len(h) \in Nat /\ Len(e) >= 2
  OBVIOUS
<1>2. PICK b : b = Before(e, ":")
  OBVIOUS
<1>3. b \in Seq(Token) /\ Len(b) = Len(e) - 2 /\ \A i \in 1..(Len(e) - 2) : b[i] = e[i]
  BY <1>1, <1>2, BeforePort
<1>4. Len(h) <= Len(b) /\ \A i \in 1..Len(h) : b[Len(b) - Len(h) + i] = h[i]
  BY <1>1, <1>3
<1> QED BY <1>2, <1>3, <1>4, SuffixByElements

LEMMA DocumentedEndsInHost ==
  ASSUME NEW c, c.endpoint \in Seq(STRING), c.host \in Seq(STRING), Documented(c)
  PROVE  \E k \in Nat :
           /\ EndsInHost(c.endpoint, c.host, k)
           /\ k > 0 => c.endpoint[k] = "/" /\ hasScheme(c.endpoint)
           /\ \A i \in 1..Len(c.endpoint) : i > k => c.endpoint[i] # "/"
<1>1. PICK e, h : e = c.endpoint /\ h = c.host
  OBVIOUS
<1>2. PICK k : k = Len(e) - Len(h) - 2
  OBVIOUS
<1>3. /\ k >= 0 /\ SubSeq(e, k + 1, k + Len(h)) = h
      /\ e[Len(e) - 1] = ":" /\ e[Len(e)] # ":"
      /\ \A i \in (k + 1)..Len(e) : e[i] # "/"
      /\ \/ k = 0 /\ ~hasScheme(e)
         \/ k > 0 /\ e[k] = "/" /\ \E i \in 1..(k - 2) : SubSeq(e, i, i + 2) = <<":", "/", "/">>
  BY <1>1, <1>2 DEF Documented
<1>4. e \in Seq(Token) /\ h \in Seq(Token) /\ Len(e) \in Nat /\ Len(h) \in Nat /\ k \in Nat
  BY <1>1, <1>2, <1>3, TokenSeq
<1>5. \A i \in 1..Len(h) : e[k + i] = h[i]
  <2> SUFFICES ASSUME NEW i \in 1..Len(h) PROVE e[k + i] = h[i]
    OBVIOUS
  <2>1. SubSeq(e, k + 1, k + Len(h))[i] = e[k + i]
    BY <1>2, <1>4
  <2> QED BY <1>3, <2>1
<1>6. EndsInHost(e, h, k)
  BY <1>2, <1>3, <1>4, <1>5 DEF EndsInHost
<1>7. k > 0 => e[k] = "/" /\ hasScheme(e)
  <2> SUFFICES ASSUME k > 0 PROVE e[k] = "/" /\ hasScheme(e)
    OBVIOUS
  <2>1. PICK i \in 1..(k - 2) : SubSeq(e, i, i + 2) = <<":", "/", "/">>
    BY <1>3
  <2>2. i \in 1..(Len(e) - 2)
    BY <1>2, <1>4
  <2> QED BY <1>3, <2>1, <2>2 DEF hasScheme
<1>8. \A i \in 1..Len(e) : i > k => e[i] # "/"
  BY <1>3, <1>4
<1> QED BY <1>1, <1>4, <1>6, <1>7, <1>8

\* The target and the name that New derives from a documented endpoint agree.
LEMMA DialsAndVerifies ==
  ASSUME NEW c, c.endpoint \in Seq(STRING), c.host \in Seq(STRING), Documented(c)
  PROVE  /\ serverNameFor(c) = IF c.override # <<>> THEN c.override ELSE c.host
         /\ IsSuffix(c.host, Before(grpcTarget(c.endpoint), ":"))
         /\ hasScheme(grpcTarget(c.endpoint))
<1>1. PICK k \in Nat :
        /\ EndsInHost(c.endpoint, c.host, k)
        /\ k > 0 => c.endpoint[k] = "/" /\ hasScheme(c.endpoint)
        /\ \A i \in 1..Len(c.endpoint) : i > k => c.endpoint[i] # "/"
  BY DocumentedEndsInHost
<1>2. Before(After(c.endpoint, "/"), ":") = c.host
  BY <1>1, NameIsHost
<1>3. serverNameFor(c) = IF c.override # <<>> THEN c.override ELSE c.host
  BY <1>2 DEF serverNameFor
<1>4. CASE hasScheme(c.endpoint)
  BY <1>1, <1>3, <1>4, HostBeforePort DEF grpcTarget
<1>5. CASE ~hasScheme(c.endpoint)
  <2>1. PICK p : p = <<"dns", ":", "/", "/", "/">>
    OBVIOUS
  <2>2. p \in Seq(Token) /\ Len(p) = 5 /\ p[2] = ":" /\ p[3] = "/" /\ p[4] = "/"
    <3>1. "dns" \in Token /\ ":" \in Token /\ "/" \in Token
      BY DEF Token
    <3>2. p \in Seq(Token)
      BY <2>1, <3>1
    <3>3. Len(p) = 5
      BY <2>1
    <3>4. p[2] = ":" /\ p[3] = "/" /\ p[4] = "/"
      BY <2>1
    <3> QED BY <3>2, <3>3, <3>4
  <2>3. PICK t : t = p \o c.endpoint
    OBVIOUS
  <2>4. EndsInHost(t, c.host, k + 5) /\ hasScheme(t)
    BY <1>1, <2>2, <2>3, DnsKeepsHost
  <2>5. grpcTarget(c.endpoint) = t
    BY <1>5, <2>1, <2>3 DEF grpcTarget
  <2> QED BY <1>3, <2>4, <2>5, HostBeforePort
<1> QED BY <1>4, <1>5

\* The connection was dialled for the Config the client has.
DialInv ==
  /\ {"timeout", "endpoint", "host", "override"} \subseteq DOMAIN cfg
  /\ cfg.endpoint \in Seq(STRING) /\ cfg.host \in Seq(STRING)
  /\ "conn" \in made => dial.target = grpcTarget(cfg.endpoint) /\ dial.name = serverNameFor(cfg)

LEMMA DialInvStep == ASSUME BuildInv, DialInv, [Next]_vars PROVE DialInv'
<1> USE DEF DialInv
<1>1. CASE Accepted
  <2>1. made' = {}
    BY <1>1 DEF Accepted, BuildInv, Makes
  <2>2. cfg' = withDefaults(cfg)
    BY <1>1 DEF Accepted
  <2>3. DOMAIN cfg' = DOMAIN cfg /\ cfg'.endpoint = cfg.endpoint /\ cfg'.host = cfg.host
    BY <2>2 DEF withDefaults
  <2> QED BY <2>1, <2>3
<1>2. CASE Dialled
  BY <1>2 DEF Dialled
<1>3. ASSUME UNCHANGED <<cfg, dial>>, "conn" \in made' => "conn" \in made PROVE DialInv'
  BY <1>3
<1>4. CASE Construction /\ ~Accepted /\ ~Dialled
  BY <1>3, <1>4 DEF Construction, Refused, DialFails, Identified, LoadFails,
     Connected, ConnectFails, Undone
<1>5. ASSUME UNCHANGED newVars PROVE DialInv'
  BY <1>3, <1>5 DEF newVars
<1>6. CASE Next /\ ~Construction
  BY <1>5, <1>6, CallsLeaveNew
<1>7. CASE UNCHANGED vars
  BY <1>5, <1>7 DEF vars
<1> QED BY <1>1, <1>2, <1>4, <1>6, <1>7

\* The name that TLS verifies is the host that grpcTarget makes gRPC dial, or the
\* override, for every endpoint of a documented form.
THEOREM DialledHostVerified == Spec => []VerifiesDialledHost
<1>1. Init => DialInv
  <2> SUFFICES ASSUME Init PROVE DialInv
    OBVIOUS
  <2>1. PICK s \in Setups : cfg = s.cfg
    BY DEF Init
  <2> QED BY <2>1, SetupAssumption DEF Init, DialInv
<1>2. ClientInv /\ DialInv /\ [Next]_vars => DialInv'
  BY DialInvStep DEF ClientInv
<1>3. ASSUME DialInv PROVE VerifiesDialledHost
  <2> SUFFICES ASSUME "conn" \in made, Documented(cfg)
               PROVE  /\ dial.name = IF cfg.override # <<>> THEN cfg.override ELSE cfg.host
                      /\ IsSuffix(cfg.host, Before(dial.target, ":")) /\ hasScheme(dial.target)
    BY DEF VerifiesDialledHost
  <2>1. /\ cfg.endpoint \in Seq(STRING) /\ cfg.host \in Seq(STRING)
        /\ dial.target = grpcTarget(cfg.endpoint) /\ dial.name = serverNameFor(cfg)
    BY <1>3 DEF DialInv
  <2> QED BY <2>1, DialsAndVerifies
<1> QED BY <1>1, <1>2, <1>3, ClientInvariant, PTL DEF Spec

=============================================================================
