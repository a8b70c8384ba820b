# A TLA+ model of fabricsdk

`fabricsdk` is a Go SDK over the Hyperledger Fabric Gateway client: it submits
transactions, classifies their errors and delivers chaincode events and blocks. This
directory holds TLA+ modules for the parts of it that carry state or make
decisions, TLC configurations that check them on small instances, and TLAPS
proofs of their safety properties for every instance.

## The system

| Part | Source | State | Operations | What makes it correct |
|---|---|---|---|---|
| Event listener | `events.go` | checkpoint, current stream, reconnect delay | `ListenChaincodeEvents` | no event skipped, none checkpointed before it was handled, every gateway released, ends when told to and not before |
| Event stream | `events.go` | channel, `err`, forwarder goroutine | `ChaincodeEvents`, `Err`, `Close` | forwarder exits and releases on every path |
| Block listener | `events.go` | checkpoint, delay | `ListenBlocks`, `blockSession` | as the event listener, a block at a time |
| Submission | `contract.go` | transaction ID, `PendingTx` | `SubmitAsync`, `Wait`, `Release`, `TxStatus` | a retry never applies an operation twice, a definite error is definite, an open one is traceable |
| Error model | `errors.go`, `ccerr/` | none | `classify`, `Retryable`, `Is*`, `Parse` | a code wins over text without one, whoever answered first; of two codes or two keywords the first answer decides (`errors.go:359-386`) |
| Client | `client.go` | `closed`, default gateway, connection, default identity | `New`, `Close`, `WithIdentity`, `connect` | owned resources are closed once, also when `New` fails half-way; a closing client hands out no gateway; every call returns if its signing functions do |
| Identity | `identity.go`, `identity_hsm.go` | closer | `NewIdentity`, `LoadIdentity`, `Close` | safe for concurrent use |
| Configuration, observation | `config.go`, `observe.go` | none | `withDefaults`, `validate`, `serverNameFor`, `ObserveCall` | every phase is bounded, TLS verifies the host dialled, the observer sees each phase and the error the call returns |

**Interaction.** Every operation takes a gateway with `Contract.gateway`, which
refuses on a closed client, and gives it back with a release function: at the
end of the call, when the forwarder goroutine of a stream exits, or when the
status of a `PendingTx` is known. All errors of gateway calls pass through
`classify` with the phase they happened in. The listener decides by the Kind of
the error whether to reconnect; the caller of a submission decides by the Kind
and `OutcomeUnknown` whether to retry, resolve or give up.

**What is hard.** The forwarder and the listener loop share an unbuffered channel
while the context may end, the stream may drop, the client may be closed and the
process may die at any moment. `Wait` holds a mutex for the length of a status query,
while `Release`, another `Wait` and `Close` run beside it. The channel may order a transaction after the SDK
stopped waiting for it. Answers of several peers reach `classify` as one error.
The hazards are listed at their lines in `PROJECT.json`.

## Modules

| Module | Models | Extends |
|---|---|---|
| `Errors` | `errors.go` and `ccerr.go` as operators | |
| `Classification` | several peers answering, the gateway failing, `classify` in both modes | `Errors` |
| `Delivery` | what a listener promises: in-order, at-least-once delivery (abstract) | |
| `Listening` | options, delay and `reconnectable`, which both listeners share | `Errors` |
| `EventListener` | the listener loop, the forwarder, the checkpointer, client and ledger | `Listening`, instance of `Delivery` |
| `BlockListener` | `ListenBlocks` and `blockSession` | `Listening`, instance of `Delivery` |
| `Submission` | `SubmitAsync`, `Wait`, `TxStatus`, a caller with an outbox, the channel | `Errors` |
| `Config` | `config.go`, the files of the transport and of an identity, as operators | |
| `Client` | `New` to `Close`, and concurrent calls, waits and streams on one client | `Errors`, `Config` |
| `Identity` | `IdentityFromHSM` and concurrent `Identity.Close` | |
| `MCEventListener`, `MCBlockListener`, `MCSubmission`, `MCClassification`, `MCClient`, `MCIdentity` | values of the constants | |
| `ErrorsProofs` | what `classify` returns for a plain failure and for a coded one | `Errors` |
| `EventListenerProofs`, `BlockListenerProofs`, `SubmissionProofs`, `ClientProofs`, `ClassificationProofs` | the theorems | the module, `ErrorsProofs` |
| `DeliveryProofs` | that `Delivery` keeps order; `BlockListenerProofs` has an instance of it | `Delivery` |
| `IdentityProofs` | when `Identity.Close` is safe | `Identity` |

Definitions named `Mut...` are faulty variants of the definition after them.
They are part of no specification; each is substituted for that definition to see
that a property fails for it.

### Errors and Classification

A text is a record of what the code looks for in it: the "evaluate call"
prefix, the "chaincode response" prefix, the word before the first colon, whether
it has one of `peerSidePhrases`, and the Kinds whose keywords it has. `classify`
and its helpers are then operators of the same name (`chaincodeError` is
`chaincodeKind`, since only the Kind of its result is used). `Message`,
`GRPCCode`, `Details` and `Cause` of the result are left out. In
`Classification` peers append their texts to the details in any order
(`PeerAnswers`), the call fails with a code, a text and perhaps a context error
behind it (`CallFails`), and the error is classified with and without
`StrictErrorCodes`.

### EventListener

`lpc` is the position in the loop of `ListenChaincodeEvents`: `open` (in
`eventOptions` and `gateway`), `subscribe` (in `Network.ChaincodeEvents`), `range`, `handle`,
`checkpoint`, `ended` (after the session), `sleep`, `returned`. `fpc` is the
position of the forwarder: `recv` in `range upstream`, `send` in the `select`,
`closed` once `s.ch` is closed. The deferred `release()` runs after that, so it
is a step of its own (`Release`), and a new stream may be open by then; `exiting`
counts the forwarders that still have to run it. `Deliver` is the rendezvous on
the unbuffered channel; when ctx has ended too, `Deliver` and `SendCancelled`
are both enabled, as in the `select`. When the loop returns on an error it only
cancels the stream (`CloseStream`): that forwarder can do nothing but exit.
The options of each stream are resolved before its gateway is taken: `OpenGateway`
copies `slot`, whose checkpointer the options end with, to `chosen`, and `Resume` asks that
checkpointer for its position when the request is made. What another listener
writes into the slice after that (`OtherListens`) reaches only the next reconnect.
`Spec` is a listener with an options slice of its own, `SharedSpec` one whose slice
another listener uses too.

The peer's part is external: `Serves` says which events a request for a position
yields, as `events_test.go` reproduces it (after the checkpointed transaction, else
from the start block, else from the next commit). A refused subscription
(`Denied`) opens and then ends, again as in `events_test.go`. `CheckpointFails`
leaves the position in memory moved or not, since the library's file
checkpointer sets it before it writes. `Restart` loses everything but the
persisted position. Events have one transaction each. The handle has a valid
identity, and `connect`, which makes no round trip, succeeds. `cp` and `handle`
are not nil.

### BlockListener

`blockSession` has no forwarder of its own: `lpc` goes from `open` (in `gateway`)
through `subscribe`, `range`, `handle` and `checkpoint`, and `EndSession` is its
two deferred calls. `SessionEnded` is the loop of `ListenBlocks` after a session: ctx
first, then a `handlerError`, then `reconnectable`. So an error that the handler
returns while ctx ends is dropped, which `HandlerErrorSurfaces` allows and nothing
else. The checkpoint is the number of the next block; position 0 is the one
that the library takes for unset, and `FromBlock(0)` makes it harmless. A gateway's
`Close` ends no stream: only the end of the connection does, which `Close`
closes when `New` made it (`CloseEndsStreams`, in both listeners).

### Submission

One business operation is tried up to `MaxAttempts` times. `SDKStep` holds the
steps of the SDK calls. The caller is the `switch` of the repository's README:
`ALREADY_EXISTS` is success, `OutcomeUnknown` is resolved by `TxStatus` or another
`Wait`, what is retryable is tried again, all else is failure. It stores the
transaction ID before `Wait`, as the comment on `PendingTx` says. The channel is
external: a failed submit may or may not have reached the orderer, except for the
codes by which the gateway says it was refused (`RefusedByOrderer`, stated apart
from the SDK's list so that the two can disagree); what is in flight may be
ordered or lost at any later time, and validated after that. `TxStatus` may
answer "not found" for a committed transaction, since the peer asked may lag.
A call under way when the client is closed may still succeed. Chaincode may
answer `ALREADY_EXISTS` once an attempt is valid, but nothing in the channel keeps
a second attempt from becoming valid as well: that is left to the SDK and its
caller. What they promise only until the process crashes says so
(`crashes = 0`).

`OrderedIsSettled` excepts a transaction that was ordered before a crash and is not
in the outbox, the case of `submission_lost_track`.

### Client and Config

`stage` follows `New` or `NewWithConnection` (`given` is the connection given, if
any): validation, credentials and `grpc.NewClient`, the identity, `connect`. `made`
is what the client owns, `shut` counts how often each resource was closed. `Config`
is a record with the set of its non-blank fields, its timeouts, its endpoint as a
sequence of the tokens the code looks for, and what its paths name; a key or
certificate is known by the pair it belongs to.

Up to `MaxCalls` goroutines then call, in the order and with the operations of one
of `Plans`; `Begin` chooses the identity (`other` than the client's, which
gets a gateway of its own) and whether ctx has a deadline. `pc` is `gateway` in
`Contract.gateway`, `rpc` in a gateway call of phase `ph`, `lock` before the mutex
of `Wait`, `once` and `closing` in `Close`, whose statements are steps of their own
(`CloseOrder`). `closeOnce` blocks those that come later until the first is done.
A gateway call first signs. The signing function is given no ctx, so until it
returned (`signed`) it can only fail (`SignFails`); after that the call ends by an
answer, a failure of the peer, the end of its ctx or its connection (`GivesUp`)
or its timeout (`TimesOut`). At the lock of `Wait` nothing looks at ctx. A
submission leaves a `PendingTx` that holds its gateway (`pend`), and
`ChaincodeEvents` leaves a forwarder that does (`strm`), with a consumer who may
stop reading. `open` counts the gateways of other identities. The observer's
record is `seen`.

What the model shows about the code and its docs say less clearly:

- `Wait` asks without `Contract.gateway`, so it does not get `KindConfig` on a closed
  client as `CHANGELOG.md` line 42 says of calls made after `Close`; on a connection
  of the caller it still answers, and on one the client closed it says
  `KindOutcomeUnknown`, which is the safe answer.
- Only a connection that `New` made is closed. On a connection of the caller,
  calls and streams under way go on after `Close`.
- `SubmitWith` with another identity leaves its gateway open when the status
  query fails (`LeftBehind` says that it does so in no other case).
- `Height`, streams, and submissions refused before the endorsement tell the
  observer nothing, although `observe.go:60` promises "a CallInfo for every finished
  operation" and `config.go:101` one per finished operation; `ObserverSeesAll` says exactly
  what the other calls tell.
- While a signing function (a remote service, an HSM) blocks, neither the end of ctx nor
  a timeout ends the call, although "a deadline or cancellation on ctx bounds the
  call" (`client.go:16`): `client_wait_ctx` rests on it, and `CallsReturn` excludes it.
- `serverNameFor` keeps a scheme without `//` (`dns:host:port` gives `dns:host`) and
  cuts an IPv6 address without a port. `VerifiesDialledHost` is about the
  documented forms only (`Documented`): a host and a port, alone or after a scheme with
  `://`.
- An identity that the client owns comes from `LoadIdentity` and has no closer.

### Identity

`IdentityFromHSM` opens a session and hands its closer to the identity, or
closes it when `NewIdentity` refuses. `Close` is its four statements, since
nothing orders those of two goroutines.

## Runs

| Run | Shows |
|---|---|
| `listener_durable` | with `FromBlock` and a durable checkpointer: types, no gap, checkpoint never ahead, no redelivery in a call, gateways accounted and released, implements `Delivery`, events are handled, cancellation and `Close` return; 3 events in 2 blocks, 2 drops, 2 calls |
| `listener_next_commit` | without `FromBlock`, 4 events in 3 blocks, memory checkpoint: everything after a checkpointed event is in order; delay range (`RetryBackoff` with a negative minimum) and reasons to stop; 3 drops, 2 calls |
| `block_listener` | the same promises for blocks 0 to 3, 3 drops, 3 calls; handler errors surface |
| `submission` | at most once, definite failure, real success, traceable unknown, the outbox never forgets, what was ordered is settled; 3 attempts, one crash, all 16 gRPC codes in every phase |
| `classification` | 8 texts, 2 peers, 5 codes, all phases, both modes |
| `client` | ownership, refusal after `Close`, gateways, locks, observer, server name, calls return if signing functions do, stopped streams exit; the setups and plans of `MCClient`, 3 calls |

Six runs end in a violation, each of a sentence in the repository:

- `listener_next_commit_gap`: "so no event is skipped" (`events.go:210`). Without
  `FromBlock`, a stream that drops before the first checkpoint is reopened at what
  is then the next commit.
- `listener_denied`: "Returns ... a non-retryable error" (`events.go:214`). The
  peer's refusal ends the stream as `ErrStreamClosed` and is retried for ever.
- `listener_shared_options`: the same promise as the first, with two listeners
  given one options slice with spare capacity (`append` at `events.go:220`). The
  second overwrites the first one's checkpointer after its first stream was opened; when
  that drops, the reconnect resumes at the second one's position. `FromBlock` does not help.
- `submission_lost_track`: "so a crash cannot lose track of it"
  (`contract.go:152`). The ID is handed out after the orderer has the transaction, so a
  crash before the caller has stored it loses it, whether `SubmitAsync` has returned
  or not.
- `identity_close`: "an Identity is safe for concurrent use" (`identity.go:17`) and
  "safe to call more than once" (`identity.go:92`). Two goroutines in `Close` may
  both run the closer, or one may call nil.
- `client_wait_ctx`: "Wait blocks until the transaction is committed, ctx ends, or the
  commit status timeout passes" (`contract.go:213`). At `p.mu.Lock()` a second `Wait` has
  no ctx: it stays for the whole query of the first, and in the run, where that one's
  signing function never returns, for ever.

Seen while modelling, without a run: `IsNotFound` "reports a chaincode NOT_FOUND
error" (`errors.go:138`), but a gRPC `NotFound` of the network is one too
(`errors.go:325`).

**Bounds.** Two events in one block and one in the next make the transaction part
of a position matter, and a block boundary. Two drops let a reconnect fail and a
stream end again before the delay is reset; the delays used are a reversed range
and a negative minimum with a cap that is not a power of two. They are integers
without a width: the `int64` doubling of `events.go:249` overflows only after a sleep
of more than 2^62 ns. Two calls allow one restart or one new
call; the block listener has three of each, so that a restart can follow a restart.
In `Client`, two clients come to be (with all of its own, and with nothing of its
own) and every other setup fails at one step of `New`; those that fail after the
dial carry the forms of endpoint and override. The plans put two `Wait` on one
`PendingTx`, and every operation before, beside and after `Close`; three calls are
enough for a holder, a contender and a `Close`. `MaxDrops`, `MaxCalls`, `MaxAttempts`, `MaxCrashes` and `MaxPeers` are the
only bounds, besides one on unreleased forwarders in `OpenGateway` that can bite
only when every subscription is refused. `CHECK_DEADLOCK FALSE` is given where
calls end for good.

**Fairness.** `EventListener` assumes weak fairness of the loop, the forwarder and
the release (goroutines that can run are scheduled, handler, checkpointer and
signing function return, timers fire) and of the gateway noticing the end of a context or a
connection. The ledger, drops, `Close` and cancellation are not fair.
`BlockListener` assumes the same. `Submission` assumes weak fairness of the SDK's steps
(every gateway call has a default timeout once it is signed, and the signing function
returns), of the caller and of validation, and strong fairness of an
answer to a repeated status query: the client asks again and again, and the peer
does not lag for ever. `Client`
assumes weak fairness of the goroutines, of a gateway call noticing, once it is signed, the
end of its context, its timeout or its connection, and of the forwarders and their
upstream once stopped (`FairSpec`); nothing of the peer, the consumer of a stream or the
caller's cancellation. `CallsReturn` needs one thing more, that signing functions
return (`SignersReturn`, in the specification `SigningSpec` of the run `client`): an in-memory
key does, and for any other function it is the caller's to see to. From there on
it rests on the timeouts of `Config` alone. `client_wait_ctx` runs without that
assumption.

## Proofs

TLAPS proves, for every value of the constants that satisfies the named
assumptions:

- `EventListenerProofs`, of a listener with an options slice of its own (`Spec`):
  `TypeOK`, `GatewayAccounting`, `BackoffInRange`, `NeverGivesUp`, `NoGap`,
  `CheckpointCovered` and `NoRedelivery`; and, with a start block
  (`FromBlock`), `NoneSkippedByCall` and `Spec => ImplementsDelivery`.
- `SubmissionProofs`: `TypeOK`, `SuccessIsReal` and `StoredNotForgotten` always;
  `AtMostOnce`, `FailureIsDefinite` and `UnknownIsTraceable`, which speak of
  the states before the first crash.
- `BlockListenerProofs`: `TypeOK`, `HandlerErrorSurfaces`, `NeverGivesUp` and
  `NoRedelivery`; and, with a start block, `Spec => ImplementsDelivery` and, from it,
  that no block is skipped (`NoBlockSkipped`).
- `DeliveryProofs`: the items of `Delivery` are processed in order and recorded only
  when processed.
- `ClientProofs`: `TypeOK`, `ClosesItsOwn`, `ClosedRefuses`, `GatewayAccounting`,
  `LeftBehind`, `AcceptedNotDenied`, `WaitsTakeTurns`, `ObserverSeesAll` and
  `VerifiesDialledHost`, for every set of `Setups` and `Plans` and any number of
  calls.
- `ClassificationProofs`: `CodePrefixWins`, `StrictOnlyForgets` and
  `PeerTextNotChaincode`, for any texts and any number of peers.
- `IdentityProofs`: `CloseIsSafe`, as long as no two calls of `Close` overlap
  (`Serial`).

So every safety property of a passing run is a theorem. Those that a run refutes are
proved under the hypothesis that excludes its counterexample, where the code
offers one: `NoneSkippedByCall` with a start block and an options slice of its own,
`CloseIsSafe` without overlapping calls.

*Listener.* `LoopInv` adds to the types that a forwarder runs only while the loop
is in a session; without it the accounting of gateways, on which `held \in Nat`
rests, is not inductive. `DeliveryInv` says that the handled events, the ones
before the position of the checkpoint, the persisted position and the event in the
hands of forwarder and loop line up: all earlier owed events are handled, and
what the stream serves next follows the last one. `NoGap`, `CheckpointCovered` and
`NoRedelivery` follow, and so does the refinement: `HandleOK` is `Process`,
`CheckpointOK` and a `CheckpointFails` that moved the position are `Record`,
`Restart` is `Forget`, all else stutters. `NoneSkippedByCall` needs only that the
first stream of a call begins at an owed event (`OriginInv`).

Without a start block nothing is owed until a first checkpoint, and what is
handled may begin anywhere, again after each drop; `DeliveryInv` is then false.
`OnwardInv` replaces it: both positions are unset or at a handled event with no hole
among what was handled after it (`AnchorsInv`); what was handled was committed, so
the next commit comes after it (`CommittedInv`); loop, forwarder and upstream hold the
event after the checkpoint and those that follow or, before a checkpoint, events
after all that was handled (`NextInv`, `FlowInv`). The theorems are proved by cases.

*Submission.* `IInv` adds to the types: transactions not yet proposed are
untouched (`Fresh`), a call has a transaction and before the submit it is
untouched (`Attempt`), the outbox holds the current transaction or nothing
(`Outbox`), before a crash all earlier attempts are settled (`Earlier`), and an
error without `OutcomeUnknown` means that the current one is settled too
(`Answer`). `AtMostOnce` is not inductive: that two transactions are not both
valid needs that a new one starts only when the old one can no longer be. The
lemmas of `ErrorsProofs` say what `classify` returns in each phase; the
argument rests on the orderer refusing with no code but those `classify` takes
for a refusal.

*Block listener.* `TypeInv` adds to the types that a gateway is held exactly in a
session. `StopInv` says which kinds of error a session can end with, and that
`config` is one of them only after `Close`, so that `SessionEnded` can neither
lose a handler error nor return for another reason. `NoRedelivery` needs
`RangeInv` (an open stream's next block is not before the position; while a block
is handled or checkpointed, the stream is just past it and the position is not)
and `CallInv` (what this call handled is before the position, or is the block
being checkpointed, unless the call is ending with a handler error or has
returned); without them a reopened stream could begin at a handled block.
`DeliveryInv`, for a listener with a start block (`FromBlock`), adds to `RangeInv`
that everything owed before the position, the persisted position and the block in
hand was handled and that the persisted position is not ahead. It gives the
refinement: `HandleOK` is `Process`, `CheckpointOK` and a `CheckpointFails` that
moved the position are `Record`, `Restart` is `Forget`. That no block is skipped is
not proved again for the listener: `Delivery` promises `InOrder` and `NeverAhead`, which
is a theorem of `DeliveryProofs`, and its instance under the refinement mapping is
the statement about `done` and `cp`.

*Client.* No property is inductive alone; `ClientInv` is the conjunction of:

| Part | Says | Needed because |
|---|---|---|
| `CallInv` | where a call stands fixes its phase, its `PendingTx` and the whole of what the observer was told; a success was in the last phase | each return appends to `seen`; `ObserverSeesAll` speaks of the whole of it |
| `PendInv` | a `PendingTx` belongs to the call that made it, its lock to the one `Wait` in a query, and who waits has one | a `Wait` that fails must free its own lock and no other |
| `StrmInv` | a stream belongs to a `ChaincodeEvents` that has returned | opening it must not overwrite a holder |
| `TimeoutInv`, `BuildInv` | after validation every timeout is positive; nobody calls before `New` is done, and what may have been made follows from the stage | `WaitsTakeTurns` and `ClosesItsOwn` |
| `OnceInv`, `ShutInv` | one goroutine is in `closeOnce`; what is closed follows from its step or from the failed stage | a second `Close` returns only after the fourth step |
| `AfterInv` | a call begun when something was closed finds `closed` set | the flag is set before anything is taken away |
| `ReleasedInv` | who learned a status has released the gateway | `LeftBehind` |

`GatewayAccounting` counts three sets of holders. The lemma `Accounted` reduces it
to one call, one `PendingTx` and one stream: each step changes at most one
element of each set, and `open` by the difference. Of a `Config` the proofs assume
only that it has an integer timeout for each phase, and an endpoint and a host that are
sequences of tokens (`SetupAssumption`).

`VerifiesDialledHost` is in two parts. `DialInv` says that the connection was dialled for
the `Config` the client has: defaults are set before the dial and change
neither endpoint nor host. `DialsAndVerifies` is about the operators alone: an
endpoint of a documented form ends in the host, a colon and the port, after nothing or
after a scheme whose last `/` is the last of all (`EndsInHost`); `LastOccurrence` says
where `strings.LastIndex` then cuts, so `serverNameFor` returns the host, and
what `grpcTarget` puts in front leaves the end as it was (`DnsKeepsHost`).

*Identity.* `CloserInv` says that the closer is in one place: in the field, in the
local variable of the one call under way, or called. Two overlapping calls are
what breaks it.

*Classification.* The searches of `chaincodeError` return the least position that
passes a test; that one exists is `FirstOf`, from the well-foundedness of the
numbers. `CodedDecides`, `SameWhenCoded` and `UncodedGuess` then say what
`chaincodeKind` may return in terms of the set of texts alone: whether a code
decides does not depend on the order of the answers, though which of several
codes or keywords does (it is the first). The invariant says that the classified error is
one of the three forms and that its details are what the peers answered.

Only model-checked: liveness under fairness (`EventuallyHandled`, `EndReturns`,
`GatewaysReleased`, `OrderedIsSettled`, `CallsReturn`, `StoppedStreamExits`), which is out
of the prover's reach.

## Not modelled

The TLS handshake, dialling and name resolution, X.509 and PEM parsing, the PKCS#11 token,
log lines, proposal options, payloads and the wording of messages: library
calls or data that no property tells apart. `WithTarget`, the getters and the examples
keep no state. A signing function that returns an `*Error` is not modelled: none in
the repository does (`errors.go:265` would pass it through without
`OutcomeUnknown`).

## Plan

1. `EventListener`, `Delivery`, `Errors`, `Submission`, `Classification` and their
   proofs (done).
2. `BlockListener`, a second implementation of `Delivery` (done).
3. `Client` with `PendingTx`, event streams, `Config` and the observer; `Identity`
   (done).
4. Proofs for `BlockListener`, `Client` and `Classification` (done).
5. Proofs for the event listener without a start block, for `VerifiesDialledHost`, for
   `Delivery` itself and for `Identity` (done).
