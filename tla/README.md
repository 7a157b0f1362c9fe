# covclaimd in TLA+

A verification development for covclaimd, the claim daemon of this repository:
TLA+ modules of its plugins, of the executor that drives them, of the arkd
source that feeds them, of its wire format and of the process as a whole, TLC
configurations that check small instances, and TLAPS proofs of the results that
hold for every instance. Paths are relative to the repository.

## 1. The system

A maker locks a VTXO in a swap whose covenant leaf needs a preimage. covclaimd
is given the preimage sealed to its key, waits until the swap is funded, and
shows the emulator a transaction that spends the VTXO to the receiver that the
covenant names. Showing it publishes the preimage, so covclaimd must never do it
for another output, another receiver or less money than the maker sealed.

| Component | State | Operations | Interacts with | Hard part | Correct when |
|---|---|---|---|---|---|
| Reveal handler, registry (`reveal_handler.go`, `reveal_plugin.go`) | `packets`: pkScript to packet, taptree, expiry, under a mutex | `Reveal`/`Submit`, `register`, `claimIfAlreadyFunded`, `Match`, `Solve` | gRPC clients, indexer, emulator, executor | Background goroutines and the stream race for a claim while registrations come, expire and go | Only entitled claims; bounded; a funded swap is claimed; nothing dropped without cause |
| Claim engine (`claim.go`, `contract.go`, `claimer.go`, `crypto.go`, parts of `packet.go`) | none | `Decrypt`, `ValidateArkadeScript`, `findClaimClosure`, `BuildClaim` | both plugins | The checks before and after I/O must agree | What `Match` accepts `BuildClaim` builds |
| Encrypted plugin (`plugin.go`, `claimer.go`) | none between transactions | `decode`, `Match`, `Solve`, `Filter` | executor, indexer, emulator | Packet and taptree come from the same transaction as the output, in any combination | Only entitled outputs claimed, and the first of each transaction |
| Executor (`executor.go`) | goroutines, two wait groups, context | `Run`, `consume`, `safeMatch`, `safeSolve` | plugins, source | Cancellation, end of stream, panics and running Solves in any order | `Run` always returns, leaves nothing behind, reports the right error |
| arkd source (`arkdsource.go`) | a stream, a watchdog timer, a channel of capacity one | `Subscribe`, `readStream`, `reopenSubscription`, `send` | arkd, executor | Reconnection, half-open connections, slow consumers, cancellation | No gap on an open stream; comes back; closes for cause |
| Packet codec (`packet.go`, `Filter`) | none | `Serialize`, `DeserializeClaim`, `FindClaim` | both plugins, makers, arkd's filter | Lengths, order, missing and repeated fields | Reads what was written; the filter misses no packet of ours |
| Sealing side (`maker.go`, `crypto.go`) | none | `BuildPacket`, `EncryptWithAAD` | makers | none | Opens only with the key and bound it was sealed with |
| Server, gateway (`server.go`, `handler.go`) | two listeners, calls in progress | `Start`, `Stop`, routes | clients, `Reveal` | Partial start, open calls at shutdown | Its listeners do not clash; stops although a client does not |
| Entrypoint, configuration (`main.go`, `config.go`) | none | `Load`, `run` | all | Order of start and stop, signals at any time | A signal ends it; the exit status is right; a Reveal it accepted is served |

`PROJECT.json` lists the hazards of this code at their lines, each with the
properties that cover it.

## 2. The modules

| Module | What it is |
|---|---|
| `ClaimEngine`, `ClaimEngineProofs` | Values and pure functions: scripts, taptrees, sealed packets, claims; lemmas about them for the proofs of both plugins |
| `ClaimService` | Abstract specification: what covclaimd promises about the claims it shows |
| `RevealPlugin` | Handler, registry, background goroutines, consumer, and the world around them |
| `RevealPluginProofs` | Theorems about it |
| `MCSwaps` | Two swaps, alice's and bob's, for the instances of both plugins |
| `MCRevealPlugin` | Instances of `RevealPlugin`: requests about them and transactions that fund them |
| `EncryptedPlugin`, `MCEncryptedPlugin`, `EncryptedPluginProofs` | The plugin that reads packets off the stream, its instances, and theorems about it |
| `PacketCodec`, `MCPacketCodec`, `PacketCodecProofs` | The wire format, the loop that reads it and the filter; its instance; theorems |
| `Executor`, `ExecutorProofs` | `Run` and its consumers, for any number of plugins |
| `ArkdSource`, `ArkdSourceProofs` | One subscription, filtered or not |
| `Covclaimd`, `MCCovclaimd`, `CovclaimdProofs` | The process: configuration, servers and executor composed with `RevealPlugin`; its instance; theorems about it |

`RevealPlugin` and `EncryptedPlugin` extend `ClaimEngine`, and both are shown to
implement `ClaimService`. `Covclaimd` instantiates `RevealPlugin` and takes its
actions, and is shown to implement `Executor`.

### ClaimEngine

The code works on bytes. Here a hash, a tweaked key, a taproot key and a script
template are constructors, so equal values have equal contents. This is what the
code assumes of HASH160, of key tweaking and of taproot. A ciphertext is a
record of the plaintext, the key it was sealed to and the bound authenticated
with it; `DecryptWithAAD` opens it only with that key and that bound, which is
what AES-GCM gives. `EncryptWithAAD` and `BuildPacket` are what makers call, and
the instances seal with them. `None` is Go's nil, an absent field, or the error of a parsing function;
errors are not told apart, because no caller does. A taptree that does not
decode is one outside `DOMAIN Closures`. `Unbuildable` is the re-validation at the
start of `BuildClaim` (`claim.go:43-69`). What may fail after it, encoding the leaf,
its merkle proof, the extension and the PSBTs (`claim.go:71-147`), is the work of
libraries on values that were checked, and is left out; `MatchedClaimsBuild` says
nothing of it.

### ClaimService

`known` is the set of offers (packet and taptree) covclaimd was given by `Learn`, and
`published` the set of claims it showed. The only way to publish is `Publish`:
for an output under the offer's own script, with at least the value that was
*sealed* (not the one written next to the ciphertext), paying all of it to the
receiver that the script enforces, by a leaf locked with the hash of that
preimage and the emulator's key tweaked for that receiver. It is written without
the functions by which the plugins decide.

### RevealPlugin

A step is one critical section of the registry's mutex, one call to the indexer
or the emulator, or local work between two of these. A goroutine's state `go[g]`
is where it is and what it carries; a background goroutine is a slot of
`Background`, a Solve of the stream bears the name of its transaction.

| State | Code |
|---|---|
| `lookup` | before `GetVtxos` in `claimIfAlreadyFunded` |
| `scan`, with output `vout` | an iteration of the loop of `matchRegistered`, which locks the mutex for each output |
| `gate` | before `GetVtxos` in `gateSpendable` |
| `claim` | before `SubmitTx` in `claim` |
| `remove` | the emulator accepted; before `delete` in `Solve` |

`RevealAccepted`, `RevealRefused` and `RevealInvalid` are the three results of
`Reveal`. A refusal keeps what it purged, as in the code; an invalid request
changes nothing. Registering, purging and replacing are one step, under one
lock. `CallFails` is an error of the call a goroutine waits for: in `claim` the
emulator never saw it, in `remove` it was accepted and the answer was lost.
`Timeout` is `claimTimeout`. `Crash` loses the registry and the goroutines.
`Miss` is a transaction that comes while the subscription is broken, `Overtake`
one that the indexer does not know yet when the stream shows it; `faults` counts
them with the failed calls and the crashes.
`now` is a clock in ticks. `GetVirtualTxs` after `GetVtxos` is one step with it:
transactions do not change.

The indexer, the stream and the owners of outputs are `Index`, `Stream` and
`Withdraw`. The emulator accepts a claim of an output that is still spendable.
`accepted` and `submitted` are histories for the refinement.

### EncryptedPlugin

`Decode` is what `decode` returns for each transaction: the first output that
`matchOutput` accepts. `Receive` does it on the consumer, `GateSpendable` asks
the indexer, `SubmitTx` is Solve. The packet is the result of `FindClaim`; the
TaprootTapTree of each output is a datum of its own and need not fit the
output.

### Executor

A plugin is an index, its stream a sequence of items, of which some are nil.
`main` is the place of `Run`: `draining` is the `<-done` of the cancellation
case. A consumer is in its `loop`, `matching` (Match runs on the consumer's goroutine),
`draining` in the deferred `wg.Wait`, or `done`. When both cases of a select are
ready, either is taken. Match declines, panics or succeeds; a Solve returns or
panics, which is the same step.

### ArkdSource

Transactions are numbered in the order arkd makes them; 0 on the wire stands for
a heartbeat or an event without a readable transaction. `filtered` is chosen at
the start. Time is counted only while the goroutine waits: `quiet` since the
last Recv, `since` since the last event. An open stream carries an event every
`Heartbeat` ticks; the goroutine's own work takes no time. Canceling a stream
loses any suffix of the events not yet received. Backoff delays are left out: an
attempt may come at any time. Half-open connections of the unfiltered stream are
client-lib's concern and not modelled. The end of a stream stops its timer and
loses its events (`NoStream`), as the two deferred calls of `readStream` do.

`main.go:131` builds the source without `WithSubscriptions`, so covclaimd reads the
unfiltered stream today. What the runs and theorems say of the filtered one,
`EndsForCause`, `DownComesBack` and `StaleMeansDead`, and `FilterMissesNone` of the
filter it would carry, is about code that is there and not yet wired.

### PacketCodec

A body is a sequence of bytes, a byte a number below `Base`. `DeserializeClaim`
is a loop: `ReadTLV` is one iteration, `RefuseTLV` an error in it, `Finish` the
checks after it. The initial states have a packet that a maker serialized or a
list of TLVs that another sender wrote, whole or with a part of the last one lost;
a longer cut is the same of a shorter list. `wire` keeps what the
sender meant, `data` the bytes; `EncodeTLV` cuts lengths to two bytes as the code
does. `FilterSelects` is the `contains` of the CEL expression, over hexadecimal
digits, so it may also match at an odd digit. `FindClaim`, which picks the body
out of the extension, is the `Extensions` of `EncryptedPlugin`.

### Covclaimd

| State | Code |
|---|---|
| `phase` | where `run` is: `load`, `connect`, `listen`, `running` (the executor), `stopHTTP` (in `Shutdown`), `stopGRPC` (in `GracefulStop`), `exited` |
| `main`, `result`, `consumer`, `received` | `Executor.Run` and `consume`, with one plugin |
| `listener` | the gRPC port is bound in `Start`, the HTTP port by a goroutine later |
| `calls` | calls of clients in progress, at most one on each transport |
| `held`, `hung` | ports of other processes; the indexer and the emulator have stopped answering |

`Configure` is `config.Load` over the chosen environment: values are parsed
already, `Unset` is the empty string and `None` one that does not parse. `Connect`
is everything from the clients to the plugins; what it can do is succeed or fail.
`Answer` ends a call, with a `Reveal` or without one. The goroutines of the
executor work under the context of `run`, so after a signal any call they make
may end (`Abort`); those of Submit have a deadline of their own (`Timeout`), are
not waited for, and die with the process. The stream reaches the plugin from its
subscription on; what arkd sends before is `Unheard`.

The goroutines of the executor are translated once more here, with the plugin in
the place of the interface. `ImplementsExecutor` maps them to `Executor` with
one plugin: a transaction is its position in `received`, `matching` is any state
of the consumer's `Match` (`ConsumerAt`), and in flight are the transactions
whose goroutine is not idle (`Solves`).

## 3. The runs

All runs disable the deadlock check, because these systems may stop: clients
send nothing more, the clocks and fault counters are bounded, a source has sent its
last item, `Run` has returned.

| Run | Shows |
|---|---|
| `RevealClaims` | `IInv`, and that `RevealPlugin` implements `ClaimService` |
| `RevealRegistry` | types, `MatchedClaimsBuild`, `RegistryBounded`, `RefusedOnlyWhenFull`, `RemovedOnlyForCause` |
| `RevealFunded` | `FundedIsClaimed`: no wake-up is lost between Reveal, lookup and stream; `RetriedIsClaimed`: repeating the Reveal makes up for failed calls, crashes, gaps and a late indexer |
| `Encrypted` | types, `MatchedClaimsBuild`, that `EncryptedPlugin` implements `ClaimService`, and `EntitledIsClaimed` |
| `Executor` | `IInv`, `ReturnIsQuiet`, `AllClosedMeansAllHandled`; `SentIsTaken`, `CanceledReturns`, `AllClosedReturns` |
| `Source` | types, `PassedOnceInOrder`, `NothingLostWhileOpen`, `EndsForCause`; `CanceledCloses`, `DownComesBack` |
| `Codec` | types, `IInv`, `ReadsWhatWasWritten`, `SerializedIsReadBack`, `FilterMissesNone` |
| `Covclaimd` | types, `IInv`, `DrainedBeforeClose`, `GatewayFailsForCause`, `ExitTellsWhy`; `ImplementsExecutor`; `CanceledExits`, `BackgroundFinishes`, `ServedIsClaimed` |

Four runs end in a counterexample, where the code does something else than a
sentence of the repository says:

| Run | The code | The sentence |
|---|---|---|
| `RevealBatch` | claims one output at most of a streamed transaction that pays several registered addresses | `README.md:46-48` |
| `RevealExpired` | matches a registration past its TTL until the next Reveal purges it | `README.md:112` |
| `RevealRepeat` | lets a packet without the bound replace one with it, so that an output below the bound becomes claimable | `README.md:110-112` |
| `SourceStale` | counts the time a slow consumer takes as silence of arkd | `arkdsource.go:303-306` |

More limits of the code are left out of the instances, or named in a property,
instead of having a run of their own:

- The encrypted plugin claims only the first entitled output of a transaction
  (`plugin.go:137`), so no instance has two.
- The background lookup fetches the transaction of the first VTXO the indexer
  lists (`reveal_plugin.go:130`). An address funded twice, first with too little,
  is not claimed if that one is listed first, so the liveness runs have one
  output per address.
- The reveal plugin keeps a registration after a failed claim but has no retry of
  its own (`reveal_plugin.go:166`): `FundedIsClaimed` ends at the first failure,
  and `RetriedIsClaimed` asks the maker to repeat the Reveal.
- The servers start before the executor subscribes (`main.go:124`). A swap that
  is funded after the lookup of its Reveal and before the subscription is on no
  stream; `WillBeSeen` in `ServedIsClaimed` says so.
- A call to the indexer that hangs on the stream's goroutine stops all claims
  from the stream until the process is told to end (`claimer.go:124`).
- `GracefulStop` has no deadline (`server.go:91`): a gRPC call that never ends
  keeps the process. `CanceledExits` assumes that gRPC clients complete theirs.
- A field of 2^16 bytes or more is written with a length that is not its own
  (`packet.go:184`); the properties of `PacketCodec` speak of fields that fit.

### Bounds

Two swaps of one taptree each, two background goroutines and two transactions
are enough for every pair of actors to race for a claim and for a place in the
registry, whose capacity is one or two so that it is full, overwritten and
refused. `BadRequests` has one request for each way in which a packet, a script,
an address and a taptree can disagree. TTL is 0 or 1 tick and the clock goes to
2, so an entry is seen before, at and after its expiry. `MaxFaults = 1` is one
failed call or one crash at any point. A background goroutine is a slot: a
Reveal waits while both are busy, which bounds the requests in flight, not their
order. `BackgroundSymmetry` permutes the two slots, in safety runs only.

The runs divide these among them. `RevealClaims` has one swap funded
twice and no faults; `RevealRegistry` has both swaps, faults and time;
`RevealFunded` has one output, a second maker who competes for the one place in
the registry, and two faults, so that a retry may fail as well; with two outputs
in a transaction the property fails (`RevealBatch`).

`Encrypted` has a transaction whose entitled output comes after one that carries
too little and one that does not derive from its taptree, a packet of the older
shape after an output without the claim leaf, and a packet for another covclaimd.

Two plugins and two items per stream give the executor every order of the ends
of its consumers, and "one ended" is not yet "all ended". Four transactions fill
the source's channel, its hand and its wire with one to spare; `StaleTimeout = 3`
and `Heartbeat = 1` are the proportion in the code (three minutes, one minute).

`Codec` has bytes below nine, keys of three bytes and amounts of two, so that a
field of 80 bytes has the longest length there is and one of 81 overflows it.
Foreign bodies have every list of at most three of nine TLVs, right and wrong,
and up to two bytes of the end are lost, which cuts into values and into headers;
one has all fields in the order opposite to `Serialize`.

`Covclaimd` has one swap, one environment that `Load` accepts and ten that each have one
thing wrong, among them two equal ports and each end of the checks; each port
of covclaimd may be held by another process. One call comes in, over either
transport, and may be a Reveal or never end. Owners do not withdraw and no call
fails but by the hang or the cancellation: `RevealPlugin` has these. Time stands still, so the registration
does not expire.

### Fairness

- `RevealPlugin!FairSpec`: each goroutine goes on, each call is answered, and
  the stream carries what the indexer knows. Goroutines are scheduled by Go; the
  rest is an assumption about arkd. `IndexerLeads` adds that a transaction is in
  the indexer before it is on the stream: otherwise the gate declines it for
  good. Clients, owners and the clock are not fair.
- `RetriedIsClaimed` has the maker's persistence as a hypothesis: infinitely many
  accepted Reveals for the address.
- `Covclaimd!FairSpec`: `run`, the consumer and the goroutines go on, the
  indexer and the emulator answer until they hang, timers fire, gRPC clients
  complete their calls. HTTP clients, signals, the hang, the end of the stream
  and the binding of the HTTP port are free.
- `EncryptedPlugin!FairSpec`: the same as the first, and the indexer leads. A
  failed call is an excuse in `EntitledIsClaimed`.
- `Executor!FairSpec`: goroutines go on, Match and Solve return. Sources,
  cancellation and the choice of select are free.
- `ArkdSource!FairSpec`: goroutine, timer and clock go on, arkd heartbeats an
  open stream, accepts a subscription in the end, and the executor takes what is on the
  channel *until* the context is canceled.

## 4. The proofs

TLAPS proves, for every value of the constants that their assumptions allow:

| Theorem | States |
|---|---|
| `RevealPluginProofs!Invariance` | `Spec => []IInv` |
| `RevealPluginProofs!TypeCorrect`, `BuildNeverFails` | `[]TypeOK`, `[]MatchedClaimsBuild` |
| `RevealPluginProofs!CapacityHolds`, `RefusalIsHonest` | `[]RegistryBounded`, `[]RefusedOnlyWhenFull` |
| `RevealPluginProofs!RemovalHasCause` | `Spec => RemovedOnlyForCause` |
| `RevealPluginProofs!Refinement` | `Spec => ImplementsClaimService` |
| `ExecutorProofs!Invariance`, `RunWaitsForSolves`, `NothingLeftBehind` | `[]IInv`, `[]ReturnIsQuiet`, `[]AllClosedMeansAllHandled` |
| `EncryptedPluginProofs!TypeCorrect`, `BuildNeverFails` | `[]TypeOK`, `[]MatchedClaimsBuild` |
| `EncryptedPluginProofs!Refinement` | `Spec => ImplementsClaimService` |
| `PacketCodecProofs!Invariance`, `ReadsWithinBody` | `[]IInv`, `[]TypeOK` |
| `PacketCodecProofs!ReaderRefusesOrReads`, `RoundTrip` | `[]ReadsWhatWasWritten`, `[]SerializedIsReadBack` |
| `PacketCodecProofs!NoFalseNegative` | `[]FilterMissesNone` |
| `ArkdSourceProofs!FilteredEndsForCause`, `TypeCorrect` | `[]EndsForCause`, `[]TypeOK` |
| `ArkdSourceProofs!OrderKept`, `NothingLost` | `[]PassedOnceInOrder`, `[]NothingLostWhileOpen` |
| `CovclaimdProofs!Invariance`, `TypeCorrect` | `[]IInv`, `[]TypeOK` |
| `CovclaimdProofs!DrainsBeforeClose`, `GatewayForCause`, `ExitForCause` | `[]DrainedBeforeClose`, `[]GatewayFailsForCause`, `[]ExitTellsWhy` |
| `CovclaimdProofs!Refinement` | `Spec => ImplementsExecutor` |
| `CovclaimdProofs!ClaimServiceKept` | `Spec => P!ImplementsClaimService`, where `P` is the plugin in the process |

**Assumptions.** Outputs and leaves are lists with integer values and natural
positions (`OutputsAssumption`, `ClosuresAssumption`); a bound that passes the
handler is a natural number or absent (`RequestsAssumption`); capacities and
bounds are natural numbers (`BoundsAssumption`, `ExecutorAssumption`); a key is
a list of bytes, of a length that one byte can hold, and so is a type
(`FormatAssumption`: 33, 4 and 256 in the code); fields and values are lists of
bytes and `minAmount` is a uint64 (`WiresAssumption`); the bound of a packet is a
natural number or absent (`ExtensionsAssumption`); the consumer is not one of the
goroutines of Solve (`ConsumerAssumption`). `Covclaimd` assumes of the constants
it hands on what `RevealPlugin` assumes (`PluginAssumption`), and of goroutines
that those of Submit, of Solve and the consumer are different, and that there are
finitely many transactions (`GoroutinesAssumption`), which the bound of `Executor`
on what a source sends needs. Nothing bounds their number or size.

**The argument for the reveal plugin.** `MatchedClaimsBuild` says something of
claims in flight only, and is not inductive: a claim comes from the registry,
so the registry must hold accepted offers under their own scripts
(`RegistrationsBindTheirAddress`), and a goroutine keeps the claim it made while
the registry changes under it (`ClaimsInFlightAreEntitled`). An accepted offer
never stops being one, so the history `accepted` carries what was true at
registration to the moment of publication: the registry may be purged,
overwritten or lost in between. `IInv` is the conjunction, with
`RemovalFollowsAcceptance` for the removal property and `SubmittedAreEntitled`
for the refinement. Each action has its lemma, and each lemma one step per conjunct
it can disturb. For the refinement, `RevealAccepted` is `Learn`, a
`SubmitTx` that shows a new claim is `Publish`, and any other step leaves both
variables alone. It follows that the branch of `SubmitTx` for a claim that
cannot be built is never taken.

**The argument for the executor.** `ReturnIsQuiet` needs that a consumer which
ended left no Solve, that `Run` waits only once every plugin was subscribed or
skipped, and that no consumer starts again; `AllClosedMeansAllHandled` needs
that a consumer leaves only on a cancellation, which is not taken back, or at
the end of its stream, to which nothing is added.

**The argument for the encrypted plugin.** It is that of the reveal plugin with a
transaction in the place of the registry: what `Match` returns comes from an
output, a packet and a taptree of one transaction, which the consumer has taken
(`TaptreeOf`). A transaction that was taken is known to `ClaimService` for good,
so the claim stays entitled from `Match` to `SubmitTx` without an invariant on
anything that may be withdrawn.

**The argument for the source.** `Line` is everything between arkd and the
consumer, in order: taken, in the channel, in the goroutine's hand, on the wire.
`PassedOnceInOrder` says that it increases. Receiving, sending and taking only
move the cut between its parts; a heartbeat adds nothing that counts; a
transaction is put behind it; and a break cuts off its end, which keeps the order
of the rest. `NothingLostWhileOpen` needs that what arkd made since a stream
opened is in `Line`, that a stream opens with `openedAt` at the last transaction,
and that nothing is cut off a stream that works. `TypeOK` ties the stream to the
goroutine: without one that reads there is no stream, no event and no time on its
timer.

**The argument for the process.** The plugin takes its own steps, with two that
`RevealPlugin` does not have: a call that the signal ends without counting as a
fault (`LetGo`), and a transaction that nobody hears (`Missed`). Both keep the
plugin's `IInv` and are stutters of `ClaimService`, so the invariant and the
promise carry over. The first part of the module shows that the two
instances of `RevealPlugin` in it, the one the process is composed with and the
one its theorems come with, are the same operator by operator.
`DrainedBeforeClose` is not inductive. It needs that a Solve is at work only for
a transaction that was taken and that the consumer is in `Match` only in its loop
(`SolvesAreTaken`), that `Run` returns only after the consumer (`InStep`), and
`ExitTellsWhy` needs that nothing is sent after the close and that a
cancellation stays. `GatewayFailsForCause` needs that the ports differ
(`ListenersApart`). The refinement of `Executor` also needs `TakenOnce`: in flight is
a set of positions, so if a transaction were taken twice the end of its Solve would
be two steps of `Executor`. A step of a goroutine is the end of Match
or of Solve if it leaves the goroutine idle or passes the claim on, and no step
of `Executor` otherwise.

**The argument for the wire format.** `ReadsWhatWasWritten` speaks of the end of
the loop. `IInv` says where the loop is in between: behind the first `k` TLVs,
with what those amount to (`Between`). What is read there is the next TLV, because
what is written later comes behind (`BytesOfPrefix`, `TLVInBytes`) and two
bytes hold the length of a field that fits (`LengthFits`); if a part of it was lost,
`Complete` fails. `StoredIsWritten` is the switch: one more TLV changes what
was written as it changes the packet. That needs minAmountBytes and BigEndian
to be inverse of each other on all uint64 and all lists of eight bytes
(`AmountIsReadBack`, `AmountOfBytes`). `RoundTrip` follows, as what `Serialize`
writes is well formed and amounts to the packet (`SealedIsWritten`).
The bytes of a list and the values of BigEndian are recursive functions;
`Recursion` shows once that such a definition has a solution, and `UpTo` is the induction,
by the first position that would be an exception: the induction theorems
of the library take a predicate, which the provers cannot instantiate, and a set
serves as well.

**The argument for the filter.** `FilterMissesNone` speaks of the packet at the
end of the loop. `KeyIsInBody` is the invariant: a key that was read is in the
body, behind its type and a length of `KeyLen`. As `KeyLen` is below
`Base`, those two length bytes can only be zero and `KeyLen`, which are the ones
the needle has; equal bytes have equal digits, so the needle occurs at twice the offset.

**Model-checked only.** Liveness (`FundedIsClaimed`, `RetriedIsClaimed`,
`BackgroundFinishes`, `CanceledExits`, `ServedIsClaimed`, `EntitledIsClaimed`,
`SentIsTaken`, `CanceledReturns`, `AllClosedReturns`, `CanceledCloses`,
`DownComesBack`) is out of the prover's reach. Every other property of a passing run is the
statement of a theorem above. The theorems about `Spec` hold of `FairSpec`, which
implies it.

## 5. Not modelled

- Formats and messages: hex, base64, PSBT and address encodings, log lines.
  They are functions of the values, and a failure of one is an invalid request
  or a transaction that is not one.
- The routes of the gateway in detail: JSON bodies and the mapping of gRPC codes to HTTP
  status; `GetCovclaimdPubKey`, which returns two constants. Generated code.
- The encrypted plugin in `Covclaimd`: the two plugins share no state, `Executor`
  has several, and the outpoint both may claim is the emulator's to decide.
- A second signal, and a signal before `signal.NotifyContext`, which ends the process
  by the default of the runtime.
- The length of the backoff and its jitter.
- The log of `Executor` and a nil logger.

## 6. Plan

Done: every module of section 2, and the theorems of section 4.

1. `CovclaimdProofs`: the theorems of `ExecutorProofs` for the process, through
   its refinement.
2. `Source`: the contract of `executor.Source`, implemented by `ArkdSource` and
   assumed by `Executor`.
