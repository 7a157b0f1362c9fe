---------------------------- MODULE RevealPlugin ----------------------------
(***************************************************************************)
(* The reveal plugin (pkg/preimage/reveal_plugin.go) with the Reveal       *)
(* handler in front of it and the consumer goroutine of the executor that  *)
(* drives it.  A maker hands a sealed preimage over with Reveal; it is     *)
(* registered under the pkScript of the swap address and claimed either by *)
(* the goroutine that Submit starts (the swap was already funded) or by    *)
(* the consumer of the transaction stream (it is funded later).            *)
(*                                                                         *)
(* Each step is a critical section of the registry's mutex, one call to    *)
(* the indexer or the emulator, or local computation between two of these. *)
(***************************************************************************)
EXTENDS ClaimEngine, Functions

CONSTANTS
  Requests,          \* the RevealRequests that clients may send
  Background,        \* slots for the goroutines that Submit starts
  Consumer,          \* the goroutine of Executor.consume for this plugin
  MaxRegistrations,  \* maxRegistrations
  RegistrationTTL,   \* registrationTTL, in ticks of the clock
  IndexerLeads,      \* TRUE: but for a fault, the indexer knows a tx before
                     \* the stream shows it
  TimeoutsHappen,    \* TRUE: claimTimeout may fire in a background goroutine
  MaxTime,           \* bound of the model: ticks of the clock
  MaxFaults          \* bound of the model: failed calls and crashes together

ASSUME BoundsAssumption ==
  /\ MaxRegistrations \in Nat \ {0}
  /\ RegistrationTTL \in Nat
  /\ MaxTime \in Nat
  /\ MaxFaults \in Nat

\* Solve for a transaction of the stream runs in a goroutine of its own, which
\* bears the name of the transaction.
Goroutines == Background \cup Txs \cup {Consumer}

VARIABLES
  packets,    \* RevealPlugin.packets: pkScript |-> registration
  up,         \* the process is running
  go,         \* what each goroutine is doing
  now,        \* the clock
  stream,     \* transactions sent on the arkd stream, not yet received
  streamed,   \* transactions that the stream has already carried
  indexed,    \* transactions the indexer knows
  claimed,    \* outpoints spent by a claim the emulator accepted
  withdrawn,  \* outpoints their owner spent in another way
  faults,     \* failed calls and crashes so far
  accepted,   \* history: every offer that Reveal accepted
  submitted   \* history: every claim shown to the emulator

plugin  == <<packets, up, go>>
chain   == <<stream, streamed, indexed, claimed, withdrawn>>
history == <<accepted, submitted>>
vars    == <<plugin, now, chain, faults, history>>

Idle == [pc |-> "idle", key |-> None, tx |-> None, vout |-> 0, claim |-> None]

Looking(key)      == [Idle EXCEPT !.pc = "lookup", !.key = key]
Scanning(tx, i)   == [Idle EXCEPT !.pc = "scan", !.tx = tx, !.vout = i]
Gating(m)         == [Idle EXCEPT !.pc = "gate", !.claim = m]
Claiming(m)       == [Idle EXCEPT !.pc = "claim", !.claim = m]
Removing(m)       == [Idle EXCEPT !.pc = "remove", !.claim = m]

Init ==
  /\ packets = [k \in {} |-> None]
  /\ up = TRUE
  /\ go = [g \in Goroutines |-> Idle]
  /\ now = 0
  /\ stream = <<>>
  /\ streamed = {} /\ indexed = {} /\ claimed = {} /\ withdrawn = {}
  /\ faults = 0
  /\ accepted = {} /\ submitted = {}

-----------------------------------------------------------------------------
(***************************************************************************)
(* The registry and the handler that fills it.                             *)
(***************************************************************************)
Expired(r) == now > r.expireAt

\* A purge that drops a registration in the tick it expires in.
Purged_TooEarly ==
  Restrict(packets, {k \in DOMAIN packets : now < packets[k].expireAt})

\* A registry that is never purged.
Purged_Never == packets

Purged == Restrict(packets, {k \in DOMAIN packets : ~ Expired(packets[k])})

\* The capacity test is off by one.
Full_OneMore(registry, key) ==
  key \notin DOMAIN registry /\ Cardinality(DOMAIN registry) > MaxRegistrations

Full(registry, key) ==
  key \notin DOMAIN registry /\ Cardinality(DOMAIN registry) >= MaxRegistrations

Registration(q) ==
  [packet |-> q.packet, taptree |-> q.taptree, expireAt |-> now + RegistrationTTL]

Registered(registry, key, r) ==
  [k \in DOMAIN registry \cup {key} |-> IF k = key THEN r ELSE registry[k]]

\* The checks the handler makes before it calls Submit.
WellFormed(q) ==
  /\ q.packet # None
  /\ q.packet.ciphertext # None
  /\ q.packet.arkadeScript # None
  /\ q.packet.minAmount # 0
  /\ q.swapAddress # None
  /\ q.taptree # None

\* The bound of a request is an optional uint64.
ASSUME RequestsAssumption ==
  \A q \in Requests : WellFormed(q) => q.packet.minAmount \in Nat \cup {None}

Key(q) == P2TRScript(q.swapAddress)

\* The claim leaf is left to BuildClaim to find.
ValidateAddress_NoLeaf(q) ==
  q.taptree \in DOMAIN Closures /\ PkScriptOf(q.taptree) = Key(q)

ValidateAddress(q) ==
  /\ q.taptree \in DOMAIN Closures
  /\ PkScriptOf(q.taptree) = Key(q)
  /\ HasClaimClosure(q.taptree, q.packet.arkadeScript, Decrypt(q.packet))

Acceptable(q) == WellFormed(q) /\ Decrypt(q.packet) # None /\ ValidateAddress(q)

\* No goroutine: a swap funded earlier is left to the stream.
Started_Not(b, key) == go

\* The goroutine starts before its key is known.
Started_NoKey(b, key) == [go EXCEPT ![b] = Looking(None)]

\* The goroutine that looks for a swap funded before it was registered.
Started(b, key) == [go EXCEPT ![b] = Looking(key)]

\* InvalidArgument: nothing changes.
RevealInvalid(q) == up /\ ~ Acceptable(q) /\ UNCHANGED vars

\* ResourceExhausted: what was purged stays purged.
RevealRefused(q) ==
  /\ up /\ Acceptable(q) /\ Full(Purged, Key(q))
  /\ packets' = Purged
  /\ UNCHANGED <<up, go, now, chain, faults, history>>

RevealAccepted(q, b) ==
  /\ up /\ Acceptable(q) /\ ~ Full(Purged, Key(q))
  /\ go[b] = Idle
  /\ packets' = Registered(Purged, Key(q), Registration(q))
  /\ go' = Started(b, Key(q))
  /\ accepted' = accepted \cup {[packet |-> q.packet, taptree |-> q.taptree]}
  /\ UNCHANGED <<up, now, chain, faults, submitted>>

-----------------------------------------------------------------------------
(***************************************************************************)
(* What the indexer answers (GetVtxos by script, spendable only).          *)
(***************************************************************************)
Spendable(o) == o.tx \in indexed /\ o \notin claimed \cup withdrawn

VtxosOf(key) == {o \in Outpoints : OutputAt(o).pkScript = key /\ Spendable(o)}

Set(g, state) == [go EXCEPT ![g] = state]

-----------------------------------------------------------------------------
(***************************************************************************)
(* The goroutines.  A background goroutine runs lookup, scan, gate, claim  *)
(* and remove; the consumer runs scan and gate for each transaction of the *)
(* stream and leaves claim and remove to a goroutine for that transaction. *)
(***************************************************************************)
\* GetVtxos for the registered script, then GetVirtualTxs for the transaction
\* of the first vtxo listed; the order of the list is the indexer's.
ClaimIfAlreadyFunded(b) ==
  /\ go[b].pc = "lookup"
  /\ \/ VtxosOf(go[b].key) = {} /\ go' = Set(b, Idle)
     \/ \E first \in VtxosOf(go[b].key) : go' = Set(b, Scanning(first.tx, 1))
  /\ UNCHANGED <<packets, up, now, chain, faults, history>>

\* The consumer takes the next transaction off its channel.
Receive ==
  /\ up /\ go[Consumer] = Idle /\ stream # <<>>
  /\ go' = Set(Consumer, Scanning(Head(stream), 1))
  /\ stream' = Tail(stream)
  /\ UNCHANGED <<packets, up, now, streamed, indexed, claimed,
                 withdrawn, faults, history>>

\* The bound of the registered packet is not compared with the output.
Claimable_AnyValue(o) ==
  LET key == OutputAt(o).pkScript
  IN  key \in DOMAIN packets /\ Decrypt(packets[key].packet) # None

\* The registration that output o satisfies is in the registry.
Claimable(o) ==
  LET key == OutputAt(o).pkScript
  IN  /\ key \in DOMAIN packets
      /\ ~ Underfunds(packets[key].packet, OutputAt(o).value)
      /\ Decrypt(packets[key].packet) # None

\* One iteration of the loop of matchRegistered, or its end.
MatchRegistered(g) ==
  LET o == [tx |-> go[g].tx, vout |-> go[g].vout]
      r == packets[OutputAt(o).pkScript]
  IN  /\ go[g].pc = "scan"
      /\ \/ /\ o \notin Outpoints
            /\ go' = Set(g, Idle)
         \/ /\ o \in Outpoints /\ ~ Claimable(o)
            /\ go' = Set(g, Scanning(o.tx, o.vout + 1))
         \/ /\ o \in Outpoints /\ Claimable(o)
            /\ go' = Set(g, Gating(MatchedClaim(o, r.packet, r.taptree)))
      /\ UNCHANGED <<packets, up, now, chain, faults, history>>

\* Only the executor calls Solve.
Solving_NotBackground(g, m) ==
  IF g = Consumer
    THEN [go EXCEPT ![Consumer] = Idle, ![m.outpoint.tx] = Claiming(m)]
    ELSE Set(g, Idle)

\* Match returned a claim: the consumer starts a goroutine for Solve, a
\* background goroutine goes on with it.
Solving(g, m) ==
  IF g = Consumer
    THEN [go EXCEPT ![Consumer] = Idle, ![m.outpoint.tx] = Claiming(m)]
    ELSE Set(g, Claiming(m))

GateSpendable(g) ==
  /\ go[g].pc = "gate"
  /\ go' = IF VtxosOf(go[g].claim.pkScript) = {}
             THEN Set(g, Idle)
             ELSE Solving(g, go[g].claim)
  /\ UNCHANGED <<packets, up, now, chain, faults, history>>

\* Solve: BuildClaim, then SubmitTx.  The preimage leaves covclaimd whatever
\* the emulator answers; it accepts the claim of an output not spent yet.
SubmitTx(g) ==
  LET m == go[g].claim
  IN  /\ go[g].pc = "claim"
      /\ IF Unbuildable(m)
           THEN /\ go' = Set(g, Idle)
                /\ UNCHANGED <<claimed, submitted>>
           ELSE /\ go' = Set(g, IF Spendable(m.outpoint) THEN Removing(m) ELSE Idle)
                /\ claimed' = claimed \cup {o \in {m.outpoint} : Spendable(o)}
                /\ submitted' = submitted \cup {BuildClaim(m)}
      /\ UNCHANGED <<packets, up, now, stream, streamed, indexed, withdrawn,
                     faults, accepted>>

\* The keys left once the claim m has been answered with success.
KeysWithout(m) == DOMAIN packets \ {m.pkScript}

Remove(g) ==
  /\ go[g].pc = "remove"
  /\ packets' = Restrict(packets, KeysWithout(go[g].claim))
  /\ go' = Set(g, Idle)
  /\ UNCHANGED <<up, now, chain, faults, history>>

\* The lookup does not run under claimTimeout.
Waiting_NotLookup(g) == go[g].pc \in {"gate", "claim", "remove"}

\* A goroutine that waits for the indexer or the emulator.  In "remove" it
\* waits for the answer of SubmitTx.
Waiting(g) == go[g].pc \in {"lookup", "gate", "claim", "remove"}

\* The call of g returns an error and g returns on it; in "claim" the call never
\* reached the emulator, in "remove" the claim was accepted and the answer lost.
Abort(g) ==
  /\ Waiting(g)
  /\ go' = Set(g, Idle)
  /\ UNCHANGED <<packets, up, now, chain, history>>

CallFails(g) ==
  /\ Abort(g) /\ faults < MaxFaults
  /\ faults' = faults + 1

\* claimTimeout ends whatever call the background goroutine is in.
Timeout(b) == TimeoutsHappen /\ Abort(b) /\ UNCHANGED faults

-----------------------------------------------------------------------------
(***************************************************************************)
(* The world around the plugin.                                            *)
(***************************************************************************)
\* A transaction reaches the indexer.
Index(t) ==
  /\ t \notin indexed
  /\ indexed' = indexed \cup {t}
  /\ UNCHANGED <<plugin, now, stream, streamed, claimed, withdrawn, faults, history>>

\* arkd sends it on its stream, once and to whoever is subscribed.
Carried(t) ==
  /\ t \notin streamed
  /\ streamed' = streamed \cup {t}
  /\ UNCHANGED <<plugin, now, indexed, claimed, withdrawn, history>>

InOrder(t) == IndexerLeads => t \in indexed

Stream(t) ==
  /\ up /\ InOrder(t) /\ Carried(t)
  /\ stream' = Append(stream, t)
  /\ UNCHANGED faults

\* Nothing is replayed to a covclaimd that is down, or between two connections.
Unheard(t) == InOrder(t) /\ Carried(t) /\ UNCHANGED <<stream, faults>>

\* A fault of the connection: the subscription is broken when t comes.
Miss(t) == up /\ InOrder(t) /\ Carried(t) /\ UNCHANGED stream

\* A fault of the indexer: it lags behind the stream.
Overtake(t) == up /\ ~ InOrder(t) /\ Carried(t) /\ stream' = Append(stream, t)

StreamFault(t) ==
  /\ faults < MaxFaults
  /\ Miss(t) \/ Overtake(t)
  /\ faults' = faults + 1

\* The owner of an output spends it by another leaf, a refund for instance.
Withdraw(o) ==
  /\ Spendable(o)
  /\ withdrawn' = withdrawn \cup {o}
  /\ UNCHANGED <<plugin, now, stream, streamed, indexed, claimed, faults, history>>

Tick ==
  /\ now < MaxTime
  /\ now' = now + 1
  /\ UNCHANGED <<plugin, chain, faults, history>>

\* The registry lives in memory: a crash loses it, with every goroutine and
\* everything received and not yet handled.
Crash ==
  /\ up /\ faults < MaxFaults
  /\ faults' = faults + 1
  /\ up' = FALSE
  /\ packets' = [k \in {} |-> None]
  /\ go' = [g \in Goroutines |-> Idle]
  /\ stream' = <<>>
  /\ UNCHANGED <<now, streamed, indexed, claimed, withdrawn, history>>

Restart ==
  /\ ~ up
  /\ up' = TRUE
  /\ UNCHANGED <<packets, go, now, chain, faults, history>>

-----------------------------------------------------------------------------
Reveal ==
  \E q \in Requests :
    RevealInvalid(q) \/ RevealRefused(q) \/ \E b \in Background : RevealAccepted(q, b)

Run(g) ==
  \/ MatchRegistered(g) \/ GateSpendable(g) \/ SubmitTx(g)
  \/ Remove(g) \/ CallFails(g)

Environment ==
  \/ \E t \in Txs : Index(t) \/ Stream(t) \/ (~ up /\ Unheard(t)) \/ StreamFault(t)
  \/ \E o \in Outpoints : Withdraw(o)
  \/ Tick \/ Crash \/ Restart

Next ==
  \/ Reveal
  \/ \E b \in Background : ClaimIfAlreadyFunded(b) \/ Timeout(b)
  \/ Receive
  \/ \E g \in Goroutines : Run(g)
  \/ Environment

Spec == Init /\ [][Next]_vars

(***************************************************************************)
(* Fairness.  Goroutines are scheduled and calls are answered: no step of  *)
(* a goroutine that stays possible is put off for ever, and the stream     *)
(* carries what the indexer knows.  Nothing makes clients, funders or      *)
(* failures act.                                                           *)
(***************************************************************************)
Progress(g) ==
  \/ g \in Background /\ ClaimIfAlreadyFunded(g)
  \/ g = Consumer /\ Receive
  \/ MatchRegistered(g) \/ GateSpendable(g) \/ SubmitTx(g) \/ Remove(g)

FairSpec ==
  /\ Spec
  /\ \A g \in Goroutines : WF_vars(Progress(g))
  /\ WF_vars(\E t \in indexed : Stream(t))

-----------------------------------------------------------------------------
(***************************************************************************)
(* Invariants.                                                             *)
(***************************************************************************)
Offers ==
  {[packet |-> q.packet, taptree |-> q.taptree] : q \in {r \in Requests : Acceptable(r)}}

Keys == {PkScriptOf(a.taptree) : a \in Offers}

Claims == {MatchedClaim(o, a.packet, a.taptree) : o \in Outpoints, a \in Offers}

\* What a goroutine may be doing; the scan ends one past the last output.
GoroutineState(s) ==
  \/ s = Idle
  \/ \E k \in Keys : s = Looking(k)
  \/ \E t \in Txs : \E i \in 1 .. Len(Outputs[t]) + 1 : s = Scanning(t, i)
  \/ \E m \in Claims : s \in {Gating(m), Claiming(m), Removing(m)}

\* The types of the variables: a registry of accepted offers under swap
\* scripts, goroutines in one of their states, sets of txs and outpoints.
TypeOK ==
  /\ DOMAIN packets \subseteq Keys
  /\ IsFiniteSet(DOMAIN packets)
  /\ \A k \in DOMAIN packets : packets[k].expireAt \in Nat
  /\ up \in BOOLEAN
  /\ DOMAIN go = Goroutines
  /\ \A g \in Goroutines : GoroutineState(go[g])
  /\ now \in 0 .. MaxTime
  /\ faults \in 0 .. MaxFaults
  /\ stream \in Seq(Txs)
  /\ streamed \subseteq Txs /\ indexed \subseteq Txs
  /\ claimed \subseteq Outpoints /\ withdrawn \subseteq Outpoints
  /\ accepted \subseteq Offers

\* A registration is an accepted offer for the address it is registered under.
RegistrationsBindTheirAddress ==
  \A k \in DOMAIN packets :
    /\ [packet |-> packets[k].packet, taptree |-> packets[k].taptree] \in accepted
    /\ k = PkScriptOf(packets[k].taptree)

\* An accepted offer entitles covclaimd to the claim m.
Entitled(m) ==
  /\ m.outpoint \in Outpoints
  /\ \E a \in accepted :
       /\ m = MatchedClaim(m.outpoint, a.packet, a.taptree)
       /\ m.pkScript = PkScriptOf(a.taptree)
       /\ ~ Underfunds(a.packet, m.amount)

\* Credentials stay those of an accepted offer while a goroutine carries them,
\* whatever happens to the registry in the meantime.
ClaimsInFlightAreEntitled ==
  \A g \in Goroutines :
    go[g].pc \in {"gate", "claim", "remove"} => Entitled(go[g].claim)

\* Whatever Match returns, BuildClaim can build: its re-validation of the
\* script, the preimage and the leaf never fails after Reveal's checks.
MatchedClaimsBuild ==
  \A g \in Goroutines :
    go[g].pc \in {"gate", "claim", "remove"} => ~ Unbuildable(go[g].claim)

\* Only a claim that was accepted goes on to remove a registration.
RemovalFollowsAcceptance ==
  \A g \in Goroutines :
    go[g].pc = "remove" => go[g].claim.outpoint \in claimed

SubmittedAreEntitled ==
  \A c \in submitted :
    \E m \in Claims : Entitled(m) /\ ~ Unbuildable(m) /\ c = BuildClaim(m)

\* The registry never holds more than maxRegistrations entries, although the
\* capacity is tested after a purge and an occupied address is overwritten.
RegistryBounded == Cardinality(DOMAIN packets) <= MaxRegistrations

\* Reveal refuses a maker for lack of room only when every place is taken by a
\* registration that has not expired.
RefusedOnlyWhenFull ==
  \A q \in Requests :
    Acceptable(q) /\ Full(Purged, Key(q)) =>
      /\ Cardinality(DOMAIN packets) = MaxRegistrations
      /\ \A k \in DOMAIN packets : ~ Expired(packets[k])

\* The inductive invariant: what Reveal checked once stays true of every
\* registration, claim in flight and submitted claim.
IInv ==
  /\ TypeOK
  /\ RegistrationsBindTheirAddress
  /\ ClaimsInFlightAreEntitled
  /\ MatchedClaimsBuild
  /\ RemovalFollowsAcceptance
  /\ SubmittedAreEntitled

-----------------------------------------------------------------------------
(***************************************************************************)
(* Action properties.                                                      *)
(***************************************************************************)
\* A registration that has not expired leaves the registry of a running
\* process only once an output of its address has been claimed.
RemovedOnlyForCause ==
  [][up' => \A k \in DOMAIN packets \ DOMAIN packets' :
              \/ Expired(packets[k])
              \/ \E o \in claimed : OutputAt(o).pkScript = k]_vars

\* README.md:112 "Registrations expire after 15min": a goroutine takes the
\* credentials of a registration only before it has expired.
NoExpiredClaim ==
  [][\A g \in Goroutines :
       go[g].pc = "scan" /\ go'[g].pc = "gate" =>
         ~ Expired(packets[go'[g].claim.pkScript])]_vars

\* README.md:110-112 "a repeat submission for the same address is harmless (it
\* replaces the entry with an equivalent one)": an output that could be claimed
\* but for the bound of a valid entry stays out of reach when it is replaced.
RepeatKeepsTheBound ==
  [][\A k \in DOMAIN packets \cap DOMAIN packets', o \in Outpoints :
       /\ ~ Expired(packets[k])
       /\ OutputAt(o).pkScript = k /\ Spendable(o)
       /\ Underfunds(packets[k].packet, OutputAt(o).value)
       => Underfunds(packets'[k].packet, OutputAt(o).value)]_vars

-----------------------------------------------------------------------------
(***************************************************************************)
(* Refinement: the registry, the goroutines and their failures are one way *)
(* to keep the promise of ClaimService.                                    *)
(***************************************************************************)
Service == INSTANCE ClaimService WITH known <- accepted, published <- submitted

\* Every claim shown to the emulator is one that an accepted offer entitles
\* covclaimd to make: output, bound, receiver, amount and leaf agree.
ImplementsClaimService == Service!ServiceSpec

-----------------------------------------------------------------------------
(***************************************************************************)
(* Liveness.                                                               *)
(***************************************************************************)
\* A registration is waiting for output o, which can be claimed.
Due(o) ==
  LET key == OutputAt(o).pkScript
  IN  /\ key \in DOMAIN packets
      /\ ~ Expired(packets[key])
      /\ ~ Underfunds(packets[key].packet, OutputAt(o).value)
      /\ Spendable(o)

\* README.md:46-48 and 113-114: an output that a registration is waiting for is
\* claimed, whether it was funded before or after the registration, unless its
\* owner spends it, the registration expires first, or there is a failure.
FundedIsClaimed ==
  \A o \in Outpoints, e \in 0 .. MaxTime + RegistrationTTL :
    Due(o) /\ packets[OutputAt(o).pkScript].expireAt = e
      ~> o \in claimed \cup withdrawn \/ now > e \/ faults > 0

\* A maker repeats the Reveal of the swap that o funds.
RetryFor(o) ==
  \E q \in Requests, b \in Background :
    /\ Key(q) = OutputAt(o).pkScript
    /\ ~ Underfunds(q.packet, OutputAt(o).value)
    /\ RevealAccepted(q, b)

\* pkg/preimage/README.md:126 "lost on restart, makers re-submit": a maker who
\* repeats its Reveal has a funded output claimed, whatever calls failed, and
\* although a crash, a gap of the subscription or an indexer that lags behind
\* the stream lost what the plugin knew.
RetriedIsClaimed ==
  \A o \in Outpoints :
    []<><<RetryFor(o)>>_vars => (o.tx \in indexed ~> o \in claimed \cup withdrawn)
=============================================================================
