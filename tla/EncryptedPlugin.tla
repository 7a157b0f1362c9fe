--------------------------- MODULE EncryptedPlugin ---------------------------
(***************************************************************************)
(* The encrypted plugin (pkg/preimage/plugin.go) and the shared claimer    *)
(* (claimer.go), driven by the consumer goroutine of the executor.  The    *)
(* sealed preimage travels in the extension of the funding transaction,    *)
(* and the taptree of the swap on the output that funds it.                *)
(*                                                                         *)
(* Match runs on the consumer: it decodes the transaction, then asks the   *)
(* indexer.  Solve runs on a goroutine of its own for each transaction.    *)
(***************************************************************************)
EXTENDS ClaimEngine

CONSTANTS
  Extensions,  \* txid |-> the ClaimPacket that FindClaim returns, or None
  Taptrees,    \* txid |-> the sequence of TaprootTapTree of its outputs, or None
  Consumer,    \* the goroutine of Executor.consume for this plugin
  MaxFaults    \* bound of the model: calls that fail

\* A bound is a uint64, and a packet need not have one.
ASSUME ExtensionsAssumption ==
  /\ DOMAIN Extensions = Txs /\ DOMAIN Taptrees = Txs
  /\ \A t \in Txs :
       /\ DOMAIN Taptrees[t] \subseteq Nat
       /\ Extensions[t] # None => Extensions[t].minAmount \in Nat \cup {None}

ASSUME ConsumerAssumption == Consumer \notin Txs

ASSUME FaultsAssumption == MaxFaults \in Nat

VARIABLES
  go,         \* what each goroutine is doing; Solve bears the name of its tx
  stream,     \* transactions sent on the arkd stream, not yet received
  streamed,   \* transactions that the stream has already carried
  received,   \* history: transactions that Match has looked at
  indexed,    \* transactions the indexer knows
  claimed,    \* outpoints spent by a claim the emulator accepted
  withdrawn,  \* outpoints their owner spent in another way
  faults,     \* failed calls so far
  submitted   \* history: every claim shown to the emulator

chain == <<indexed, claimed, withdrawn>>
vars  == <<go, stream, streamed, received, chain, faults, submitted>>

Goroutines == Txs \cup {Consumer}

Idle        == [pc |-> "idle", claim |-> None]
Gating(m)   == [pc |-> "gate", claim |-> m]
Claiming(m) == [pc |-> "claim", claim |-> m]

Init ==
  /\ go = [g \in Goroutines |-> Idle]
  /\ stream = <<>> /\ streamed = {} /\ received = {}
  /\ indexed = {} /\ claimed = {} /\ withdrawn = {}
  /\ faults = 0 /\ submitted = {}

-----------------------------------------------------------------------------
(***************************************************************************)
(* Match.                                                                  *)
(***************************************************************************)
\* The packet names a covclaimd, and it is not this one.
SealedToAnother(p) == p.covclaimdPubKey \notin {None, CovclaimdPubKey}

TaptreeOf(o) ==
  IF o.vout \in DOMAIN Taptrees[o.tx] THEN Taptrees[o.tx][o.vout] ELSE None

\* The output is not compared with the key its taptree derives.
MatchOutput_AnyKey(o, p) ==
  /\ HasClaimClosure(TaptreeOf(o), p.arkadeScript, Decrypt(p))
  /\ ~ Underfunds(p, OutputAt(o).value)

\* The claim leaf is left to BuildClaim to find.
MatchOutput_NoLeaf(o, p) ==
  /\ TaptreeOf(o) \in DOMAIN Closures
  /\ OutputAt(o).pkScript = PkScriptOf(TaptreeOf(o))
  /\ ~ Underfunds(p, OutputAt(o).value)

\* matchOutput: the taptree on output o holds the claim leaf, derives the
\* output's own script, and the output carries what the sealer asked for.
MatchOutput(o, p) ==
  /\ HasClaimClosure(TaptreeOf(o), p.arkadeScript, Decrypt(p))
  /\ OutputAt(o).pkScript = PkScriptOf(TaptreeOf(o))
  /\ ~ Underfunds(p, OutputAt(o).value)

\* The packet of t can be opened by this covclaimd.
Opened(t) ==
  LET p == Extensions[t]
  IN  p # None /\ ~ SealedToAnother(p) /\ Decrypt(p) # None

Matching(t) ==
  {i \in DOMAIN Outputs[t] : MatchOutput([tx |-> t, vout |-> i], Extensions[t])}

\* Only the first output is looked at.
Decode_FirstOutput ==
  [t \in Txs |->
     IF Opened(t) /\ 1 \in Matching(t)
       THEN LET o == [tx |-> t, vout |-> 1]
            IN  MatchedClaim(o, Extensions[t], TaptreeOf(o))
       ELSE None]

\* decode: the first output that matches; None for no match.
Decode ==
  [t \in Txs |->
     IF Opened(t) /\ Matching(t) # {}
       THEN LET first == CHOOSE i \in Matching(t) : \A j \in Matching(t) : i <= j
                o     == [tx |-> t, vout |-> first]
            IN  MatchedClaim(o, Extensions[t], TaptreeOf(o))
       ELSE None]

Set(g, state) == [go EXCEPT ![g] = state]

\* The consumer takes a transaction off its channel and decodes it.
Receive ==
  /\ go[Consumer] = Idle /\ stream # <<>>
  /\ LET t == Head(stream)
     IN  /\ go' = IF Decode[t] = None THEN go ELSE Set(Consumer, Gating(Decode[t]))
         /\ received' = received \cup {t}
  /\ stream' = Tail(stream)
  /\ UNCHANGED <<streamed, chain, faults, submitted>>

Spendable(o) == o.tx \in indexed /\ o \notin claimed \cup withdrawn

VtxosOf(key) == {o \in Outpoints : OutputAt(o).pkScript = key /\ Spendable(o)}

\* Solve runs on the consumer's own goroutine.
Solving_Inline(m) == Set(Consumer, Claiming(m))

\* The executor starts Solve on a goroutine of its own.
Solving(m) == [go EXCEPT ![Consumer] = Idle, ![m.outpoint.tx] = Claiming(m)]

\* gateSpendable; on a vtxo the executor starts Solve and goes on.
GateSpendable ==
  LET m == go[Consumer].claim
  IN  /\ go[Consumer].pc = "gate"
      /\ go' = IF VtxosOf(m.pkScript) = {}
                 THEN Set(Consumer, Idle)
                 ELSE Solving(m)
      /\ UNCHANGED <<stream, streamed, received, chain, faults, submitted>>

(***************************************************************************)
(* Solve.                                                                  *)
(***************************************************************************)
\* claim: BuildClaim, then SubmitTx.  The preimage leaves covclaimd whatever
\* the emulator answers; it accepts the claim of an output not spent yet.
SubmitTx(t) ==
  LET m == go[t].claim
  IN  /\ go[t].pc = "claim"
      /\ go' = Set(t, Idle)
      /\ IF Unbuildable(m)
           THEN UNCHANGED <<claimed, submitted>>
           ELSE /\ claimed' = claimed \cup {o \in {m.outpoint} : Spendable(o)}
                /\ submitted' = submitted \cup {BuildClaim(m)}
      /\ UNCHANGED <<stream, streamed, received, indexed, withdrawn, faults>>

\* The indexer or the emulator cannot be reached; an error is logged.
CallFails(g) ==
  /\ go[g].pc \in {"gate", "claim"} /\ faults < MaxFaults
  /\ faults' = faults + 1
  /\ go' = Set(g, Idle)
  /\ UNCHANGED <<stream, streamed, received, chain, submitted>>

-----------------------------------------------------------------------------
(***************************************************************************)
(* The world around the plugin: the stream carries what the indexer knows. *)
(***************************************************************************)
Index(t) ==
  /\ t \notin indexed
  /\ indexed' = indexed \cup {t}
  /\ UNCHANGED <<go, stream, streamed, received, claimed, withdrawn, faults, submitted>>

Stream(t) ==
  /\ t \in indexed \ streamed
  /\ streamed' = streamed \cup {t}
  /\ stream' = Append(stream, t)
  /\ UNCHANGED <<go, received, chain, faults, submitted>>

Withdraw(o) ==
  /\ Spendable(o)
  /\ withdrawn' = withdrawn \cup {o}
  /\ UNCHANGED <<go, stream, streamed, received, indexed, claimed, faults, submitted>>

Next ==
  \/ Receive \/ GateSpendable
  \/ \E t \in Txs : SubmitTx(t) \/ Index(t) \/ Stream(t)
  \/ \E g \in Goroutines : CallFails(g)
  \/ \E o \in Outpoints : Withdraw(o)

Spec == Init /\ [][Next]_vars

\* Goroutines are scheduled and calls are answered.
FairSpec ==
  /\ Spec
  /\ WF_vars(Receive) /\ WF_vars(GateSpendable)
  /\ \A t \in Txs : WF_vars(SubmitTx(t)) /\ WF_vars(Stream(t))

-----------------------------------------------------------------------------
\* The types of the variables: the consumer waits at the gate, a goroutine of
\* its own claims, both with what Decode returned for a received transaction.
TypeOK ==
  /\ DOMAIN go = Goroutines
  /\ \/ go[Consumer] = Idle
     \/ \E t \in received : go[Consumer] = Gating(Decode[t]) /\ Decode[t] # None
  /\ \A t \in Txs :
       go[t] = Idle \/ (t \in received /\ go[t] = Claiming(Decode[t]) /\ Decode[t] # None)
  /\ stream \in Seq(streamed)
  /\ received \subseteq streamed /\ streamed \subseteq indexed /\ indexed \subseteq Txs
  /\ claimed \subseteq Outpoints /\ withdrawn \subseteq Outpoints
  /\ faults \in 0 .. MaxFaults

\* Whatever Match returns, BuildClaim can build: its re-validation never fails.
MatchedClaimsBuild ==
  \A g \in Goroutines : go[g].pc # "idle" => ~ Unbuildable(go[g].claim)

\* The transactions seen are the offers; each claim keeps to one of them.
SeenOffers ==
  {[packet |-> Extensions[o.tx], taptree |-> TaptreeOf(o)] :
     o \in {x \in Outpoints : x.tx \in received /\ Opened(x.tx)
                              /\ TaptreeOf(x) \in DOMAIN Closures}}

AllOffers ==
  {[packet |-> Extensions[o.tx], taptree |-> TaptreeOf(o)] :
     o \in {x \in Outpoints : Opened(x.tx) /\ TaptreeOf(x) \in DOMAIN Closures}}

Service == INSTANCE ClaimService
             WITH Offers <- AllOffers, known <- SeenOffers, published <- submitted

\* Every claim shown to the emulator is one that the packet of its own funding
\* transaction entitles covclaimd to make.
ImplementsClaimService == Service!ServiceSpec

\* The conditions of pkg/preimage/README.md:20-51 for output o.
Entitled(o) ==
  LET p == Extensions[o.tx]
  IN  /\ p # None /\ p.covclaimdPubKey \in {None, CovclaimdPubKey}
      /\ Decrypt(p) \in Preimages
      /\ HasClaimClosure(TaptreeOf(o), p.arkadeScript, Decrypt(p))
      /\ OutputAt(o).pkScript = PkScriptOf(TaptreeOf(o))
      /\ p.minAmount # None => OutputAt(o).value >= p.minAmount

EntitledOutpoints == {o \in Outpoints : Entitled(o)}

\* pkg/preimage/README.md:20 "A tx output is claimed when all of the following
\* hold": an entitled output on the stream is claimed unless its owner spends it
\* or a call fails.  It holds of transactions with one entitled output at most,
\* among others that are not: of two, Decode would return the first only.
EntitledIsClaimed ==
  \A o \in EntitledOutpoints :
    o.tx \in streamed ~> o \in claimed \cup withdrawn \/ faults > 0
=============================================================================
