------------------------ MODULE EncryptedPluginProofs ------------------------
(***************************************************************************)
(* Theorems about EncryptedPlugin for every set of transactions, packets   *)
(* and taptrees, checked by TLAPS.                                         *)
(*                                                                         *)
(* Nothing is kept between transactions, so the argument is short: a       *)
(* goroutine carries what Decode returned for a transaction that was       *)
(* received (TypeOK), and what Decode returns fulfils the conditions of    *)
(* its own packet.                                                         *)
(***************************************************************************)
EXTENDS EncryptedPlugin, ClaimEngineProofs

(***************************************************************************)
(* Decode.                                                                 *)
(***************************************************************************)
\* decode returns the claim of an output of its transaction that matchOutput
\* accepted under a packet that opens.
LEMMA DecodeFacts ==
  ASSUME NEW t \in Txs, Decode[t] # None
  PROVE  /\ Opened(t)
         /\ \E o \in Outpoints : /\ o.tx = t
                                 /\ MatchOutput(o, Extensions[t])
                                 /\ Decode[t] = MatchedClaim(o, Extensions[t], TaptreeOf(o))
<1> DEFINE first == CHOOSE i \in Matching(t) : \A j \in Matching(t) : i <= j
           o == [tx |-> t, vout |-> first]
<1>1. /\ Opened(t) /\ Matching(t) # {}
      /\ Decode[t] = MatchedClaim(o, Extensions[t], TaptreeOf(o))
  BY DEF Decode
<1>2. Matching(t) \in SUBSET Nat
  BY OutputsAssumption DEF Matching
<1>3. first \in Matching(t)
  BY <1>1, <1>2, FirstOf
<1> HIDE DEF first
<1>4. first \in DOMAIN Outputs[t] /\ MatchOutput(o, Extensions[t])
  BY <1>3 DEF Matching
<1>5. o \in Outpoints /\ o.tx = t
  BY <1>4 DEF Outpoints
<1> QED BY <1>1, <1>4, <1>5

LEMMA DecodedClaim ==
  ASSUME NEW t \in Txs, Decode[t] # None
  PROVE  Decode[t].outpoint \in Outpoints /\ Decode[t].outpoint.tx = t
  BY DecodeFacts, MatchedClaimFields

\* Match and BuildClaim agree.
LEMMA DecodedBuilds ==
  ASSUME NEW t \in Txs, Decode[t] # None
  PROVE  ~ Unbuildable(Decode[t])
  BY DecodeFacts, OpenedClaimBuilds DEF MatchOutput, Opened

-----------------------------------------------------------------------------
(***************************************************************************)
(* Type correctness.                                                       *)
(***************************************************************************)
LEMMA StateFacts ==
  /\ Idle.pc = "idle"
  /\ \A m : /\ Gating(m).pc = "gate" /\ Gating(m).claim = m /\ Gating(m) # Idle
            /\ Claiming(m).pc = "claim" /\ Claiming(m).claim = m /\ Claiming(m) # Idle
  BY DEF Idle, Gating, Claiming

\* What goroutine g may be doing while the transactions of seen were received.
StateOf(g, s, seen) ==
  \/ s = Idle
  \/ g = Consumer /\ \E t \in seen : s = Gating(Decode[t]) /\ Decode[t] # None
  \/ g \in seen /\ s = Claiming(Decode[g]) /\ Decode[g] # None

GoOK == DOMAIN go = Goroutines /\ \A g \in Goroutines : StateOf(g, go[g], received)

LEMMA TypeMeans ==
  ASSUME received \subseteq Txs
  PROVE  GoOK <=>
           /\ DOMAIN go = Goroutines
           /\ \/ go[Consumer] = Idle
              \/ \E t \in received : go[Consumer] = Gating(Decode[t]) /\ Decode[t] # None
           /\ \A t \in Txs :
                go[t] = Idle
                  \/ (t \in received /\ go[t] = Claiming(Decode[t]) /\ Decode[t] # None)
  BY ConsumerAssumption DEF GoOK, StateOf, Goroutines

\* A step that sets some goroutines and receives no less than before.
LEMMA GoStep ==
  ASSUME GoOK, received \subseteq received', DOMAIN go' = Goroutines,
         \A g \in Goroutines : go'[g] = go[g] \/ StateOf(g, go'[g], received')
  PROVE  GoOK'
<1>1. ASSUME NEW g \in Goroutines PROVE StateOf(g, go'[g], received')
  BY <1>1 DEF GoOK, StateOf
<1> QED BY <1>1 DEF GoOK, StateOf

\* The other variables.
RestOK ==
  /\ stream \in Seq(streamed)
  /\ received \subseteq streamed /\ streamed \subseteq indexed /\ indexed \subseteq Txs
  /\ claimed \subseteq Outpoints /\ withdrawn \subseteq Outpoints
  /\ faults \in 0 .. MaxFaults

LEMMA TypeParts == TypeOK <=> GoOK /\ RestOK
<1>1. RestOK => received \subseteq Txs
  BY DEF RestOK
<1> QED BY <1>1, TypeMeans DEF TypeOK, RestOK

LEMMA NextTypeParts ==
  ASSUME GoOK', RestOK'
  PROVE  TypeOK'
<1>1. received' \subseteq Txs
  BY DEF RestOK
<1>2. /\ DOMAIN go' = Goroutines
      /\ \A g \in Goroutines : StateOf(g, go'[g], received')
  BY DEF GoOK, StateOf
<1>3. \/ go'[Consumer] = Idle
      \/ \E t \in received' : go'[Consumer] = Gating(Decode[t]) /\ Decode[t] # None
  BY <1>1, <1>2, ConsumerAssumption DEF StateOf, Goroutines
<1>4. \A t \in Txs :
        go'[t] = Idle
          \/ (t \in received' /\ go'[t] = Claiming(Decode[t]) /\ Decode[t] # None)
  BY <1>2, ConsumerAssumption DEF StateOf, Goroutines
<1> QED BY <1>2, <1>3, <1>4 DEF RestOK, TypeOK

LEMMA InitType == Init => TypeOK
  BY FaultsAssumption, ConsumerAssumption DEF Init, TypeOK, Goroutines

\* What the consumer waits with at the gate, and a Solve with its claim.
LEMMA WaitingFacts ==
  ASSUME TypeOK
  PROVE  /\ go[Consumer].pc = "gate" =>
              \E t \in received : go[Consumer].claim = Decode[t] /\ Decode[t] # None
         /\ \A t \in Txs : go[t].pc = "claim" =>
              t \in received /\ go[t].claim = Decode[t] /\ Decode[t] # None
         /\ go[Consumer].pc # "claim"
         /\ \A t \in Txs : go[t].pc # "gate"
  BY StateFacts DEF TypeOK

LEMMA ReceiveType ==
  ASSUME TypeOK, Receive
  PROVE  TypeOK'
<1> DEFINE t == Head(stream)
<1>1. t \in streamed /\ Tail(stream) \in Seq(streamed)
  BY DEF Receive, TypeOK
<1>2. \A g \in Goroutines : go'[g] = go[g] \/ StateOf(g, go'[g], received')
  <2>1. CASE go' = go
    BY <2>1
  <2>2. CASE Decode[t] # None /\ go' = Set(Consumer, Gating(Decode[t]))
    <3>1. StateOf(Consumer, Gating(Decode[t]), received')
      BY <2>2 DEF StateOf, Receive
    <3> QED BY <2>2, <3>1 DEF Set, TypeOK
  <2> QED BY <2>1, <2>2 DEF Receive
<1>3. DOMAIN go' = Goroutines /\ received \subseteq received'
  BY DEF Receive, Set, TypeOK
<1>4. GoOK'
  BY <1>2, <1>3, GoStep, TypeParts
<1>5. RestOK'
  BY <1>1, TypeParts DEF Receive, chain, RestOK
<1> QED BY <1>4, <1>5, NextTypeParts

LEMMA GateSpendableType ==
  ASSUME TypeOK, GateSpendable
  PROVE  TypeOK'
<1>1. PICK t \in received : go[Consumer].claim = Decode[t] /\ Decode[t] # None
  BY WaitingFacts DEF GateSpendable
<1>2. t \in Txs /\ Decode[t].outpoint.tx = t
  BY <1>1, DecodedClaim DEF TypeOK
<1>3. \A g \in Goroutines : go'[g] = go[g] \/ StateOf(g, go'[g], received')
  <2>1. CASE go' = Set(Consumer, Idle)
    BY <2>1 DEF Set, TypeOK, StateOf
  <2>2. CASE go' = Solving(Decode[t])
    <3>1. StateOf(t, Claiming(Decode[t]), received')
      BY <1>1 DEF StateOf, GateSpendable
    <3> QED BY <1>2, <2>2, <3>1 DEF Solving, TypeOK, StateOf
  <2> QED BY <1>1, <2>1, <2>2 DEF GateSpendable
<1>4. DOMAIN go' = Goroutines /\ received' = received
  BY DEF GateSpendable, Set, Solving, TypeOK
<1>5. GoOK'
  BY <1>3, <1>4, GoStep, TypeParts
<1>6. RestOK'
  BY TypeParts DEF GateSpendable, chain, RestOK
<1> QED BY <1>5, <1>6, NextTypeParts

\* A goroutine that ends.
LEMMA GoIdle ==
  ASSUME TypeOK, NEW g \in Goroutines, go' = Set(g, Idle), received' = received
  PROVE  GoOK'
<1>1. \A h \in Goroutines : go'[h] = go[h] \/ StateOf(h, go'[h], received')
  BY DEF Set, TypeOK, StateOf
<1>2. DOMAIN go' = Goroutines
  BY DEF Set, TypeOK
<1> QED BY <1>1, <1>2, GoStep, TypeParts

LEMMA SubmitTxType ==
  ASSUME TypeOK, NEW t \in Txs, SubmitTx(t)
  PROVE  TypeOK'
<1>1. go[t].claim = Decode[t] /\ Decode[t] # None
  BY WaitingFacts DEF SubmitTx
<1>2. claimed' \subseteq Outpoints
  BY <1>1, DecodedClaim DEF SubmitTx, TypeOK
<1>3. GoOK'
  BY GoIdle DEF SubmitTx, Goroutines
<1>4. RestOK'
  BY <1>2, TypeParts DEF SubmitTx, RestOK
<1> QED BY <1>3, <1>4, NextTypeParts

LEMMA CallFailsType ==
  ASSUME TypeOK, NEW g \in Goroutines, CallFails(g)
  PROVE  TypeOK'
<1>1. GoOK'
  BY GoIdle DEF CallFails
<1>2. RestOK'
  BY TypeParts, FaultsAssumption DEF CallFails, chain, RestOK
<1> QED BY <1>1, <1>2, NextTypeParts

\* The world does not touch the goroutines.
LEMMA WorldType ==
  ASSUME TypeOK,
         \/ \E t \in Txs : Index(t) \/ Stream(t)
         \/ \E o \in Outpoints : Withdraw(o)
         \/ UNCHANGED vars
  PROVE  TypeOK'
<1>1. go' = go /\ received' = received
  BY DEF Index, Stream, Withdraw, vars
<1>2. GoOK'
  BY <1>1, GoStep, TypeParts DEF TypeOK
<1>3. RestOK'
  <2>1. CASE \E t \in Txs : Index(t)
    BY <2>1, TypeParts DEF Index, RestOK
  <2>2. ASSUME NEW t \in Txs, Stream(t) PROVE RestOK'
    <3>1. stream \in Seq(streamed') /\ t \in streamed'
      BY <2>2 DEF Stream, TypeOK
    <3>2. stream' \in Seq(streamed')
      BY <2>2, <3>1 DEF Stream
    <3> QED BY <2>2, <3>2, TypeParts DEF Stream, chain, RestOK
  <2>3. CASE \E o \in Outpoints : Withdraw(o)
    BY <2>3, TypeParts DEF Withdraw, RestOK
  <2>4. CASE UNCHANGED vars
    BY <2>4, TypeParts DEF vars, chain, RestOK
  <2> QED BY <2>1, <2>2, <2>3, <2>4
<1> QED BY <1>2, <1>3, NextTypeParts

LEMMA NextType ==
  ASSUME TypeOK, [Next]_vars
  PROVE  TypeOK'
<1>1. CASE Receive \/ GateSpendable
  BY <1>1, ReceiveType, GateSpendableType
<1>2. CASE \E t \in Txs : SubmitTx(t)
  BY <1>2, SubmitTxType
<1>3. CASE \E g \in Goroutines : CallFails(g)
  BY <1>3, CallFailsType
<1> QED BY <1>1, <1>2, <1>3, WorldType DEF Next

\* The state of every goroutine goes back to a transaction that was received
\* and that decode accepted.
THEOREM TypeCorrect == Spec => []TypeOK
<1>1. Init => TypeOK
  BY InitType
<1>2. TypeOK /\ [Next]_vars => TypeOK'
  BY NextType
<1> QED BY <1>1, <1>2, PTL DEF Spec

\* BuildClaim's re-validation of a matched claim (claim.go) never fails.
THEOREM BuildNeverFails == Spec => []MatchedClaimsBuild
<1>1. TypeOK => MatchedClaimsBuild
  <2> SUFFICES ASSUME TypeOK, NEW g \in Goroutines, go[g].pc # "idle"
               PROVE  ~ Unbuildable(go[g].claim)
    BY DEF MatchedClaimsBuild
  <2>1. PICK t \in Txs : go[g].claim = Decode[t] /\ Decode[t] # None
    BY StateFacts DEF TypeOK, Goroutines
  <2> QED BY <2>1, DecodedBuilds
<1> QED BY <1>1, TypeCorrect, PTL

-----------------------------------------------------------------------------
(***************************************************************************)
(* Refinement of ClaimService.                                             *)
(***************************************************************************)
\* Receiving a transaction is learning the offers it carries.
LEMMA ReceiveLearns ==
  ASSUME TypeOK, Receive
  PROVE  Service!ServiceNext
<1> DEFINE Offered(seen) ==
             {[packet |-> Extensions[o.tx], taptree |-> TaptreeOf(o)] :
                o \in {x \in Outpoints : x.tx \in seen /\ Opened(x.tx)
                                         /\ TaptreeOf(x) \in DOMAIN Closures}}
<1>1. SeenOffers = Offered(received) /\ SeenOffers' = Offered(received')
  BY DEF SeenOffers
<1>2. received' = received \cup {Head(stream)} /\ submitted' = submitted
  BY DEF Receive
<1>3. Offered(received') \in SUBSET AllOffers
  BY DEF AllOffers
<1>4. Offered(received') = Offered(received) \cup Offered(received')
  BY <1>2
<1>5. Service!Learn(Offered(received'))
  BY <1>1, <1>2, <1>4 DEF Service!Learn
<1> QED BY <1>3, <1>5 DEF Service!ServiceNext

\* What matchOutput accepts, the maker agreed to.
LEMMA MatchedIsAgreed ==
  ASSUME NEW o \in Outpoints, Opened(o.tx), MatchOutput(o, Extensions[o.tx])
  PROVE  Service!Agreed([packet |-> Extensions[o.tx], taptree |-> TaptreeOf(o)], o)
<1> DEFINE p == Extensions[o.tx]
           a == [packet |-> p, taptree |-> TaptreeOf(o)]
<1>1. a.packet = p /\ a.taptree = TaptreeOf(o)
  OBVIOUS
<1>2. p.ciphertext.sealedTo = CovclaimdPubKey /\ p.ciphertext.aad = p.minAmount
  BY DecryptFacts DEF Opened
<1>3. p.minAmount \in {None} \cup 0 .. OutputAt(o).value
  <2>1. p.minAmount \in Nat \cup {None} /\ OutputAt(o).value \in Int
    BY ExtensionsAssumption, OutpointFacts DEF Opened
  <2> QED BY <2>1 DEF MatchOutput, Underfunds
<1>4. OutputAt(o).pkScript = PkScriptOf(TaptreeOf(o))
  BY DEF MatchOutput
<1> HIDE DEF a, p
<1>5. Service!Agreed(a, o)
  BY <1>1, <1>2, <1>3, <1>4
     DEF Service!Agreed, Service!OutputAt, OutputAt, Service!PkScriptOf, PkScriptOf,
         Service!TapKey, TapKey, Service!P2TRScript, P2TRScript
<1> QED BY <1>5 DEF a, p

\* Submitting a claim is publishing it for the offer its transaction carries.
LEMMA SubmitPublishes ==
  ASSUME TypeOK, NEW t \in Txs, SubmitTx(t)
  PROVE  Service!ServiceNext
<1>1. t \in received /\ go[t].claim = Decode[t] /\ Decode[t] # None
  BY WaitingFacts DEF SubmitTx
<1>2. PICK o \in Outpoints : /\ o.tx = t
                             /\ MatchOutput(o, Extensions[t])
                             /\ Decode[t] = MatchedClaim(o, Extensions[t], TaptreeOf(o))
  BY <1>1, DecodeFacts
<1>3. Opened(t)
  BY <1>1, DecodeFacts
<1>4. PICK p : p = Extensions[t]
  OBVIOUS
<1>5. PICK taptree : taptree = TaptreeOf(o)
  OBVIOUS
<1>6. PICK a : a = [packet |-> p, taptree |-> taptree]
  OBVIOUS
<1>7. a.packet = p /\ a.taptree = taptree
  BY <1>6
<1> DEFINE receiver == P2TRScript(p.arkadeScript.pushes[1])
           leaf == FindClaimClosure(taptree, p.arkadeScript, Decrypt(p))
<1>8. Decrypt(p) # None /\ HasClaimClosure(taptree, p.arkadeScript, Decrypt(p))
  BY <1>2, <1>3, <1>4, <1>5 DEF Opened, MatchOutput
<1>9. a \in SeenOffers
  BY <1>1, <1>2, <1>3, <1>4, <1>5, <1>6, <1>8 DEF SeenOffers, HasClaimClosure
<1>10. Service!Agreed(a, o)
  BY <1>2, <1>3, <1>4, <1>5, <1>6, MatchedIsAgreed
<1>11. /\ 1 \in DOMAIN p.arkadeScript.pushes
       /\ p.arkadeScript = EnforcePayTo(receiver)
       /\ leaf \in DOMAIN Closures[taptree]
       /\ Closures[taptree][leaf].condition
            = PreimageCondition(Hash160(p.ciphertext.plaintext))
       /\ {Closures[taptree][leaf].pubKeys[k] :
              k \in DOMAIN Closures[taptree][leaf].pubKeys}
            = {SignerPubKey, EmulatorTweakedKey(EnforcePayTo(receiver))}
       /\ BuildClaim(MatchedClaim(o, p, taptree)) =
            [spends |-> o, pays |-> receiver, amount |-> OutputAt(o).value,
             witness |-> p.ciphertext.plaintext, leaf |-> <<taptree, leaf>>]
  BY <1>8, BuiltClaim
<1>12. receiver = Service!P2TRScript(a.packet.arkadeScript.pushes[1])
  BY <1>7 DEF P2TRScript, Service!P2TRScript
<1>13. submitted' = submitted \cup {Service!FairClaim(a, o, receiver, leaf)}
  <2>1. ~ Unbuildable(go[t].claim)
    BY <1>1, DecodedBuilds
  <2>2. submitted' = submitted \cup {BuildClaim(MatchedClaim(o, p, taptree))}
    BY <1>1, <1>2, <1>4, <1>5, <2>1 DEF SubmitTx
  <2>3. BuildClaim(MatchedClaim(o, p, taptree)) = Service!FairClaim(a, o, receiver, leaf)
    BY <1>7, <1>11 DEF Service!FairClaim, Service!OutputAt, OutputAt
  <2> QED BY <2>2, <2>3
<1>14. SeenOffers' = SeenOffers
  BY DEF SubmitTx, SeenOffers
<1> HIDE DEF leaf, receiver
<1>15. Service!Enforces(Closures[a.taptree][leaf], a.packet.ciphertext.plaintext, receiver)
  BY <1>7, <1>11
     DEF Service!Enforces, Service!PreimageCondition, PreimageCondition,
         Service!Hash160, Hash160, Service!EmulatorTweakedKey, EmulatorTweakedKey,
         Service!EnforcePayTo, EnforcePayTo, Service!P2TRWitnessProgram,
         P2TRWitnessProgram
<1>16. Service!Publish(a, o, receiver, leaf)
  BY <1>7, <1>9, <1>10, <1>11, <1>13, <1>14, <1>15
     DEF Service!Publish, Service!EnforcePayTo, EnforcePayTo,
         Service!P2TRWitnessProgram, P2TRWitnessProgram
<1>17. o \in Service!Outpoints
  BY DEF Outpoints, Service!Outpoints, Txs, Service!Txs
<1> QED BY <1>7, <1>9, <1>11, <1>12, <1>16, <1>17 DEF Service!ServiceNext

\* Every other step leaves what is known and what is published alone.
LEMMA StepRefines ==
  ASSUME TypeOK, [Next]_vars
  PROVE  Service!ServiceNext \/ UNCHANGED <<SeenOffers, submitted>>
<1>1. CASE Receive
  BY <1>1, ReceiveLearns
<1>2. CASE \E t \in Txs : SubmitTx(t)
  BY <1>2, SubmitPublishes
<1>3. CASE \/ GateSpendable \/ UNCHANGED vars
           \/ \E t \in Txs : Index(t) \/ Stream(t)
           \/ \E g \in Goroutines : CallFails(g)
           \/ \E o \in Outpoints : Withdraw(o)
  <2>1. received' = received /\ submitted' = submitted
    BY <1>3 DEF GateSpendable, vars, Index, Stream, CallFails, Withdraw
  <2> QED BY <2>1 DEF SeenOffers
<1> QED BY <1>1, <1>2, <1>3 DEF Next

\* Every claim the encrypted plugin shows to the emulator is one that the
\* packet of its own funding transaction entitles covclaimd to make.
THEOREM Refinement == Spec => ImplementsClaimService
<1>1. Init => Service!ServiceInit
  BY DEF Init, Service!ServiceInit, SeenOffers
<1>2. TypeOK /\ [Next]_vars => [Service!ServiceNext]_(Service!serviceVars)
  BY StepRefines DEF Service!serviceVars
<1> QED BY <1>1, <1>2, TypeCorrect, PTL
        DEF Spec, ImplementsClaimService, Service!ServiceSpec
=============================================================================
