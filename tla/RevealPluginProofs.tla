------------------------- MODULE RevealPluginProofs -------------------------
(***************************************************************************)
(* Theorems about RevealPlugin for every set of requests, every set of     *)
(* transactions and every bound, checked by TLAPS.                         *)
(*                                                                         *)
(* The argument: Reveal accepts an offer only if the packet opens and a    *)
(* leaf of the taptree of its address can be spent with it (Acceptable).   *)
(* A registration, a claim in flight and a submitted claim each point back *)
(* to such an offer (IInv), and what points back to one cannot be undone   *)
(* by later changes of the registry because accepted offers only grow.     *)
(***************************************************************************)
EXTENDS RevealPlugin, ClaimEngineProofs, FiniteSetTheorems

-----------------------------------------------------------------------------
(***************************************************************************)
(* Offers and the claims they justify.                                     *)
(***************************************************************************)
\* What Reveal has checked of an offer, the swap address apart.
LEMMA OfferFacts ==
  ASSUME NEW a \in Offers
  PROVE  /\ Decrypt(a.packet) # None
         /\ HasClaimClosure(a.taptree, a.packet.arkadeScript, Decrypt(a.packet))
         /\ a.packet.minAmount \in Nat \cup {None}
         /\ PkScriptOf(a.taptree) \in Keys
<1>1. PICK q \in Requests : /\ Acceptable(q)
                            /\ a = [packet |-> q.packet, taptree |-> q.taptree]
  BY DEF Offers
<1>2. a.packet = q.packet /\ a.taptree = q.taptree
  BY <1>1
<1>3. q.packet.minAmount \in Nat \cup {None}
  BY <1>1, RequestsAssumption DEF Acceptable
<1> QED BY <1>1, <1>2, <1>3 DEF Acceptable, ValidateAddress, Keys

\* The claim of an output on behalf of an offer can be built.
LEMMA MatchedClaimFacts ==
  ASSUME NEW a \in Offers, NEW o \in Outpoints
  PROVE  /\ MatchedClaim(o, a.packet, a.taptree) \in Claims
         /\ MatchedClaim(o, a.packet, a.taptree).outpoint = o
         /\ MatchedClaim(o, a.packet, a.taptree).amount = OutputAt(o).value
         /\ MatchedClaim(o, a.packet, a.taptree).pkScript = OutputAt(o).pkScript
         /\ ~ Unbuildable(MatchedClaim(o, a.packet, a.taptree))
<1>1. MatchedClaim(o, a.packet, a.taptree) \in Claims
  BY DEF Claims
<1> QED BY <1>1, OfferFacts, MatchedClaimFields, OpenedClaimBuilds

-----------------------------------------------------------------------------
(***************************************************************************)
(* The states of a goroutine.                                              *)
(***************************************************************************)
LEMMA StateFacts ==
  /\ GoroutineState(Idle) /\ Idle.pc = "idle"
  /\ \A k : Looking(k).pc = "lookup" /\ Looking(k).key = k
  /\ \A t, i : Scanning(t, i).pc = "scan" /\ Scanning(t, i).tx = t
               /\ Scanning(t, i).vout = i
  /\ \A m : /\ Gating(m).pc = "gate" /\ Gating(m).claim = m
            /\ Claiming(m).pc = "claim" /\ Claiming(m).claim = m
            /\ Removing(m).pc = "remove" /\ Removing(m).claim = m
  BY DEF GoroutineState, Idle, Looking, Scanning, Gating, Claiming, Removing

LEMMA StateInverse ==
  ASSUME NEW s, GoroutineState(s)
  PROVE  /\ s.pc = "lookup" => s.key \in Keys
         /\ s.pc = "scan" =>
              /\ s.tx \in Txs
              /\ s.vout \in 1 .. Len(Outputs[s.tx]) + 1
         /\ s.pc \in {"gate", "claim", "remove"} => s.claim \in Claims
<1>1. CASE s = Idle
  BY <1>1 DEF Idle
<1>2. CASE \E k \in Keys : s = Looking(k)
  BY <1>2 DEF Idle, Looking
<1>3. CASE \E t \in Txs : \E i \in 1 .. Len(Outputs[t]) + 1 : s = Scanning(t, i)
  BY <1>3 DEF Idle, Scanning
<1>4. CASE \E m \in Claims : s \in {Gating(m), Claiming(m), Removing(m)}
  BY <1>4 DEF Idle, Gating, Claiming, Removing
<1> QED BY <1>1, <1>2, <1>3, <1>4 DEF GoroutineState

\* A step of one goroutine leaves the others as they are.
LEMMA SetFacts ==
  ASSUME NEW g \in Goroutines, NEW s, DOMAIN go = Goroutines
  PROVE  /\ DOMAIN Set(g, s) = Goroutines
         /\ Set(g, s)[g] = s
         /\ \A h \in Goroutines \ {g} : Set(g, s)[h] = go[h]
  BY DEF Set

-----------------------------------------------------------------------------
(***************************************************************************)
(* Type correctness.                                                       *)
(***************************************************************************)
LEMMA GoType ==
  ASSUME TypeOK, NEW g \in Goroutines, NEW s, GoroutineState(s), go' = Set(g, s)
  PROVE  DOMAIN go' = Goroutines /\ \A h \in Goroutines : GoroutineState(go'[h])
  BY SetFacts DEF TypeOK

\* A purge and a removal only take entries out.
LEMMA RestrictFacts ==
  ASSUME NEW S, S \subseteq DOMAIN packets
  PROVE  /\ DOMAIN Restrict(packets, S) = S
         /\ \A k \in S : Restrict(packets, S)[k] = packets[k]
  BY DEF Restrict

LEMMA PurgedFacts ==
  /\ DOMAIN Purged \subseteq DOMAIN packets
  /\ \A k \in DOMAIN Purged : Purged[k] = packets[k]
  BY RestrictFacts DEF Purged

LEMMA InitType == Init => TypeOK
  BY StateFacts, BoundsAssumption, FS_EmptySet DEF Init, TypeOK

LEMMA RevealRefusedType ==
  ASSUME TypeOK, NEW q \in Requests, RevealRefused(q)
  PROVE  TypeOK'
<1>1. IsFiniteSet(DOMAIN Purged)
  BY PurgedFacts, FS_Subset DEF TypeOK
<1> QED BY <1>1, PurgedFacts DEF TypeOK, RevealRefused, chain, history

LEMMA RevealAcceptedType ==
  ASSUME TypeOK, NEW q \in Requests, NEW b \in Background, RevealAccepted(q, b)
  PROVE  TypeOK'
<1> DEFINE a == [packet |-> q.packet, taptree |-> q.taptree]
<1>1. a \in Offers /\ Key(q) = PkScriptOf(a.taptree) /\ Key(q) \in Keys
  BY OfferFacts DEF RevealAccepted, Offers, Acceptable, ValidateAddress
<1>2. /\ DOMAIN packets' = DOMAIN Purged \cup {Key(q)}
      /\ \A k \in DOMAIN packets' :
           packets'[k] = IF k = Key(q) THEN Registration(q) ELSE Purged[k]
  BY DEF RevealAccepted, Registered
<1>3. DOMAIN packets' \subseteq Keys /\ IsFiniteSet(DOMAIN packets')
  BY <1>1, <1>2, PurgedFacts, FS_Subset, FS_AddElement DEF TypeOK
<1>4. Registration(q).expireAt \in Nat
  BY BoundsAssumption DEF TypeOK, Registration
<1>5. \A k \in DOMAIN packets' : packets'[k].expireAt \in Nat
  BY <1>2, <1>4, PurgedFacts DEF TypeOK
<1>6. DOMAIN go' = Goroutines /\ \A h \in Goroutines : GoroutineState(go'[h])
  <2>1. GoroutineState(Looking(Key(q))) /\ b \in Goroutines
    BY <1>1 DEF GoroutineState, Goroutines
  <2>2. go' = Set(b, Looking(Key(q)))
    BY DEF RevealAccepted, Started, Set
  <2> QED BY <2>1, <2>2, GoType
<1>7. accepted' \subseteq Offers
  BY <1>1 DEF TypeOK, RevealAccepted
<1> QED BY <1>3, <1>5, <1>6, <1>7 DEF TypeOK, RevealAccepted, chain

LEMMA ClaimIfAlreadyFundedType ==
  ASSUME TypeOK, NEW b \in Background, ClaimIfAlreadyFunded(b)
  PROVE  TypeOK'
<1>1. b \in Goroutines
  BY DEF Goroutines
<1>2. PICK s : GoroutineState(s) /\ go' = Set(b, s)
  <2>1. CASE go' = Set(b, Idle)
    BY <2>1, StateFacts
  <2>2. ASSUME NEW o \in VtxosOf(go[b].key), go' = Set(b, Scanning(o.tx, 1))
        PROVE  GoroutineState(Scanning(o.tx, 1))
    BY OutpointFacts DEF VtxosOf, GoroutineState
  <2> QED BY <2>1, <2>2 DEF ClaimIfAlreadyFunded
<1> QED BY <1>1, <1>2, GoType DEF TypeOK, ClaimIfAlreadyFunded, chain, history

LEMMA ReceiveType ==
  ASSUME TypeOK, Receive
  PROVE  TypeOK'
<1>1. Head(stream) \in Txs /\ Tail(stream) \in Seq(Txs)
  BY DEF TypeOK, Receive
<1>2. GoroutineState(Scanning(Head(stream), 1)) /\ Consumer \in Goroutines
  BY <1>1, OutputsAssumption DEF GoroutineState, Goroutines
<1> QED BY <1>1, <1>2, GoType DEF TypeOK, Receive, history

\* matchRegistered forms a claim from the registration it read: with the offer
\* behind that registration, it is the offer's claim of this output.
LEMMA MatchRegisteredClaim ==
  ASSUME TypeOK, RegistrationsBindTheirAddress,
         NEW o \in Outpoints, Claimable(o)
  PROVE  LET r == packets[OutputAt(o).pkScript]
             m == MatchedClaim(o, r.packet, r.taptree)
         IN  m \in Claims /\ Entitled(m) /\ ~ Unbuildable(m)
<1> DEFINE k == OutputAt(o).pkScript
           a == [packet |-> packets[k].packet, taptree |-> packets[k].taptree]
           m == MatchedClaim(o, a.packet, a.taptree)
<1>1. a \in accepted /\ a \in Offers /\ k = PkScriptOf(a.taptree)
  BY DEF Claimable, RegistrationsBindTheirAddress, TypeOK
<1>2. ~ Underfunds(a.packet, OutputAt(o).value)
  BY DEF Claimable
<1>3. /\ m \in Claims /\ m.outpoint = o /\ m.amount = OutputAt(o).value
      /\ m.pkScript = k /\ ~ Unbuildable(m)
  BY <1>1, MatchedClaimFacts
<1>4. Entitled(m)
  <2> HIDE DEF a
  <2> QED BY <1>1, <1>2, <1>3 DEF Entitled
<1> QED BY <1>3, <1>4

LEMMA MatchRegisteredType ==
  ASSUME TypeOK, RegistrationsBindTheirAddress,
         NEW g \in Goroutines, MatchRegistered(g)
  PROVE  TypeOK'
<1> DEFINE o == [tx |-> go[g].tx, vout |-> go[g].vout]
           r == packets[OutputAt(o).pkScript]
<1>1. PICK s : GoroutineState(s) /\ go' = Set(g, s)
  <2>1. CASE go' = Set(g, Idle)
    BY <2>1, StateFacts
  <2>2. CASE o \in Outpoints /\ go' = Set(g, Scanning(o.tx, o.vout + 1))
    <3>1. GoroutineState(Scanning(o.tx, o.vout + 1))
      BY <2>2, OutpointFacts DEF GoroutineState
    <3> QED BY <2>2, <3>1
  <2>3. CASE /\ o \in Outpoints /\ Claimable(o)
             /\ go' = Set(g, Gating(MatchedClaim(o, r.packet, r.taptree)))
    <3>1. MatchedClaim(o, r.packet, r.taptree) \in Claims
      BY <2>3, MatchRegisteredClaim
    <3> QED BY <2>3, <3>1 DEF GoroutineState
  <2> QED BY <2>1, <2>2, <2>3 DEF MatchRegistered
<1> QED BY <1>1, GoType DEF TypeOK, MatchRegistered, chain, history

\* The goroutine for Solve gets the claim that the consumer matched.
LEMMA SolvingFacts ==
  ASSUME TypeOK, NEW g \in Goroutines, NEW m \in Claims, go' = Solving(g, m)
  PROVE  /\ DOMAIN go' = Goroutines
         /\ \A h \in Goroutines : go'[h] \in {go[h], Idle, Claiming(m)}
  BY DEF Solving, Set, TypeOK

LEMMA GateSpendableType ==
  ASSUME TypeOK, NEW g \in Goroutines, GateSpendable(g)
  PROVE  TypeOK'
<1> DEFINE m == go[g].claim
<1>1. m \in Claims
  BY StateInverse DEF GateSpendable, TypeOK
<1>2. DOMAIN go' = Goroutines /\ \A h \in Goroutines : GoroutineState(go'[h])
  <2>1. CASE go' = Set(g, Idle)
    BY <2>1, GoType, StateFacts
  <2>2. CASE go' = Solving(g, m)
    <3>1. GoroutineState(Claiming(m))
      BY <1>1 DEF GoroutineState
    <3> QED BY <1>1, <2>2, <3>1, SolvingFacts, StateFacts DEF TypeOK
  <2> QED BY <2>1, <2>2 DEF GateSpendable
<1> QED BY <1>2 DEF TypeOK, GateSpendable, chain, history

LEMMA SubmitTxType ==
  ASSUME TypeOK, NEW g \in Goroutines, SubmitTx(g)
  PROVE  TypeOK'
<1> DEFINE m == go[g].claim
<1>1. m \in Claims
  BY StateInverse DEF SubmitTx, TypeOK
<1>2. m.outpoint \in Outpoints
  <2>1. PICK o \in Outpoints, a \in Offers : m = MatchedClaim(o, a.packet, a.taptree)
    BY <1>1 DEF Claims
  <2> QED BY <2>1, MatchedClaimFacts
<1>3. claimed' \subseteq Outpoints
  BY <1>2 DEF SubmitTx, TypeOK
<1>4. GoroutineState(Removing(m))
  BY <1>1 DEF GoroutineState
<1>5. DOMAIN go' = Goroutines /\ \A h \in Goroutines : GoroutineState(go'[h])
  <2>1. go' = Set(g, Idle) \/ go' = Set(g, Removing(m))
    BY DEF SubmitTx
  <2> QED BY <1>4, <2>1, GoType, StateFacts
<1> QED BY <1>3, <1>5 DEF TypeOK, SubmitTx

LEMMA RemoveType ==
  ASSUME TypeOK, NEW g \in Goroutines, Remove(g)
  PROVE  TypeOK'
<1>1. KeysWithout(go[g].claim) \subseteq DOMAIN packets
  BY DEF KeysWithout
<1>2. /\ DOMAIN packets' \subseteq DOMAIN packets
      /\ \A k \in DOMAIN packets' : packets'[k] = packets[k]
  BY <1>1, RestrictFacts DEF Remove
<1>3. IsFiniteSet(DOMAIN packets')
  BY <1>2, FS_Subset DEF TypeOK
<1> QED BY <1>2, <1>3, GoType, StateFacts DEF TypeOK, Remove, chain, history

LEMMA CallFailsType ==
  ASSUME TypeOK, NEW g \in Goroutines, CallFails(g)
  PROVE  TypeOK'
  BY GoType, StateFacts, BoundsAssumption DEF TypeOK, CallFails, Abort, chain, history

LEMMA TimeoutType ==
  ASSUME TypeOK, NEW b \in Background, Timeout(b)
  PROVE  TypeOK'
  BY GoType, StateFacts DEF TypeOK, Timeout, Abort, chain, history, Goroutines

LEMMA EnvironmentType ==
  ASSUME TypeOK, Environment
  PROVE  TypeOK'
<1>1. ASSUME NEW t \in Txs, Index(t) PROVE TypeOK'
  BY <1>1 DEF TypeOK, Index, plugin, history
<1>2. ASSUME NEW t \in Txs, Stream(t) \/ (~ up /\ Unheard(t)) \/ StreamFault(t)
      PROVE  TypeOK'
  <2>1. stream' \in Seq(Txs)
    <3>1. stream' = stream \/ stream' = Append(stream, t)
      BY <1>2 DEF Stream, Unheard, StreamFault, Miss, Overtake
    <3> QED BY <3>1 DEF TypeOK
  <2>2. faults' \in 0 .. MaxFaults
    <3>1. faults' = faults \/ (faults < MaxFaults /\ faults' = faults + 1)
      BY <1>2 DEF Stream, Unheard, StreamFault
    <3> QED BY <3>1, BoundsAssumption DEF TypeOK
  <2>3. Carried(t)
    BY <1>2 DEF Stream, Unheard, StreamFault, Miss, Overtake
  <2>4. streamed' \subseteq Txs
    BY <2>3 DEF TypeOK, Carried
  <2> QED BY <2>1, <2>2, <2>3, <2>4 DEF TypeOK, Carried, plugin, history
<1>3. ASSUME NEW o \in Outpoints, Withdraw(o) PROVE TypeOK'
  BY <1>3 DEF TypeOK, Withdraw, plugin, history
<1>4. CASE Tick
  BY <1>4, BoundsAssumption DEF TypeOK, Tick, plugin, chain, history
<1>5. CASE Crash
  <2>1. DOMAIN packets' = {} /\ IsFiniteSet(DOMAIN packets')
    BY <1>5, FS_EmptySet DEF Crash
  <2>2. DOMAIN go' = Goroutines /\ \A h \in Goroutines : GoroutineState(go'[h])
    BY <1>5, StateFacts DEF Crash
  <2>3. faults' \in 0 .. MaxFaults /\ stream' \in Seq(Txs)
    BY <1>5, BoundsAssumption DEF Crash, TypeOK
  <2> QED BY <1>5, <2>1, <2>2, <2>3 DEF TypeOK, Crash, history
<1>6. CASE Restart
  BY <1>6 DEF TypeOK, Restart, chain, history
<1> QED BY <1>1, <1>2, <1>3, <1>4, <1>5, <1>6 DEF Environment

-----------------------------------------------------------------------------
(***************************************************************************)
(* What keeps the parts of the inductive invariant.                        *)
(***************************************************************************)
\* Accepted offers only grow, so what one entitles to stays entitled.
LEMMA EntitledStays ==
  ASSUME accepted \subseteq accepted', NEW m, Entitled(m)
  PROVE  Entitled(m)'
  BY DEF Entitled

LEMMA RegistrationsStay ==
  ASSUME RegistrationsBindTheirAddress, accepted \subseteq accepted',
         \A k \in DOMAIN packets' : k \in DOMAIN packets /\ packets'[k] = packets[k]
  PROVE  RegistrationsBindTheirAddress'
  BY DEF RegistrationsBindTheirAddress

LEMMA SubmittedStay ==
  ASSUME SubmittedAreEntitled, accepted \subseteq accepted', submitted' = submitted
  PROVE  SubmittedAreEntitled'
  BY EntitledStays DEF SubmittedAreEntitled

\* What a goroutine may carry: a claim it is entitled to and able to build, and
\* one that was accepted if it waits to remove the registration.
Carries(s) ==
  s.pc \in {"gate", "claim", "remove"} =>
    /\ Entitled(s.claim) /\ ~ Unbuildable(s.claim)
    /\ s.pc = "remove" => s.claim.outpoint \in claimed

LEMMA CarriesMeans ==
  (\A g \in Goroutines : Carries(go[g]))
    <=> ClaimsInFlightAreEntitled /\ MatchedClaimsBuild /\ RemovalFollowsAcceptance
  BY DEF Carries, ClaimsInFlightAreEntitled, MatchedClaimsBuild,
         RemovalFollowsAcceptance

LEMMA CarriesStays ==
  ASSUME accepted \subseteq accepted', claimed \subseteq claimed', NEW s, Carries(s)
  PROVE  Carries(s)'
  BY EntitledStays DEF Carries

LEMMA OthersCarry ==
  ASSUME TypeOK, \A h \in Goroutines : Carries(go[h]),
         accepted \subseteq accepted', claimed \subseteq claimed',
         NEW g \in Goroutines, NEW s, Carries(s)', go' = Set(g, s)
  PROVE  \A h \in Goroutines : Carries(go[h])'
<1> SUFFICES ASSUME NEW h \in Goroutines PROVE Carries(go[h])'
  OBVIOUS
<1>1. CASE h = g
  BY <1>1, SetFacts DEF TypeOK, Carries
<1>2. CASE h # g
  <2>1. go'[h] = go[h] /\ Carries(go[h])
    BY <1>2, SetFacts DEF TypeOK
  <2> QED BY <2>1, EntitledStays DEF Carries
<1> QED BY <1>1, <1>2

\* A goroutine that carries no claim.
LEMMA CarriesNothing ==
  /\ Carries(Idle)
  /\ \A k : Carries(Looking(k))
  /\ \A t, i : Carries(Scanning(t, i))
  BY StateFacts DEF Carries

-----------------------------------------------------------------------------
(***************************************************************************)
(* The inductive invariant, action by action.                              *)
(***************************************************************************)
LEMMA IInvParts ==
  IInv <=> /\ TypeOK /\ RegistrationsBindTheirAddress /\ SubmittedAreEntitled
           /\ \A g \in Goroutines : Carries(go[g])
  BY CarriesMeans DEF IInv

LEMMA NextIInvParts ==
  ASSUME TypeOK', RegistrationsBindTheirAddress', SubmittedAreEntitled',
         \A g \in Goroutines : Carries(go[g])'
  PROVE  IInv'
  BY DEF IInv, Carries, ClaimsInFlightAreEntitled, MatchedClaimsBuild,
         RemovalFollowsAcceptance

LEMMA InitIInv == Init => IInv
<1> SUFFICES ASSUME Init PROVE IInv
  OBVIOUS
<1>1. RegistrationsBindTheirAddress /\ SubmittedAreEntitled
  BY DEF Init, RegistrationsBindTheirAddress, SubmittedAreEntitled
<1>2. \A g \in Goroutines : Carries(go[g])
  BY CarriesNothing DEF Init
<1> QED BY <1>1, <1>2, InitType, IInvParts

\* A step of one goroutine that neither registers nor submits anything.
LEMMA GoroutineStep ==
  ASSUME IInv, TypeOK', NEW g \in Goroutines, NEW s, Carries(s), go' = Set(g, s),
         UNCHANGED <<packets, accepted, submitted, claimed>>
  PROVE  IInv'
<1>1. RegistrationsBindTheirAddress' /\ SubmittedAreEntitled'
  BY RegistrationsStay, SubmittedStay, IInvParts
<1>2. Carries(s)'
  BY CarriesStays
<1>3. \A h \in Goroutines : Carries(go[h])'
  BY <1>2, OthersCarry, IInvParts
<1> QED BY <1>1, <1>3, NextIInvParts

LEMMA RevealAcceptedIInv ==
  ASSUME IInv, NEW q \in Requests, NEW b \in Background, RevealAccepted(q, b)
  PROVE  IInv'
<1> DEFINE a == [packet |-> q.packet, taptree |-> q.taptree]
<1>1. TypeOK'
  BY RevealAcceptedType, IInvParts
<1>2. /\ accepted \subseteq accepted' /\ a \in accepted'
      /\ submitted' = submitted /\ claimed' = claimed
  BY DEF RevealAccepted, chain
<1>3. RegistrationsBindTheirAddress'
  <2> SUFFICES ASSUME NEW k \in DOMAIN packets'
      PROVE  /\ [packet |-> packets'[k].packet, taptree |-> packets'[k].taptree]
                  \in accepted'
             /\ k = PkScriptOf(packets'[k].taptree)
    BY DEF RegistrationsBindTheirAddress
  <2>1. CASE k = Key(q)
    <3>1. packets'[k] = Registration(q)
      BY <2>1 DEF RevealAccepted, Registered
    <3>2. Key(q) = PkScriptOf(q.taptree)
      BY DEF RevealAccepted, Acceptable, ValidateAddress
    <3> QED BY <1>2, <2>1, <3>1, <3>2 DEF Registration
  <2>2. CASE k # Key(q)
    <3>1. k \in DOMAIN packets /\ packets'[k] = packets[k]
      BY <2>2, PurgedFacts DEF RevealAccepted, Registered
    <3> QED BY <1>2, <3>1, IInvParts DEF RegistrationsBindTheirAddress
  <2> QED BY <2>1, <2>2
<1>4. \A h \in Goroutines : Carries(go[h])'
  <2>1. go' = Set(b, Looking(Key(q))) /\ b \in Goroutines
    BY DEF RevealAccepted, Started, Set, Goroutines
  <2>2. Carries(Looking(Key(q)))'
    BY StateFacts DEF Carries
  <2> QED BY <1>2, <2>1, <2>2, OthersCarry, IInvParts
<1>5. SubmittedAreEntitled'
  BY <1>2, SubmittedStay, IInvParts
<1> QED BY <1>1, <1>3, <1>4, <1>5, NextIInvParts

LEMMA RevealRefusedIInv ==
  ASSUME IInv, NEW q \in Requests, RevealRefused(q)
  PROVE  IInv'
<1>1. TypeOK'
  BY RevealRefusedType, IInvParts
<1>2. RegistrationsBindTheirAddress'
  BY PurgedFacts, RegistrationsStay, IInvParts DEF RevealRefused, history
<1>3. SubmittedAreEntitled'
  BY SubmittedStay, IInvParts DEF RevealRefused, history
<1>4. \A h \in Goroutines : Carries(go[h])'
  BY EntitledStays, IInvParts DEF RevealRefused, chain, history, Carries
<1> QED BY <1>1, <1>2, <1>3, <1>4, NextIInvParts

LEMMA ClaimIfAlreadyFundedIInv ==
  ASSUME IInv, NEW b \in Background, ClaimIfAlreadyFunded(b)
  PROVE  IInv'
<1>1. TypeOK' /\ b \in Goroutines
  BY ClaimIfAlreadyFundedType, IInvParts DEF Goroutines
<1>2. PICK s : Carries(s) /\ go' = Set(b, s)
  BY CarriesNothing DEF ClaimIfAlreadyFunded
<1> QED BY <1>1, <1>2, GoroutineStep DEF ClaimIfAlreadyFunded, chain, history

LEMMA ReceiveIInv ==
  ASSUME IInv, Receive
  PROVE  IInv'
<1>1. TypeOK' /\ Consumer \in Goroutines
  BY ReceiveType, IInvParts DEF Goroutines
<1>2. Carries(Scanning(Head(stream), 1))
  BY CarriesNothing
<1> QED BY <1>1, <1>2, GoroutineStep DEF Receive, history

LEMMA MatchRegisteredIInv ==
  ASSUME IInv, NEW g \in Goroutines, MatchRegistered(g)
  PROVE  IInv'
<1> DEFINE o == [tx |-> go[g].tx, vout |-> go[g].vout]
           r == packets[OutputAt(o).pkScript]
           m == MatchedClaim(o, r.packet, r.taptree)
<1>1. TypeOK'
  BY MatchRegisteredType, IInvParts
<1>2. PICK s : Carries(s) /\ go' = Set(g, s)
  <2>1. CASE go' = Set(g, Idle)
    BY <2>1, CarriesNothing
  <2>2. CASE go' = Set(g, Scanning(o.tx, o.vout + 1))
    BY <2>2, CarriesNothing
  <2>3. CASE o \in Outpoints /\ Claimable(o) /\ go' = Set(g, Gating(m))
    <3>1. Entitled(m) /\ ~ Unbuildable(m)
      BY <2>3, MatchRegisteredClaim, IInvParts
    <3>2. Carries(Gating(m))
      BY <3>1, StateFacts DEF Carries
    <3> QED BY <2>3, <3>2
  <2> QED BY <2>1, <2>2, <2>3 DEF MatchRegistered
<1> QED BY <1>1, <1>2, GoroutineStep DEF MatchRegistered, chain, history

LEMMA GateSpendableIInv ==
  ASSUME IInv, NEW g \in Goroutines, GateSpendable(g)
  PROVE  IInv'
<1> DEFINE m == go[g].claim
<1>1. TypeOK' /\ m \in Claims /\ UNCHANGED <<packets, accepted, submitted, claimed>>
  BY GateSpendableType, StateInverse, IInvParts DEF GateSpendable, TypeOK, chain, history
<1>2. CASE go' = Set(g, Idle)
  BY <1>1, <1>2, CarriesNothing, GoroutineStep
<1>3. CASE go' = Solving(g, m)
  <2>1. Entitled(m) /\ ~ Unbuildable(m)
    BY IInvParts DEF GateSpendable, Carries
  <2>2. Carries(Claiming(m))
    BY <2>1, StateFacts DEF Carries
  <2>3. \A h \in Goroutines : Carries(go'[h])
    BY <1>1, <1>3, <2>2, SolvingFacts, CarriesNothing, IInvParts
  <2>4. \A h \in Goroutines : Carries(go[h])'
    BY <1>1, <2>3, EntitledStays DEF Carries
  <2>5. RegistrationsBindTheirAddress' /\ SubmittedAreEntitled'
    BY <1>1, RegistrationsStay, SubmittedStay, IInvParts
  <2> QED BY <1>1, <2>4, <2>5, NextIInvParts
<1> QED BY <1>2, <1>3 DEF GateSpendable

LEMMA SubmitTxIInv ==
  ASSUME IInv, NEW g \in Goroutines, SubmitTx(g)
  PROVE  IInv'
<1>0. PICK m : m = go[g].claim
  OBVIOUS
<1>1. TypeOK' /\ m \in Claims /\ Entitled(m) /\ ~ Unbuildable(m)
  BY <1>0, SubmitTxType, StateInverse, IInvParts DEF SubmitTx, TypeOK, Carries
<1>2. /\ claimed \subseteq claimed' /\ submitted' = submitted \cup {BuildClaim(m)}
      /\ packets' = packets /\ accepted' = accepted
      /\ go' = Set(g, IF Spendable(m.outpoint) THEN Removing(m) ELSE Idle)
      /\ Spendable(m.outpoint) => m.outpoint \in claimed'
  BY <1>0, <1>1 DEF SubmitTx
<1>3. RegistrationsBindTheirAddress'
  BY <1>2, RegistrationsStay, IInvParts
<1>4. SubmittedAreEntitled'
  BY <1>1, <1>2, EntitledStays, IInvParts DEF SubmittedAreEntitled
<1>5. \A h \in Goroutines : Carries(go[h])'
  <2>1. CASE Spendable(m.outpoint)
    <3>1. Carries(Removing(m))'
      BY <1>1, <1>2, <2>1, StateFacts, EntitledStays DEF Carries
    <3> QED BY <1>2, <2>1, <3>1, OthersCarry, IInvParts
  <2>2. CASE ~ Spendable(m.outpoint)
    <3>1. Carries(Idle)'
      BY StateFacts DEF Carries
    <3> QED BY <1>2, <2>2, <3>1, OthersCarry, IInvParts
  <2> QED BY <2>1, <2>2
<1> QED BY <1>1, <1>3, <1>4, <1>5, NextIInvParts

LEMMA RemoveIInv ==
  ASSUME IInv, NEW g \in Goroutines, Remove(g)
  PROVE  IInv'
<1>1. TypeOK' /\ UNCHANGED <<accepted, submitted, claimed>> /\ go' = Set(g, Idle)
  BY RemoveType, IInvParts DEF Remove, chain, history
<1>2. RegistrationsBindTheirAddress' /\ SubmittedAreEntitled'
  <2>1. \A k \in DOMAIN packets' : k \in DOMAIN packets /\ packets'[k] = packets[k]
    BY RestrictFacts DEF Remove, KeysWithout
  <2> QED BY <1>1, <2>1, RegistrationsStay, SubmittedStay, IInvParts
<1>3. \A h \in Goroutines : Carries(go[h])'
  <2>1. Carries(Idle)'
    BY StateFacts DEF Carries
  <2> QED BY <1>1, <2>1, OthersCarry, IInvParts
<1> QED BY <1>1, <1>2, <1>3, NextIInvParts

LEMMA FailureIInv ==
  ASSUME IInv, NEW g \in Goroutines,
         CallFails(g) \/ (g \in Background /\ Timeout(g))
  PROVE  IInv'
<1>1. TypeOK'
  BY CallFailsType, TimeoutType, IInvParts
<1>2. go' = Set(g, Idle) /\ UNCHANGED <<packets, accepted, submitted, claimed>>
  BY DEF CallFails, Timeout, Abort, chain, history
<1> QED BY <1>1, <1>2, CarriesNothing, GoroutineStep

LEMMA EnvironmentIInv ==
  ASSUME IInv, Environment
  PROVE  IInv'
<1>1. TypeOK' /\ UNCHANGED <<accepted, submitted, claimed>>
  BY EnvironmentType, IInvParts
     DEF Environment, Index, Stream, Unheard, StreamFault, Miss, Overtake, Carried,
             Withdraw, Tick, Crash, Restart, chain, history
<1>2. UNCHANGED <<packets, go>> \/ Crash
  BY DEF Environment, Index, Stream, Unheard, StreamFault, Miss, Overtake, Carried, Withdraw,
         Tick, Restart, plugin
<1>3. \A k \in DOMAIN packets' : k \in DOMAIN packets /\ packets'[k] = packets[k]
  BY <1>2 DEF Crash
<1>4. RegistrationsBindTheirAddress' /\ SubmittedAreEntitled'
  BY <1>1, <1>3, RegistrationsStay, SubmittedStay, IInvParts
<1>5. \A h \in Goroutines : Carries(go'[h])
  BY <1>2, CarriesNothing, IInvParts DEF Crash
<1>6. \A h \in Goroutines : Carries(go[h])'
  BY <1>1, <1>5, EntitledStays DEF Carries
<1> QED BY <1>1, <1>4, <1>6, NextIInvParts

LEMMA StutterIInv ==
  ASSUME IInv, UNCHANGED vars
  PROVE  IInv'
<1>1. UNCHANGED <<packets, up, go, now, stream, streamed, indexed, claimed,
                  withdrawn, faults, accepted, submitted>>
  BY DEF vars, plugin, chain, history
<1>2. TypeOK'
  BY <1>1, IInvParts DEF TypeOK
<1>3. RegistrationsBindTheirAddress' /\ SubmittedAreEntitled'
  BY <1>1, RegistrationsStay, SubmittedStay, IInvParts
<1>4. \A h \in Goroutines : Carries(go[h])'
  BY <1>1, EntitledStays, IInvParts DEF Carries
<1> QED BY <1>2, <1>3, <1>4, NextIInvParts

LEMMA NextIInv ==
  ASSUME IInv, [Next]_vars
  PROVE  IInv'
<1>1. ASSUME NEW q \in Requests, RevealInvalid(q) PROVE IInv'
  BY <1>1, StutterIInv DEF RevealInvalid
<1>2. ASSUME NEW q \in Requests, RevealRefused(q) PROVE IInv'
  BY <1>2, RevealRefusedIInv
<1>3. ASSUME NEW q \in Requests, NEW b \in Background, RevealAccepted(q, b) PROVE IInv'
  BY <1>3, RevealAcceptedIInv
<1>4. ASSUME NEW b \in Background, ClaimIfAlreadyFunded(b) PROVE IInv'
  BY <1>4, ClaimIfAlreadyFundedIInv
<1>5. ASSUME NEW b \in Background, Timeout(b) PROVE IInv'
  BY <1>5, FailureIInv DEF Goroutines
<1>6. CASE Receive
  BY <1>6, ReceiveIInv
<1>7. ASSUME NEW g \in Goroutines, Run(g) PROVE IInv'
  BY <1>7, MatchRegisteredIInv, GateSpendableIInv, SubmitTxIInv, RemoveIInv,
     FailureIInv DEF Run
<1>8. CASE Environment
  BY <1>8, EnvironmentIInv
<1>9. CASE UNCHANGED vars
  BY <1>9, StutterIInv
<1> QED BY <1>1, <1>2, <1>3, <1>4, <1>5, <1>6, <1>7, <1>8, <1>9 DEF Next, Reveal

-----------------------------------------------------------------------------
(***************************************************************************)
(* The theorems.                                                           *)
(***************************************************************************)
\* In every reachable state each registration, each claim a goroutine carries
\* and each claim shown to the emulator goes back to an offer that Reveal
\* validated (Submit, reveal_plugin.go).
THEOREM Invariance == Spec => []IInv
<1>1. Init => IInv
  BY InitIInv
<1>2. IInv /\ [Next]_vars => IInv'
  BY NextIInv
<1> QED BY <1>1, <1>2, PTL DEF Spec

\* Type correctness of the plugin's state.
THEOREM TypeCorrect == Spec => []TypeOK
<1>1. IInv => TypeOK
  BY DEF IInv
<1> QED BY <1>1, Invariance, PTL

\* BuildClaim's re-validation of a matched claim (claim.go) never fails: what
\* Reveal checked of the offer stays true of the credentials until Solve.
THEOREM BuildNeverFails == Spec => []MatchedClaimsBuild
<1>1. IInv => MatchedClaimsBuild
  BY DEF IInv
<1> QED BY <1>1, Invariance, PTL

-----------------------------------------------------------------------------
(***************************************************************************)
(* Capacity and removal.                                                   *)
(***************************************************************************)
\* Taking entries out keeps the registry within its capacity.
LEMMA SmallerRegistry ==
  ASSUME TypeOK, RegistryBounded, DOMAIN packets' \subseteq DOMAIN packets
  PROVE  RegistryBounded'
<1>1. Cardinality(DOMAIN packets') <= Cardinality(DOMAIN packets)
  BY FS_Subset DEF TypeOK
<1>2. /\ Cardinality(DOMAIN packets') \in Nat
      /\ Cardinality(DOMAIN packets) \in Nat
  BY FS_Subset, FS_CardinalityType DEF TypeOK
<1> QED BY <1>1, <1>2, BoundsAssumption DEF RegistryBounded

LEMMA AcceptanceBounded ==
  ASSUME TypeOK, RegistryBounded, NEW q \in Requests, NEW b \in Background,
         RevealAccepted(q, b)
  PROVE  RegistryBounded'
<1> DEFINE D == DOMAIN Purged
<1>1. /\ IsFiniteSet(D) /\ Cardinality(D) \in Nat
      /\ Cardinality(D) <= MaxRegistrations
  <2>1. /\ IsFiniteSet(D) /\ Cardinality(D) <= Cardinality(DOMAIN packets)
        /\ Cardinality(D) \in Nat /\ Cardinality(DOMAIN packets) \in Nat
    BY PurgedFacts, FS_Subset, FS_CardinalityType DEF TypeOK
  <2> QED BY <2>1, BoundsAssumption DEF RegistryBounded
<1>2. DOMAIN packets' = D \cup {Key(q)}
  BY DEF RevealAccepted, Registered
<1>3. CASE Key(q) \in D
  <2>1. DOMAIN packets' = D
    BY <1>2, <1>3
  <2> QED BY <1>1, <2>1 DEF RegistryBounded
<1>4. CASE Key(q) \notin D
  <2>1. Cardinality(DOMAIN packets') = Cardinality(D) + 1
    BY <1>1, <1>2, <1>4, FS_AddElement
  <2>2. ~ (Cardinality(D) >= MaxRegistrations)
    BY <1>4 DEF RevealAccepted, Full
  <2> QED BY <1>1, <2>1, <2>2, BoundsAssumption DEF RegistryBounded
<1> QED BY <1>3, <1>4

\* Only Reveal adds entries.
LEMMA OnlyRevealAdds ==
  ASSUME [Next]_vars,
         ~ \E q \in Requests, b \in Background : RevealAccepted(q, b)
  PROVE  DOMAIN packets' \subseteq DOMAIN packets
<1>1. ASSUME NEW q \in Requests, RevealInvalid(q)
      PROVE  DOMAIN packets' \subseteq DOMAIN packets
  BY <1>1 DEF RevealInvalid, vars, plugin
<1>2. ASSUME NEW q \in Requests, RevealRefused(q)
      PROVE  DOMAIN packets' \subseteq DOMAIN packets
  BY <1>2, PurgedFacts DEF RevealRefused
<1>3. ASSUME NEW g \in Goroutines, Run(g)
      PROVE  DOMAIN packets' \subseteq DOMAIN packets
  <2>1. KeysWithout(go[g].claim) \subseteq DOMAIN packets
    BY DEF KeysWithout
  <2> QED BY <1>3, <2>1, RestrictFacts
          DEF Run, MatchRegistered, GateSpendable, SubmitTx, Remove, CallFails, Abort
<1>4. CASE Environment
  BY <1>4 DEF Environment, Index, Stream, Unheard, StreamFault, Miss, Overtake, Carried,
             Withdraw, Tick, Crash, Restart, plugin
<1>5. CASE Receive \/ \E b \in Background : ClaimIfAlreadyFunded(b) \/ Timeout(b)
  BY <1>5 DEF Receive, ClaimIfAlreadyFunded, Timeout, Abort
<1>6. CASE UNCHANGED vars
  BY <1>6 DEF vars, plugin
<1> QED BY <1>1, <1>2, <1>3, <1>4, <1>5, <1>6 DEF Next, Reveal

\* The registry never exceeds maxRegistrations (register, reveal_plugin.go).
THEOREM CapacityHolds == Spec => []RegistryBounded
<1>1. Init => RegistryBounded
  BY FS_EmptySet, BoundsAssumption DEF Init, RegistryBounded
<1>2. TypeOK /\ RegistryBounded /\ [Next]_vars => RegistryBounded'
  BY AcceptanceBounded, OnlyRevealAdds, SmallerRegistry
<1> QED BY <1>1, <1>2, TypeCorrect, PTL DEF Spec

\* A refusal for lack of room finds no expired registration to purge, because
\* the purge comes first (register, reveal_plugin.go).
THEOREM RefusalIsHonest == Spec => []RefusedOnlyWhenFull
<1>1. TypeOK /\ RegistryBounded => RefusedOnlyWhenFull
  <2> SUFFICES ASSUME TypeOK, RegistryBounded,
                      NEW q \in Requests, Full(Purged, Key(q))
               PROVE  /\ Cardinality(DOMAIN packets) = MaxRegistrations
                      /\ \A k \in DOMAIN packets : ~ Expired(packets[k])
    BY DEF RefusedOnlyWhenFull
  <2> DEFINE D == DOMAIN Purged
  <2>1. /\ Cardinality(D) <= Cardinality(DOMAIN packets)
        /\ Cardinality(D) = Cardinality(DOMAIN packets) => D = DOMAIN packets
        /\ Cardinality(D) \in Nat /\ Cardinality(DOMAIN packets) \in Nat
    BY PurgedFacts, FS_Subset, FS_CardinalityType DEF TypeOK
  <2>2. D = DOMAIN packets /\ Cardinality(DOMAIN packets) = MaxRegistrations
    BY <2>1, BoundsAssumption DEF RegistryBounded, Full
  <2>3. D = {k \in DOMAIN packets : ~ Expired(packets[k])}
    BY DEF Purged, Restrict
  <2> QED BY <2>2, <2>3
<1> QED BY <1>1, TypeCorrect, CapacityHolds, PTL

\* What Remove deletes is the address of an output whose claim was accepted.
LEMMA RemoveHasCause ==
  ASSUME IInv, NEW g \in Goroutines, Remove(g),
         NEW k \in DOMAIN packets, k \notin DOMAIN packets'
  PROVE  \E o \in claimed : OutputAt(o).pkScript = k
<1> DEFINE m == go[g].claim
<1>1. Entitled(m) /\ m.outpoint \in claimed
  BY IInvParts DEF Remove, Carries
<1>2. m.pkScript = OutputAt(m.outpoint).pkScript
  <2>1. PICK a \in accepted : m = MatchedClaim(m.outpoint, a.packet, a.taptree)
    BY <1>1 DEF Entitled
  <2>2. a \in Offers /\ m.outpoint \in Outpoints
    BY <1>1, <2>1, IInvParts DEF TypeOK, Entitled
  <2> QED BY <2>1, <2>2, MatchedClaimFacts
<1>3. k = m.pkScript
  BY DEF Remove, KeysWithout, Restrict
<1> QED BY <1>1, <1>2, <1>3

\* A live registration leaves a running process only when an output of its
\* address has been claimed (register and Solve, reveal_plugin.go).
THEOREM RemovalHasCause == Spec => RemovedOnlyForCause
<1> DEFINE Caused(k) == \/ Expired(packets[k])
                        \/ \E o \in claimed : OutputAt(o).pkScript = k
<1>1. ASSUME IInv, [Next]_vars, up', NEW k \in DOMAIN packets \ DOMAIN packets'
      PROVE  Caused(k)
  <2>0. k \in DOMAIN packets /\ k \notin DOMAIN packets'
    BY <1>1
  <2>1. ASSUME k \notin DOMAIN Purged PROVE Expired(packets[k])
    BY <2>0, <2>1, RestrictFacts DEF Purged
  <2>2. ASSUME NEW q \in Requests, NEW b \in Background,
               RevealRefused(q) \/ RevealAccepted(q, b) \/ RevealInvalid(q)
        PROVE  Caused(k)
    <3>1. k \notin DOMAIN Purged
      BY <2>0, <2>2, PurgedFacts
         DEF RevealRefused, RevealAccepted, Registered, RevealInvalid, vars, plugin
    <3> QED BY <2>1, <3>1
  <2>3. ASSUME NEW g \in Goroutines, Run(g) PROVE Caused(k)
    <3>1. Remove(g)
      BY <2>0, <2>3 DEF Run, MatchRegistered, GateSpendable, SubmitTx, CallFails, Abort
    <3> QED BY <1>1, <2>0, <3>1, RemoveHasCause
  <2>4. ASSUME NEW q \in Requests, RevealRefused(q) \/ RevealInvalid(q)
        PROVE  Caused(k)
    <3>1. k \notin DOMAIN Purged
      BY <2>0, <2>4, PurgedFacts DEF RevealRefused, RevealInvalid, vars, plugin
    <3> QED BY <2>1, <3>1
  <2>5. packets' # packets /\ ~ Crash
    BY <1>1, <2>0 DEF Crash
  <2> QED BY <1>1, <2>2, <2>3, <2>4, <2>5
          DEF Next, Reveal, Environment, Index, Stream, Unheard, StreamFault, Miss, Overtake,
              Carried, Withdraw, Tick, Restart,
              Receive, ClaimIfAlreadyFunded, Timeout, Abort, plugin, vars
<1>2. IInv /\ [Next]_vars =>
        [up' => \A k \in DOMAIN packets \ DOMAIN packets' :
                  \/ Expired(packets[k])
                  \/ \E o \in claimed : OutputAt(o).pkScript = k]_vars
  BY <1>1
<1> QED BY <1>2, Invariance, PTL DEF Spec, RemovedOnlyForCause

-----------------------------------------------------------------------------
(***************************************************************************)
(* Refinement of ClaimService.                                             *)
(***************************************************************************)
\* A claim that an accepted offer entitles to is one ClaimService may publish.
LEMMA EntitledIsAgreed ==
  ASSUME NEW a \in Offers, NEW o \in Outpoints,
         OutputAt(o).pkScript = PkScriptOf(a.taptree),
         ~ Underfunds(a.packet, OutputAt(o).value)
  PROVE  Service!Agreed(a, o)
<1>1. /\ a.packet.ciphertext.sealedTo = CovclaimdPubKey
      /\ a.packet.ciphertext.aad = a.packet.minAmount
  BY OfferFacts, DecryptFacts
<1>2. a.packet.minAmount \in {None} \cup 0 .. OutputAt(o).value
  BY OfferFacts, OutpointFacts DEF Underfunds
<1> QED BY <1>1, <1>2 
       DEF Service!Agreed, Service!OutputAt, OutputAt, Service!PkScriptOf, PkScriptOf,
           Service!TapKey, TapKey, Service!P2TRScript, P2TRScript

LEMMA BuiltIsFair ==
  ASSUME NEW a \in Offers, NEW o \in Outpoints
  PROVE  LET m        == MatchedClaim(o, a.packet, a.taptree)
             receiver == P2TRScript(a.packet.arkadeScript.pushes[1])
             leaf     == FindClaimClosure(a.taptree, a.packet.arkadeScript,
                                          Decrypt(a.packet))
         IN  /\ 1 \in DOMAIN a.packet.arkadeScript.pushes
             /\ a.packet.arkadeScript = EnforcePayTo(receiver)
             /\ leaf \in DOMAIN Closures[a.taptree]
             /\ Service!Enforces(Closures[a.taptree][leaf],
                                 a.packet.ciphertext.plaintext, receiver)
             /\ BuildClaim(m) = Service!FairClaim(a, o, receiver, leaf)
<1> DEFINE receiver == P2TRScript(a.packet.arkadeScript.pushes[1])
           leaf == FindClaimClosure(a.taptree, a.packet.arkadeScript, Decrypt(a.packet))
           closure == Closures[a.taptree][leaf]
<1>1. /\ 1 \in DOMAIN a.packet.arkadeScript.pushes
      /\ a.packet.arkadeScript = EnforcePayTo(receiver)
      /\ leaf \in DOMAIN Closures[a.taptree]
      /\ closure.condition = PreimageCondition(Hash160(a.packet.ciphertext.plaintext))
      /\ {closure.pubKeys[k] : k \in DOMAIN closure.pubKeys}
           = {SignerPubKey, EmulatorTweakedKey(EnforcePayTo(receiver))}
      /\ BuildClaim(MatchedClaim(o, a.packet, a.taptree)) =
           [spends |-> o, pays |-> receiver, amount |-> OutputAt(o).value,
            witness |-> a.packet.ciphertext.plaintext, leaf |-> <<a.taptree, leaf>>]
  BY OfferFacts, BuiltClaim
<1>2. Service!Enforces(closure, a.packet.ciphertext.plaintext, receiver)
  <2> HIDE DEF closure, receiver
  <2> QED BY <1>1
          DEF Service!Enforces, Service!PreimageCondition, PreimageCondition,
              Service!Hash160, Hash160, Service!EmulatorTweakedKey, EmulatorTweakedKey,
              Service!EnforcePayTo, EnforcePayTo, Service!P2TRWitnessProgram,
              P2TRWitnessProgram
<1>3. BuildClaim(MatchedClaim(o, a.packet, a.taptree)) = Service!FairClaim(a, o, receiver, leaf)
  BY <1>1 DEF Service!FairClaim, Service!OutputAt, OutputAt
<1> QED BY <1>1, <1>2, <1>3

LEMMA SubmitPublishes ==
  ASSUME IInv, NEW g \in Goroutines, SubmitTx(g)
  PROVE  Service!ServiceNext
<1> DEFINE m == go[g].claim
<1>1. Entitled(m) /\ ~ Unbuildable(m)
  BY IInvParts DEF SubmitTx, Carries
<1>2. PICK a \in accepted : /\ m = MatchedClaim(m.outpoint, a.packet, a.taptree)
                            /\ m.pkScript = PkScriptOf(a.taptree)
                            /\ ~ Underfunds(a.packet, m.amount)
  BY <1>1 DEF Entitled
<1>3. PICK o : o = m.outpoint
  OBVIOUS
<1>4. a \in Offers /\ o \in Outpoints /\ m = MatchedClaim(o, a.packet, a.taptree)
  BY <1>1, <1>2, <1>3, IInvParts DEF TypeOK, Entitled
<1> DEFINE receiver == P2TRScript(a.packet.arkadeScript.pushes[1])
           leaf == FindClaimClosure(a.taptree, a.packet.arkadeScript, Decrypt(a.packet))
<1>5. Service!Agreed(a, o)
  BY <1>2, <1>4, MatchedClaimFacts, EntitledIsAgreed
<1>6. /\ 1 \in DOMAIN a.packet.arkadeScript.pushes
      /\ a.packet.arkadeScript = EnforcePayTo(receiver)
      /\ leaf \in DOMAIN Closures[a.taptree]
      /\ Service!Enforces(Closures[a.taptree][leaf],
                          a.packet.ciphertext.plaintext, receiver)
      /\ BuildClaim(m) = Service!FairClaim(a, o, receiver, leaf)
  BY <1>4, BuiltIsFair
<1>7. submitted' = submitted \cup {BuildClaim(m)} /\ accepted' = accepted
  BY <1>1 DEF SubmitTx
<1>8. Service!Publish(a, o, receiver, leaf)
  BY <1>2, <1>5, <1>6, <1>7
     DEF Service!Publish, Service!EnforcePayTo, EnforcePayTo,
         Service!P2TRWitnessProgram, P2TRWitnessProgram
<1> HIDE DEF leaf
<1>9. receiver = Service!P2TRScript(a.packet.arkadeScript.pushes[1])
  BY DEF P2TRScript, Service!P2TRScript
<1>10. o \in Service!Outpoints
  BY <1>4 DEF Outpoints, Service!Outpoints, Txs, Service!Txs
<1> QED BY <1>2, <1>6, <1>8, <1>9, <1>10 DEF Service!ServiceNext

LEMMA AcceptanceLearns ==
  ASSUME NEW q \in Requests, NEW b \in Background, RevealAccepted(q, b)
  PROVE  Service!ServiceNext
<1> DEFINE a == [packet |-> q.packet, taptree |-> q.taptree]
<1>1. {a} \in SUBSET Offers
  BY DEF RevealAccepted, Offers
<1>2. Service!Learn({a})
  BY DEF RevealAccepted, Service!Learn
<1> QED BY <1>1, <1>2 DEF Service!ServiceNext

\* Every step of the plugin is a step of ClaimService or leaves it unchanged.
LEMMA StepRefines ==
  ASSUME IInv, [Next]_vars
  PROVE  Service!ServiceNext \/ UNCHANGED <<accepted, submitted>>
<1>1. CASE Environment
  BY <1>1 DEF Environment, Index, Stream, Unheard, StreamFault, Miss, Overtake, Carried,
             Withdraw, Tick, Crash, Restart, history
<1>2. CASE UNCHANGED vars
  BY <1>2 DEF vars, history
<1>3. ASSUME NEW g \in Goroutines, Run(g)
      PROVE  Service!ServiceNext \/ UNCHANGED <<accepted, submitted>>
  BY <1>3, SubmitPublishes
     DEF Run, MatchRegistered, GateSpendable, Remove, CallFails, Abort, history
<1>4. CASE Reveal
  BY <1>4, AcceptanceLearns
     DEF Reveal, RevealInvalid, RevealRefused, vars, history
<1>5. CASE Receive \/ \E b \in Background : ClaimIfAlreadyFunded(b) \/ Timeout(b)
  BY <1>5 DEF Receive, ClaimIfAlreadyFunded, Timeout, Abort, history
<1> QED BY <1>1, <1>2, <1>3, <1>4, <1>5 DEF Next

\* Every claim shown to the emulator is one that an accepted offer entitles
\* covclaimd to make: the reveal plugin implements ClaimService.
THEOREM Refinement == Spec => ImplementsClaimService
<1>1. Init => Service!ServiceInit
  BY DEF Init, Service!ServiceInit
<1>2. IInv /\ [Next]_vars => [Service!ServiceNext]_(Service!serviceVars)
  BY StepRefines DEF Service!serviceVars
<1> QED BY <1>1, <1>2, Invariance, PTL
        DEF Spec, ImplementsClaimService, Service!ServiceSpec
=============================================================================
