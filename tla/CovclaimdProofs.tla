------------------------- MODULE CovclaimdProofs ----------------------------
(***************************************************************************)
(* Theorems about Covclaimd for every set of requests, transactions,       *)
(* environments and held ports, checked by TLAPS.                          *)
(*                                                                         *)
(* The argument: whatever the process does is for the plugin a step of its *)
(* own, the end of a call, or a transaction it does not hear, so that the  *)
(* plugin's invariant and its promise carry over (first part).  With that, *)
(* what the goroutines are at, how far run(), Run and consume are and what *)
(* was sent and taken make the inductive invariant of the process (IInv),  *)
(* from which its safety follows (second part), and under which every step *)
(* is one of module Executor or none (third part).                         *)
(***************************************************************************)
EXTENDS Covclaimd, FiniteSetTheorems, SequenceTheorems, TLAPS

\* The theorems about the plugin, for the plugin of this process.
R == INSTANCE RevealPluginProofs

-----------------------------------------------------------------------------
(***************************************************************************)
(* R is one more instance of RevealPlugin.  What it defines is the same as *)
(* what P defines, operator by operator, so a lemma of R is about P.       *)
(***************************************************************************)
\* The scripts, and the bound that a packet carries.
LEMMA SameScripts ==
  /\ \A s : P!ValidateArkadeScript(s) = R!ValidateArkadeScript(s)
  /\ \A t : P!PkScriptOf(t) = R!PkScriptOf(t)
  /\ \A p, v : P!Underfunds(p, v) <=> R!Underfunds(p, v)
<1>1. \A s : P!ValidateArkadeScript(s) = R!ValidateArkadeScript(s)
  BY DEF P!ValidateArkadeScript, P!ParseReceiverFromArkadeScript, P!P2TRScript,
         P!EnforcePayTo, P!P2TRWitnessProgram,
         R!ValidateArkadeScript, R!ParseReceiverFromArkadeScript, R!P2TRScript,
         R!EnforcePayTo, R!P2TRWitnessProgram
<1>2. \A t : P!PkScriptOf(t) = R!PkScriptOf(t)
  BY DEF P!PkScriptOf, P!TapKey, P!P2TRScript, R!PkScriptOf, R!TapKey, R!P2TRScript
<1>3. \A p, v : P!Underfunds(p, v) <=> R!Underfunds(p, v)
  BY DEF P!Underfunds, R!Underfunds
<1> QED BY <1>1, <1>2, <1>3

\* What a packet opens to, and the leaf that it is for.
LEMMA SamePackets ==
  /\ \A p : P!Decrypt(p) = R!Decrypt(p)
  /\ \A t, s, x : P!HasClaimClosure(t, s, x) <=> R!HasClaimClosure(t, s, x)
  /\ \A t, s, x : P!FindClaimClosure(t, s, x) = R!FindClaimClosure(t, s, x)
<1>1. \A p : P!Decrypt(p) = R!Decrypt(p)
  BY SameScripts DEF P!Decrypt, P!DecryptWithAAD, R!Decrypt, R!DecryptWithAAD
<1>2. \A t, s, x : P!ClaimClosures(t, s, x) = R!ClaimClosures(t, s, x)
  BY DEF P!ClaimClosures, P!PreimageCondition, P!Hash160, P!HasExactlyTwoKeys, P!EmulatorTweakedKey,
         R!ClaimClosures, R!PreimageCondition, R!Hash160, R!HasExactlyTwoKeys, R!EmulatorTweakedKey
<1>3. \A t, s, x : P!HasClaimClosure(t, s, x) <=> R!HasClaimClosure(t, s, x)
  BY <1>2 DEF P!HasClaimClosure, R!HasClaimClosure
<1>4. \A t, s, x : P!FindClaimClosure(t, s, x) = R!FindClaimClosure(t, s, x)
  BY <1>2 DEF P!FindClaimClosure, R!FindClaimClosure
<1> QED BY <1>1, <1>3, <1>4

\* The transactions and their outputs.
LEMMA SameOutputs ==
  /\ P!Txs = Txs /\ R!Txs = Txs /\ P!Outpoints = Outpoints /\ R!Outpoints = Outpoints
  /\ \A o : P!OutputAt(o) = R!OutputAt(o)
BY DEF P!Txs, R!Txs, Txs, P!Outpoints, R!Outpoints, Outpoints, P!OutputAt, R!OutputAt

\* What Match returns and BuildClaim makes of it.
LEMMA SameClaims ==
  /\ \A o, p, t : P!MatchedClaim(o, p, t) = R!MatchedClaim(o, p, t)
  /\ \A m : P!Unbuildable(m) <=> R!Unbuildable(m)
  /\ \A m : P!BuildClaim(m) = R!BuildClaim(m)
<1>1. \A o, p, t : P!MatchedClaim(o, p, t) = R!MatchedClaim(o, p, t)
  BY SamePackets, SameOutputs DEF P!MatchedClaim, R!MatchedClaim
<1>2. \A m : P!Unbuildable(m) <=> R!Unbuildable(m)
  BY SamePackets, SameScripts DEF P!Unbuildable, R!Unbuildable
<1>3. \A m : P!BuildClaim(m) = R!BuildClaim(m)
  BY SamePackets, SameScripts DEF P!BuildClaim, R!BuildClaim
<1> QED BY <1>1, <1>2, <1>3

\* What a goroutine may be doing.
LEMMA SameStates ==
  /\ P!Idle = R!Idle
  /\ \A k : P!Looking(k) = R!Looking(k)
  /\ \A t, i : P!Scanning(t, i) = R!Scanning(t, i)
  /\ \A m : P!Gating(m) = R!Gating(m) /\ P!Claiming(m) = R!Claiming(m) /\ P!Removing(m) = R!Removing(m)
  /\ \A g, s : P!Set(g, s) = R!Set(g, s)
  /\ P!Goroutines = Goroutines /\ R!Goroutines = Goroutines
<1>1. P!Goroutines = Goroutines /\ R!Goroutines = Goroutines
  BY SameOutputs DEF P!Goroutines, R!Goroutines, Goroutines
<1> QED BY <1>1 DEF P!Idle, P!Looking, P!Scanning, P!Gating, P!Claiming, P!Removing, P!Set,
                  R!Idle, R!Looking, R!Scanning, R!Gating, R!Claiming, R!Removing, R!Set

\* What Reveal checks.
LEMMA SameRequests ==
  /\ \A q : P!WellFormed(q) <=> R!WellFormed(q)
  /\ \A q : P!Acceptable(q) <=> R!Acceptable(q)
  /\ \A q : P!Key(q) = R!Key(q)
<1>1. \A q : P!Key(q) = R!Key(q)
  BY DEF P!Key, P!P2TRScript, R!Key, R!P2TRScript
<1>2. \A q : P!WellFormed(q) <=> R!WellFormed(q)
  BY DEF P!WellFormed, R!WellFormed
<1>3. \A q : P!ValidateAddress(q) <=> R!ValidateAddress(q)
  BY <1>1, SameScripts, SamePackets DEF P!ValidateAddress, R!ValidateAddress
<1>4. \A q : P!Acceptable(q) <=> R!Acceptable(q)
  BY <1>2, <1>3, SamePackets DEF P!Acceptable, R!Acceptable
<1> QED BY <1>1, <1>2, <1>4

\* What may be registered and claimed.
LEMMA SameSets ==
  P!Offers = R!Offers /\ P!Keys = R!Keys /\ P!Claims = R!Claims
<1>1. P!Offers = R!Offers
  BY SameRequests DEF P!Offers, R!Offers
<1>2. P!Keys = R!Keys
  BY <1>1, SameScripts DEF P!Keys, R!Keys
<1>3. P!Claims = R!Claims
  <2>1. \A m : m \in P!Claims
               <=> \E o \in Outpoints, a \in P!Offers : m = P!MatchedClaim(o, a.packet, a.taptree)
    BY SameOutputs DEF P!Claims
  <2>2. \A m : m \in R!Claims
               <=> \E o \in Outpoints, a \in R!Offers : m = R!MatchedClaim(o, a.packet, a.taptree)
    BY SameOutputs DEF R!Claims
  <2>3. \A m : m \in P!Claims <=> m \in R!Claims
    BY <1>1, <2>1, <2>2, SameClaims
  <2> QED BY <2>3
<1> QED BY <1>1, <1>2, <1>3

\* The inductive invariant of the plugin.
LEMMA SameInvariant == P!IInv <=> R!IInv
<1>1. \A s : P!GoroutineState(s) <=> R!GoroutineState(s)
  BY SameStates, SameSets, SameOutputs DEF P!GoroutineState, R!GoroutineState
<1>2. P!TypeOK <=> R!TypeOK
  BY <1>1, SameStates, SameSets, SameOutputs DEF P!TypeOK, R!TypeOK, P!IsFiniteSet, R!IsFiniteSet
<1>3. \A m : P!Entitled(m) <=> R!Entitled(m)
  BY SameClaims, SameScripts, SameOutputs DEF P!Entitled, R!Entitled
<1>4. P!RegistrationsBindTheirAddress <=> R!RegistrationsBindTheirAddress
  BY SameScripts DEF P!RegistrationsBindTheirAddress, R!RegistrationsBindTheirAddress
<1>5. P!ClaimsInFlightAreEntitled <=> R!ClaimsInFlightAreEntitled
  BY <1>3, SameStates DEF P!ClaimsInFlightAreEntitled, R!ClaimsInFlightAreEntitled
<1>6. P!MatchedClaimsBuild <=> R!MatchedClaimsBuild
  BY SameStates, SameClaims DEF P!MatchedClaimsBuild, R!MatchedClaimsBuild
<1>7. P!RemovalFollowsAcceptance <=> R!RemovalFollowsAcceptance
  BY SameStates DEF P!RemovalFollowsAcceptance, R!RemovalFollowsAcceptance
<1>8. P!SubmittedAreEntitled <=> R!SubmittedAreEntitled
  BY <1>3, SameClaims, SameSets DEF P!SubmittedAreEntitled, R!SubmittedAreEntitled
<1> QED BY <1>2, <1>4, <1>5, <1>6, <1>7, <1>8 DEF P!IInv, R!IInv

\* The same in the next state.
LEMMA SameInvariantNext == P!IInv' <=> R!IInv'
BY SameInvariant, PTL

\* The tuples of variables.
LEMMA SameFrames ==
  /\ P!chain = R!chain /\ P!history = R!history /\ P!plugin = R!plugin
  /\ P!chain' = R!chain' /\ P!history' = R!history' /\ P!plugin' = R!plugin'
  /\ P!vars = R!vars /\ P!vars' = R!vars'
BY DEF P!chain, P!history, P!plugin, P!vars, R!chain, R!history, R!plugin, R!vars

\* The handler.
LEMMA SameReveal == P!Reveal => R!Reveal
<1>1. P!Purged = R!Purged
  BY DEF P!Purged, P!Expired, R!Purged, R!Expired, P!Restrict, R!Restrict
<1>2. \A g, k : P!Full(g, k) <=> R!Full(g, k)
  BY DEF P!Full, R!Full, P!Cardinality, R!Cardinality
<1>3. \A q : P!Registration(q) = R!Registration(q)
  BY DEF P!Registration, R!Registration
<1>4. \A g, k, r : P!Registered(g, k, r) = R!Registered(g, k, r)
  BY DEF P!Registered, R!Registered
<1>5. \A b, k : P!Started(b, k) = R!Started(b, k)
  BY SameStates DEF P!Started, R!Started
<1>6. ASSUME NEW q, P!RevealInvalid(q) PROVE R!RevealInvalid(q)
  BY <1>6, SameRequests, SameFrames DEF P!RevealInvalid, R!RevealInvalid
<1>7. ASSUME NEW q, P!RevealRefused(q) PROVE R!RevealRefused(q)
  BY <1>1, <1>2, <1>7, SameRequests, SameFrames DEF P!RevealRefused, R!RevealRefused
<1>8. ASSUME NEW q, NEW b, P!RevealAccepted(q, b) PROVE R!RevealAccepted(q, b)
  BY <1>1, <1>2, <1>3, <1>4, <1>5, <1>8, SameRequests, SameFrames, SameStates
     DEF P!RevealAccepted, R!RevealAccepted
<1> QED BY <1>6, <1>7, <1>8 DEF P!Reveal, R!Reveal

\* What the indexer answers.
LEMMA SameIndexer ==
  /\ \A o : P!Spendable(o) <=> R!Spendable(o)
  /\ \A k : P!VtxosOf(k) = R!VtxosOf(k)
<1>1. \A o : P!Spendable(o) <=> R!Spendable(o)
  BY DEF P!Spendable, R!Spendable
<1> QED BY <1>1, SameOutputs DEF P!VtxosOf, R!VtxosOf

\* The steps of a goroutine.
LEMMA SameWork ==
  ASSUME NEW g
  PROVE  /\ P!ClaimIfAlreadyFunded(g) => R!ClaimIfAlreadyFunded(g)
         /\ P!MatchRegistered(g) => R!MatchRegistered(g)
         /\ P!GateSpendable(g) => R!GateSpendable(g)
         /\ P!SubmitTx(g) => R!SubmitTx(g)
         /\ P!Remove(g) => R!Remove(g)
         /\ P!Timeout(g) => R!Timeout(g)
         /\ P!Abort(g) => R!Abort(g)
<1>1. P!ClaimIfAlreadyFunded(g) => R!ClaimIfAlreadyFunded(g)
  BY SameIndexer, SameStates, SameFrames
     DEF P!ClaimIfAlreadyFunded, R!ClaimIfAlreadyFunded
<1>2. \A o : P!Claimable(o) <=> R!Claimable(o)
  BY SameOutputs, SameScripts, SamePackets DEF P!Claimable, R!Claimable
<1>3. P!MatchRegistered(g) => R!MatchRegistered(g)
  BY <1>2, SameOutputs, SameClaims, SameStates, SameFrames
     DEF P!MatchRegistered, R!MatchRegistered
<1>4. \A m : P!Solving(g, m) = R!Solving(g, m)
  BY SameStates DEF P!Solving, R!Solving
<1>5. P!GateSpendable(g) => R!GateSpendable(g)
  BY <1>4, SameIndexer, SameStates, SameFrames DEF P!GateSpendable, R!GateSpendable
<1>6. P!SubmitTx(g) => R!SubmitTx(g)
  BY SameIndexer, SameClaims, SameStates DEF P!SubmitTx, R!SubmitTx
<1>7. \A m : P!KeysWithout(m) = R!KeysWithout(m)
  BY DEF P!KeysWithout, R!KeysWithout
<1>8. P!Remove(g) => R!Remove(g)
  BY <1>7, SameStates, SameFrames DEF P!Remove, R!Remove, P!Restrict, R!Restrict
<1>9. P!Abort(g) => R!Abort(g)
  BY SameStates, SameFrames DEF P!Abort, R!Abort, P!Waiting, R!Waiting
<1>10. P!Timeout(g) => R!Timeout(g)
  BY <1>9 DEF P!Timeout, R!Timeout
<1> QED BY <1>1, <1>3, <1>5, <1>6, <1>8, <1>9, <1>10

\* The stream and the indexer.
LEMMA SameWorld ==
  /\ P!Receive => R!Receive
  /\ \A t : P!Index(t) => R!Index(t)
  /\ \A t : P!Stream(t) => R!Stream(t)
  /\ \A t : P!Unheard(t) => R!Unheard(t)
<1>1. P!Receive => R!Receive
  BY SameStates, SameFrames DEF P!Receive, R!Receive
<1>2. \A t : P!Index(t) => R!Index(t)
  BY SameFrames DEF P!Index, R!Index
<1>3. \A t : (P!Carried(t) <=> R!Carried(t)) /\ (P!InOrder(t) <=> R!InOrder(t))
  BY SameFrames DEF P!Carried, R!Carried, P!InOrder, R!InOrder
<1>4. \A t : P!Stream(t) => R!Stream(t)
  BY <1>3 DEF P!Stream, R!Stream
<1>5. \A t : P!Unheard(t) => R!Unheard(t)
  BY <1>3 DEF P!Unheard, R!Unheard
<1> QED BY <1>1, <1>2, <1>4, <1>5

\* The initial states.
LEMMA SameInit == P!Init => R!Init
BY SameStates DEF P!Init, R!Init

\* What RevealPluginProofs assumes follows from the assumptions made here.
LEMMA RevealPluginAssumptions ==
  /\ R!OutputsAssumption /\ R!ClosuresAssumption
  /\ R!BoundsAssumption /\ R!RequestsAssumption
<1>1. R!OutputsAssumption
  BY OutputsAssumption, SameOutputs DEF R!OutputsAssumption
<1>2. R!ClosuresAssumption
  BY ClosuresAssumption DEF R!ClosuresAssumption
<1>3. R!BoundsAssumption
  BY PluginAssumption DEF R!BoundsAssumption
<1>4. R!RequestsAssumption
  BY PluginAssumption, SameRequests DEF R!RequestsAssumption
<1> QED BY <1>1, <1>2, <1>3, <1>4

-----------------------------------------------------------------------------
(***************************************************************************)
(* The plugin in the process.  Two of its steps are none of RevealPlugin:  *)
(* the signal ends a call of the executor without counting as a fault, and *)
(* a transaction passes while nobody listens.                              *)
(***************************************************************************)
LetGo == \E g \in Goroutines : R!Abort(g) /\ UNCHANGED faults

Missed == \E t \in Txs : R!Unheard(t)

\* What a step of the process is for the plugin.
LEMMA PluginSteps ==
  ASSUME [Next]_vars
  PROVE  [R!Next]_R!vars \/ LetGo \/ Missed
<1>1. ASSUME UNCHANGED plugin PROVE UNCHANGED R!vars
  BY <1>1 DEF plugin, R!vars, R!plugin, R!chain, R!history
<1>2. CASE Main \/ ConnectFails \/ BindHTTP \/ Hang \/ CloseStream \/ Cancel \/ UNCHANGED vars
           \/ \E c \in Transports : Arrive(c)
  BY <1>1, <1>2
     DEF Main, Configure, Connect, ConnectFails, Start, Subscribe, RunExecutor, StopHTTP,
         StopGRPC, Exit, BindHTTP, Hang, CloseStream, Cancel, Arrive, vars
<1>3. ASSUME NEW c \in Transports, Answer(c) PROVE [R!Next]_R!vars
  BY <1>1, <1>3, SameReveal DEF Answer, R!Next
<1>4. CASE Consume
  BY <1>1, <1>4, SameWorld DEF Consume, R!Next
<1>5. ASSUME NEW g \in Goroutines, Work(g) PROVE [R!Next]_R!vars \/ LetGo
  <2>1. CASE P!MatchRegistered(g) \/ P!GateSpendable(g) \/ P!SubmitTx(g) \/ P!Remove(g)
    BY <2>1, SameWork, SameStates DEF R!Next, R!Run
  <2>2. CASE g \in Background /\ (P!ClaimIfAlreadyFunded(g) \/ P!Timeout(g))
    BY <2>2, SameWork DEF R!Next
  <2>3. CASE P!Abort(g) /\ UNCHANGED faults
    BY <2>3, SameWork DEF LetGo
  <2> QED BY <1>5, <2>1, <2>2, <2>3 DEF Work
<1>6. CASE World
  BY <1>6, SameWorld, SameOutputs DEF World, R!Next, R!Environment, Missed
<1> QED BY <1>2, <1>3, <1>4, <1>5, <1>6 DEF Next

\* The plugin starts in one of its initial states.
LEMMA PluginInit == Init => R!IInv
BY SameInit, RevealPluginAssumptions, R!InitIInv DEF Init

\* LetGo and Missed keep the invariant of the plugin as its own steps do.
LEMMA PluginNext ==
  ASSUME R!IInv, [Next]_vars
  PROVE  R!IInv'
<1>1. CASE [R!Next]_R!vars
  BY <1>1, RevealPluginAssumptions, R!NextIInv
<1>2. CASE LetGo
  <2>1. PICK g \in R!Goroutines : R!Abort(g) /\ UNCHANGED faults
    BY <1>2, SameStates DEF LetGo
  <2>2. /\ go' = R!Set(g, R!Idle)
        /\ UNCHANGED <<packets, up, now, stream, streamed, indexed, claimed, withdrawn,
                       faults, accepted, submitted>>
    BY <2>1 DEF R!Abort, R!chain, R!history
  <2>3. R!TypeOK /\ R!Carries(R!Idle) /\ R!GoroutineState(R!Idle)
    BY RevealPluginAssumptions, R!CarriesNothing, R!StateFacts DEF R!IInv
  <2>4. DOMAIN go' = R!Goroutines /\ \A h \in R!Goroutines : R!GoroutineState(go'[h])
    BY <2>2, <2>3, RevealPluginAssumptions, R!GoType
  <2>5. R!TypeOK'
    BY <2>2, <2>3, <2>4 DEF R!TypeOK
  <2> QED BY <2>2, <2>3, <2>5, RevealPluginAssumptions, R!GoroutineStep
<1>3. CASE Missed
  <2>1. PICK t \in R!Txs : R!Unheard(t)
    BY <1>3, SameOutputs DEF Missed
  <2>2. /\ streamed' = streamed \cup {t}
        /\ UNCHANGED <<packets, up, go, now, stream, indexed, claimed, withdrawn,
                       faults, accepted, submitted>>
    BY <2>1 DEF R!Unheard, R!Carried, R!plugin, R!history
  <2>3. R!TypeOK'
    BY <2>1, <2>2 DEF R!IInv, R!TypeOK
  <2>4. R!RegistrationsBindTheirAddress' /\ R!SubmittedAreEntitled'
    BY <2>2 DEF R!IInv, R!RegistrationsBindTheirAddress, R!SubmittedAreEntitled, R!Entitled
  <2>5. R!ClaimsInFlightAreEntitled' /\ R!MatchedClaimsBuild' /\ R!RemovalFollowsAcceptance'
    BY <2>2 DEF R!IInv, R!ClaimsInFlightAreEntitled, R!MatchedClaimsBuild,
                R!RemovalFollowsAcceptance, R!Entitled
  <2> QED BY <2>3, <2>4, <2>5 DEF R!IInv
<1> QED BY <1>1, <1>2, <1>3, PluginSteps

\* Around the plugin the process changes nothing that its invariant is about.
LEMMA PluginKept == Spec => []R!IInv
BY PluginInit, PluginNext, PTL DEF Spec

-----------------------------------------------------------------------------
(***************************************************************************)
(* The types of the process's own variables.                               *)
(***************************************************************************)
OwnTypes ==
  /\ held \in HeldPorts /\ {hung, canceled, closed} \subseteq BOOLEAN
  /\ phase \in {"load", "connect", "listen", "running", "stopHTTP", "stopGRPC", "exited"}
  /\ exit \in {"none", "ok", "error"} /\ (exit # "none" <=> phase = "exited")
  /\ main \in {"subscribing", "waiting", "draining", "returned"}
  /\ result \in {"none", "ctx.Err", "ErrAllStreamsClosed"}
  /\ result # "none" <=> main = "returned"
  /\ consumer \in {"none", "skipped", "loop", "draining", "done"}
  /\ received \in Seq(Txs)
  /\ listener \in [Transports -> {"off", "starting", "serving", "failed", "stopped"}]
  /\ calls \subseteq Transports
  /\ arrived \in 0 .. MaxCalls

\* The rest is in the plugin's TypeOK.
LEMMA TypeParts == TypeOK <=> P!TypeOK /\ OwnTypes
BY DEF TypeOK, OwnTypes

\* main starts with nothing configured, bound or subscribed.
LEMMA InitOwnTypes == Init => OwnTypes
<1> SUFFICES ASSUME Init PROVE OwnTypes
  OBVIOUS
<1>1. received \in Seq(Txs)
  BY EmptySeq DEF Init
<1>2. listener \in [Transports -> {"off", "starting", "serving", "failed", "stopped"}]
  BY DEF Init
<1>3. arrived \in 0 .. MaxCalls
  BY CallsAssumption DEF Init
<1>4. /\ held \in HeldPorts /\ {hung, canceled, closed} \subseteq BOOLEAN
      /\ calls \subseteq Transports
  BY DEF Init
<1>5. /\ phase \in {"load", "connect", "listen", "running", "stopHTTP", "stopGRPC", "exited"}
      /\ exit \in {"none", "ok", "error"} /\ (exit # "none" <=> phase = "exited")
      /\ main \in {"subscribing", "waiting", "draining", "returned"}
      /\ result \in {"none", "ctx.Err", "ErrAllStreamsClosed"}
      /\ result # "none" <=> main = "returned"
      /\ consumer \in {"none", "skipped", "loop", "draining", "done"}
  BY DEF Init
<1> QED BY <1>1, <1>2, <1>3, <1>4, <1>5 DEF OwnTypes

\* The steps of run(), of Run and of the goroutine that binds the gateway.
LEMMA MainTypes ==
  ASSUME OwnTypes, Main \/ ConnectFails \/ BindHTTP
  PROVE  OwnTypes'
<1> USE DEF OwnTypes, world, executor, servers, Transports
<1>1. CASE Configure
  BY <1>1 DEF Configure, ExitWith
<1>2. CASE Connect
  BY <1>2 DEF Connect
<1>3. CASE ConnectFails
  BY <1>3 DEF ConnectFails, ExitWith
<1>4. CASE Start
  BY <1>4 DEF Start, ExitWith
<1>5. CASE BindHTTP
  BY <1>5 DEF BindHTTP
<1>6. CASE Subscribe
  BY <1>6 DEF Subscribe
<1>7. CASE RunExecutor
  BY <1>7 DEF RunExecutor
<1>8. CASE StopHTTP
  BY <1>8 DEF StopHTTP
<1>9. CASE StopGRPC
  BY <1>9 DEF StopGRPC
<1>10. CASE Exit
  BY <1>10 DEF Exit, ExitWith, ExitCode
<1> QED BY <1>1, <1>2, <1>3, <1>4, <1>5, <1>6, <1>7, <1>8, <1>9, <1>10 DEF Main

\* The other steps; the consumer takes what was sent.
LEMMA OtherTypes ==
  ASSUME OwnTypes, P!TypeOK,
         \/ \E c \in Transports : Arrive(c) \/ Answer(c)
         \/ Consume
         \/ \E g \in Goroutines : Work(g)
         \/ World \/ Hang \/ CloseStream \/ Cancel \/ UNCHANGED vars
  PROVE  OwnTypes'
<1> USE DEF OwnTypes, world, executor, servers
<1>1. ASSUME NEW c \in Transports, Arrive(c) PROVE OwnTypes'
  BY <1>1, CallsAssumption DEF Arrive
<1>2. ASSUME NEW c \in Transports, Answer(c) PROVE OwnTypes'
  BY <1>2 DEF Answer
<1>3. CASE Consume
  <2>1. received' \in Seq(Txs)
    <3>1. CASE P!Receive /\ received' = Append(received, Head(stream))
      <4>1. stream \in Seq(Txs) /\ stream # <<>>
        BY <3>1, SameOutputs DEF P!TypeOK, P!Receive
      <4>2. Head(stream) \in Txs
        BY ONLY <4>1, HeadTailProperties
      <4> QED BY <3>1, <4>2, AppendProperties
    <3> QED BY <1>3, <3>1 DEF Consume
  <2> QED BY <1>3, <2>1 DEF Consume
<1>4. ASSUME NEW g \in Goroutines, Work(g) PROVE OwnTypes'
  BY <1>4 DEF Work
<1>5. CASE World \/ Hang \/ CloseStream \/ Cancel \/ UNCHANGED vars
  BY <1>5 DEF World, Hang, CloseStream, Cancel, vars
<1> QED BY <1>1, <1>2, <1>3, <1>4, <1>5

\* One step keeps the types.
LEMMA NextOwnTypes ==
  ASSUME OwnTypes, P!TypeOK, [Next]_vars
  PROVE  OwnTypes'
BY MainTypes, OtherTypes DEF Next

-----------------------------------------------------------------------------
(***************************************************************************)
(* The listeners and how far the process is.                               *)
(***************************************************************************)
\* config.go: equal ports are refused.
LEMMA PortsDiffer ==
  ASSUME NEW env, Load(env) # None
  PROVE  Load(env).grpc # Load(env).http
<1> DEFINE ports == PortsOf(env)
<1>1. ports # None /\ Load(env).grpc = ports[1] /\ Load(env).http = ports[2]
  BY DEF Load
<1>2. ports[1] # ports[2]
  BY <1>1 DEF PortsOf
<1> QED BY <1>1, <1>2

\* The ports of an accepted configuration stay different, so only another
\* process can hold the one of the gateway.
LEMMA NextListenersApart ==
  ASSUME OwnTypes, ListenersApart, [Next]_vars
  PROVE  ListenersApart'
<1> USE DEF OwnTypes, ListenersApart, GatewayFailsForCause, world, servers, Transports
<1>1. CASE Configure
  BY <1>1, PortsDiffer DEF Configure, ExitWith
<1>2. CASE Connect \/ ConnectFails \/ Exit
  BY <1>2 DEF Connect, ConnectFails, Exit, ExitWith
<1>3. CASE Start
  BY <1>3 DEF Start, ExitWith
<1>4. CASE BindHTTP
  BY <1>4 DEF BindHTTP, Alive
<1>5. CASE StopHTTP \/ StopGRPC
  BY <1>5 DEF StopHTTP, StopGRPC
<1>6. CASE UNCHANGED <<cfg, phase, held, listener>>
  BY <1>6
<1>7. ASSUME Subscribe \/ RunExecutor \/ Consume \/ World \/ Hang \/ CloseStream \/ Cancel
             \/ UNCHANGED vars
      PROVE  UNCHANGED <<cfg, phase, held, listener>>
  BY <1>7 DEF Subscribe, RunExecutor, Consume, World, Hang, CloseStream, Cancel, vars
<1>8. ASSUME NEW c \in Transports, Arrive(c) \/ Answer(c)
      PROVE  UNCHANGED <<cfg, phase, held, listener>>
  BY <1>8 DEF Arrive, Answer
<1>9. ASSUME NEW g \in Goroutines, Work(g)
      PROVE  UNCHANGED <<cfg, phase, held, listener>>
  BY <1>9 DEF Work
<1> HIDE DEF OwnTypes, ListenersApart
<1> QED BY <1>1, <1>2, <1>3, <1>4, <1>5, <1>6, <1>7, <1>8, <1>9 DEF Next, Main

\* What the work of a goroutine leaves alone.
LEMMA WorkFrame ==
  ASSUME NEW g, Work(g)
  PROVE  /\ Alive
         /\ UNCHANGED <<stream, streamed>>
         /\ UNCHANGED <<cfg, world, phase, exit, canceled, executor, closed, servers>>
BY DEF Work, P!MatchRegistered, P!GateSpendable, P!SubmitTx, P!Remove, P!ClaimIfAlreadyFunded,
       P!Timeout, P!Abort, P!chain

\* What the end of a call leaves alone.
LEMMA AnswerFrame ==
  ASSUME NEW c, Answer(c)
  PROVE  /\ Alive
         /\ UNCHANGED <<stream, streamed>>
         /\ UNCHANGED <<cfg, world, phase, exit, canceled, executor, closed, listener, arrived>>
BY DEF Answer, P!Reveal, P!RevealInvalid, P!RevealRefused, P!RevealAccepted, P!chain, P!vars, plugin

\* Each of run(), Run and consume waits for the next; a cancellation and the end
\* of the stream are never taken back.
LEMMA NextInStep ==
  ASSUME OwnTypes, P!TypeOK, InStep, [Next]_vars
  PROVE  InStep'
<1> USE DEF InStep, ConsumerEnded, StreamOver, plugin, world, executor, servers
<1>1. CASE Configure
  BY <1>1 DEF Configure, ExitWith
<1>2. CASE Connect
  BY <1>2 DEF Connect
<1>3. CASE ConnectFails
  BY <1>3 DEF ConnectFails, ExitWith
<1>4. CASE Start
  BY <1>4 DEF Start, ExitWith
<1>5. CASE Subscribe
  BY <1>5 DEF Subscribe
<1>6. CASE RunExecutor
  BY <1>6 DEF RunExecutor, OwnTypes
<1>7. CASE StopHTTP \/ StopGRPC
  BY <1>7 DEF StopHTTP, StopGRPC
<1>8. CASE Exit
  BY <1>8 DEF Exit, ExitWith, ExitCode, OwnTypes
<1>9. CASE Consume
  <2>1. CASE consumer = "loop" /\ UNCHANGED consumer
    BY <1>9, <2>1 DEF Consume, OwnTypes
  <2>2. CASE consumer' # consumer
    BY <1>9, <2>2 DEF Consume, OwnTypes
  <2> QED BY <1>9, <2>1, <2>2 DEF Consume
<1>10. CASE World
  <2>1. CASE Listening
    BY <1>10, <2>1 DEF World, Listening
  <2>2. CASE ~ Listening
    BY <1>10, <2>2 DEF World, P!Index, P!Unheard
  <2> QED BY <2>1, <2>2
<1>11. CASE CloseStream
  BY <1>11 DEF CloseStream
<1>12. CASE Cancel
  BY <1>12 DEF Cancel
<1>13. CASE UNCHANGED <<phase, exit, canceled, main, result, consumer, closed, stream>>
  BY <1>13
<1>14. ASSUME BindHTTP \/ Hang \/ UNCHANGED vars
       PROVE  UNCHANGED <<phase, exit, canceled, main, result, consumer, closed, stream>>
  BY <1>14 DEF BindHTTP, Hang, vars
<1>15. ASSUME NEW c \in Transports, Arrive(c) \/ Answer(c)
       PROVE  UNCHANGED <<phase, exit, canceled, main, result, consumer, closed, stream>>
  BY <1>15, AnswerFrame DEF Arrive
<1>16. ASSUME NEW g \in Goroutines, Work(g)
       PROVE  UNCHANGED <<phase, exit, canceled, main, result, consumer, closed, stream>>
  BY <1>16, WorkFrame
<1> HIDE DEF InStep
<1> QED BY <1>1, <1>2, <1>3, <1>4, <1>5, <1>6, <1>7, <1>8, <1>9, <1>10, <1>11, <1>12,
           <1>13, <1>14, <1>15, <1>16 DEF Next, Main

-----------------------------------------------------------------------------
(***************************************************************************)
(* The goroutines of the executor: what Work(g) does to g and to the others. *)
(***************************************************************************)
\* The states that a goroutine goes through.
LEMMA States ==
  /\ P!Idle.pc = "idle"
  /\ \A k : P!Looking(k).pc = "lookup"
  /\ \A t, i : P!Scanning(t, i).pc = "scan" /\ P!Scanning(t, i).tx = t
  /\ \A m : /\ P!Gating(m).pc = "gate" /\ P!Gating(m).claim = m
            /\ P!Claiming(m).pc = "claim" /\ P!Removing(m).pc = "remove"
  /\ \A o, p, t : P!MatchedClaim(o, p, t).outpoint = o
BY DEF P!Idle, P!Looking, P!Scanning, P!Gating, P!Claiming, P!Removing, P!MatchedClaim

\* The transaction that the consumer took last.
LEMMA Latest ==
  ASSUME OwnTypes, received # <<>>
  PROVE  /\ Len(received) \in DOMAIN received
         /\ received[Len(received)] \in Txs
BY DEF OwnTypes

\* Any goroutine but the consumer changes its own state only, and works only
\* while it is not idle.
LEMMA SolveWork ==
  ASSUME NEW g \in Goroutines, g # Consumer, Work(g)
  PROVE  /\ go[g] # P!Idle
         /\ \E s : go' = [go EXCEPT ![g] = s]
<1>1. CASE P!MatchRegistered(g)
  BY <1>1, States DEF P!MatchRegistered, P!Set
<1>2. CASE P!GateSpendable(g)
  BY <1>2, States DEF P!GateSpendable, P!Solving, P!Set
<1>3. CASE P!SubmitTx(g)
  BY <1>3, States DEF P!SubmitTx, P!Set
<1>4. CASE P!Remove(g) \/ P!ClaimIfAlreadyFunded(g)
  BY <1>4, States DEF P!Remove, P!ClaimIfAlreadyFunded, P!Set
<1>5. CASE P!Abort(g)
  BY <1>5, States DEF P!Abort, P!Waiting, P!Set
<1> QED BY <1>1, <1>2, <1>3, <1>4, <1>5 DEF Work, P!Timeout

\* The consumer stays with the transaction it took last, or is done with it and
\* leaves the claim to the goroutine of that transaction.
LEMMA ConsumerWork ==
  ASSUME OwnTypes, SolvesAreTaken, Work(Consumer)
  PROVE  LET latest == received[Len(received)]
         IN  /\ go[Consumer] # P!Idle
             /\ \/ \E s : /\ go' = [go EXCEPT ![Consumer] = s]
                          /\ \/ s = P!Idle
                             \/ s.pc = "scan" /\ s.tx = latest
                             \/ s.pc = "gate" /\ s.claim.outpoint.tx = latest
                \/ \E m : go' = [go EXCEPT ![Consumer] = P!Idle, ![latest] = P!Claiming(m)]
<1> DEFINE latest == received[Len(received)]
<1>1. /\ Consumer \notin Background
      /\ go[Consumer] # P!Idle => \/ go[Consumer].pc = "scan" /\ go[Consumer].tx = latest
                                  \/ /\ go[Consumer].pc = "gate"
                                     /\ go[Consumer].claim.outpoint.tx = latest
  BY GoroutinesAssumption DEF SolvesAreTaken
<1> HIDE DEF latest
<1>2. CASE P!MatchRegistered(Consumer)
  <2>1. go[Consumer].pc = "scan" /\ go[Consumer] # P!Idle /\ go[Consumer].tx = latest
    BY <1>1, <1>2, States DEF P!MatchRegistered
  <2> DEFINE o == [tx |-> go[Consumer].tx, vout |-> go[Consumer].vout]
  <2>2. o.tx = latest
    BY <2>1
  <2> DEFINE taken(s) ==
        \/ s = P!Idle
        \/ s.pc = "scan" /\ s.tx = latest
        \/ s.pc = "gate" /\ s.claim.outpoint.tx = latest
  <2> HIDE DEF o
  <2>3. /\ taken(P!Idle)
        /\ \A i : taken(P!Scanning(o.tx, i))
        /\ \A p, t : taken(P!Gating(P!MatchedClaim(o, p, t)))
    BY <2>2, States
  <2> HIDE DEF taken
  <2>4. \/ go' = [go EXCEPT ![Consumer] = P!Idle]
        \/ \E i : go' = [go EXCEPT ![Consumer] = P!Scanning(o.tx, i)]
        \/ \E p, t : go' = [go EXCEPT ![Consumer] = P!Gating(P!MatchedClaim(o, p, t))]
    <3> DEFINE r == packets[P!OutputAt(o).pkScript]
    <3> HIDE DEF r
    <3>1. \/ go' = P!Set(Consumer, P!Idle)
          \/ go' = P!Set(Consumer, P!Scanning(o.tx, o.vout + 1))
          \/ go' = P!Set(Consumer, P!Gating(P!MatchedClaim(o, r.packet, r.taptree)))
      BY <1>2 DEF P!MatchRegistered, o, r
    <3> QED BY <3>1 DEF P!Set
  <2>5. \E s : go' = [go EXCEPT ![Consumer] = s] /\ taken(s)
    BY <2>3, <2>4
  <2> QED BY <2>1, <2>5 DEF taken, latest
<1>3. CASE P!GateSpendable(Consumer)
  <2>1. go[Consumer].pc = "gate" /\ go[Consumer] # P!Idle
        /\ go[Consumer].claim.outpoint.tx = latest
    BY <1>1, <1>3, States DEF P!GateSpendable
  <2> QED BY <1>3, <2>1, States DEF P!GateSpendable, P!Solving, P!Set, latest
<1>4. CASE P!SubmitTx(Consumer) \/ P!Remove(Consumer)
  BY <1>1, <1>4, States DEF P!SubmitTx, P!Remove
<1>5. CASE P!Abort(Consumer)
  BY <1>5, States DEF P!Abort, P!Waiting, P!Set
<1> QED BY <1>1, <1>2, <1>3, <1>4, <1>5 DEF Work, latest

\* Nothing else touches the goroutines of the executor: those of Submit are
\* others.
LEMMA RestKeepsGo ==
  ASSUME P!TypeOK,
         \/ Main \/ ConnectFails \/ BindHTTP \/ World \/ Hang \/ CloseStream \/ Cancel
         \/ UNCHANGED vars
         \/ \E c \in Transports : Arrive(c) \/ Answer(c)
         \/ \E g \in Background : Work(g)
  PROVE  \A g \in Txs \cup {Consumer} : go'[g] = go[g]
<1> DEFINE same == \A g \in Txs \cup {Consumer} : go'[g] = go[g]
<1>1. CASE Main \/ ConnectFails \/ BindHTTP \/ Hang \/ CloseStream \/ Cancel \/ UNCHANGED vars
           \/ \E c \in Transports : Arrive(c)
  BY <1>1
     DEF Main, Configure, Connect, ConnectFails, Start, Subscribe, RunExecutor, StopHTTP,
         StopGRPC, Exit, BindHTTP, Hang, CloseStream, Cancel, Arrive, vars, plugin
<1>2. CASE World
  BY <1>2 DEF World, P!Index, P!Stream, P!Unheard, P!Carried, P!plugin
<1>3. ASSUME NEW c \in Transports, Answer(c) PROVE same
  <2>1. ASSUME NEW q, NEW b \in Background, P!RevealAccepted(q, b) PROVE same
    BY <2>1, GoroutinesAssumption DEF P!RevealAccepted, P!Started
  <2>2. ASSUME NEW q, P!RevealInvalid(q) \/ P!RevealRefused(q) PROVE same
    BY <2>2 DEF P!RevealInvalid, P!RevealRefused, P!vars, P!plugin
  <2> QED BY <1>3, <2>1, <2>2 DEF Answer, P!Reveal, plugin
<1>4. ASSUME NEW g \in Background, Work(g) PROVE same
  <2>1. g \in Goroutines /\ g \notin Txs \cup {Consumer} /\ g # Consumer
    BY GoroutinesAssumption DEF Goroutines
  <2>2. PICK s : go' = [go EXCEPT ![g] = s]
    BY <1>4, <2>1, SolveWork
  <2>3. Txs \cup {Consumer} \subseteq DOMAIN go
    BY SameStates DEF P!TypeOK, Goroutines
  <2> QED BY <2>1, <2>2, <2>3
<1> QED BY <1>1, <1>2, <1>3, <1>4

\* Idle is a constant.
LEMMA IdleStays == P!Idle' = P!Idle
BY DEF P!Idle

\* When no goroutine of the executor starts anything and the consumer is either
\* where it was or not in Match.
LEMMA SolvesKept ==
  ASSUME SolvesAreTaken, UNCHANGED received, go'[Consumer] = go[Consumer],
         \A t \in Txs : go'[t] # P!Idle => go[t] # P!Idle,
         consumer' = consumer \/ go[Consumer] = P!Idle,
         consumer' \in {"none", "skipped", "done"} => Started = {}
  PROVE  SolvesAreTaken'
<1>1. go'[Consumer] # P!Idle =>
       /\ consumer' = "loop" /\ received' # <<>>
       /\ LET latest == received'[Len(received')]
          IN  \/ go'[Consumer].pc = "scan" /\ go'[Consumer].tx = latest
              \/ go'[Consumer].pc = "gate" /\ go'[Consumer].claim.outpoint.tx = latest
  BY DEF SolvesAreTaken
<1>2. \A t \in Txs : go'[t] # P!Idle => \E i \in DOMAIN received' : received'[i] = t
  BY DEF SolvesAreTaken
<1>3. consumer' \in {"none", "skipped", "done"} => Started' = {}
  BY IdleStays DEF Started
<1> QED BY <1>1, <1>2, <1>3, IdleStays DEF SolvesAreTaken

\* Receive begins a Match for the transaction that is now the last one, the end
\* of Match may start its Solve, and consume ends only when all are idle.
LEMMA NextSolvesAreTaken ==
  ASSUME OwnTypes, P!TypeOK, SolvesAreTaken, [Next]_vars
  PROVE  SolvesAreTaken'
<1>1. Txs \cup {Consumer} \subseteq DOMAIN go /\ Consumer \notin Txs
  BY SameStates, GoroutinesAssumption DEF P!TypeOK, Goroutines
<1>2. consumer \in {"none", "skipped", "done"} => Started = {}
  BY DEF SolvesAreTaken
<1>3. ASSUME \/ Main \/ ConnectFails \/ BindHTTP \/ World \/ Hang \/ CloseStream \/ Cancel
             \/ UNCHANGED vars
             \/ \E c \in Transports : Arrive(c) \/ Answer(c)
             \/ \E g \in Background : Work(g)
      PROVE  SolvesAreTaken'
  <2>1. UNCHANGED received /\ (consumer' = consumer \/ consumer = "none")
    BY <1>3, WorkFrame, AnswerFrame
       DEF Main, Configure, Connect, ConnectFails, Start, Subscribe, RunExecutor, StopHTTP,
           StopGRPC, Exit, BindHTTP, World, Hang, CloseStream, Cancel, Arrive, vars, executor
  <2>2. \A g \in Txs \cup {Consumer} : go'[g] = go[g]
    BY <1>3, RestKeepsGo
  <2>3. consumer = "none" => go[Consumer] = P!Idle
    BY DEF SolvesAreTaken
  <2>4. consumer' \in {"none", "skipped", "done"} => Started = {}
    BY <1>2, <2>1
  <2> QED BY <2>1, <2>2, <2>3, <2>4, SolvesKept
<1>4. ASSUME NEW g \in Txs, Work(g) PROVE SolvesAreTaken'
  <2>1. g \in Goroutines /\ g # Consumer
    BY <1>1 DEF Goroutines
  <2>2. go[g] # P!Idle
    BY <1>4, <2>1, SolveWork
  <2>3. PICK s : go' = [go EXCEPT ![g] = s]
    BY <1>4, <2>1, SolveWork
  <2>4. go'[Consumer] = go[Consumer] /\ \A t \in Txs : go'[t] # P!Idle => go[t] # P!Idle
    BY <1>1, <2>1, <2>2, <2>3
  <2>5. UNCHANGED received /\ consumer' = consumer
    BY <1>4, WorkFrame DEF executor
  <2> QED BY <1>2, <2>4, <2>5, SolvesKept
<1>5. CASE Work(Consumer)
  <2> DEFINE latest == received[Len(received)]
  <2>1. consumer = "loop" /\ received # <<>>
    BY <1>5, ConsumerWork DEF SolvesAreTaken
  <2>2. UNCHANGED received /\ consumer' = "loop"
    BY <1>5, <2>1, WorkFrame DEF executor
  <2>3. latest \in Txs /\ \E i \in DOMAIN received : received[i] = latest
    BY <2>1, Latest
  <2> HIDE DEF latest
  <2>4. ASSUME NEW s, go' = [go EXCEPT ![Consumer] = s],
               \/ s = P!Idle
               \/ s.pc = "scan" /\ s.tx = latest
               \/ s.pc = "gate" /\ s.claim.outpoint.tx = latest
        PROVE  SolvesAreTaken'
    <3>1. go'[Consumer] = s /\ \A t \in Txs : go'[t] = go[t]
      BY <1>1, <2>4
    <3>2. received' # <<>> /\ latest = received'[Len(received')]
      BY <2>1, <2>2 DEF latest
    <3>3. \A t \in Txs : go'[t] # P!Idle => \E i \in DOMAIN received' : received'[i] = t
      BY <2>2, <3>1 DEF SolvesAreTaken
    <3> QED BY <2>2, <2>4, <3>1, <3>2, <3>3, IdleStays DEF SolvesAreTaken
  <2>5. ASSUME NEW m, go' = [go EXCEPT ![Consumer] = P!Idle, ![latest] = P!Claiming(m)]
        PROVE  SolvesAreTaken'
    <3>1. go'[Consumer] = P!Idle /\ \A t \in Txs : t # latest => go'[t] = go[t]
      BY <1>1, <2>3, <2>5
    <3>2. \A t \in Txs : go'[t] # P!Idle => \E i \in DOMAIN received' : received'[i] = t
      BY <2>2, <2>3, <3>1 DEF SolvesAreTaken
    <3> QED BY <2>2, <3>1, <3>2, IdleStays DEF SolvesAreTaken
  <2> QED BY <1>5, <2>4, <2>5, ConsumerWork DEF latest
<1>6. CASE Consume
  <2>1. CASE /\ consumer = "loop" /\ P!Receive
             /\ received' = Append(received, Head(stream)) /\ UNCHANGED consumer
    <3>1. stream \in Seq(Txs) /\ stream # <<>>
      BY <2>1, SameOutputs DEF P!TypeOK, P!Receive
    <3> DEFINE tx == Head(stream)
    <3>2. tx \in Txs
      BY ONLY <3>1, HeadTailProperties
    <3> HIDE DEF tx
    <3>3. /\ received' # <<>> /\ received'[Len(received')] = tx
          /\ \A i \in DOMAIN received : i \in DOMAIN received' /\ received'[i] = received[i]
      <4>1. received \in Seq(Txs) /\ received' = Append(received, tx)
        BY <2>1 DEF OwnTypes, tx
      <4> QED BY ONLY <3>2, <4>1, AppendProperties
    <3>4. go' = [go EXCEPT ![Consumer] = P!Scanning(tx, 1)]
      BY <2>1 DEF P!Receive, P!Set, tx
    <3>5. go'[Consumer] = P!Scanning(tx, 1) /\ \A t \in Txs : go'[t] = go[t]
      BY <1>1, <3>4
    <3>6. go'[Consumer].pc = "scan" /\ go'[Consumer].tx = tx
      BY <3>5, States
    <3>7. \A t \in Txs : go'[t] # P!Idle => \E i \in DOMAIN received' : received'[i] = t
      BY <3>3, <3>5 DEF SolvesAreTaken
    <3>8. consumer' = "loop"
      BY <2>1
    <3> QED BY <3>3, <3>6, <3>7, <3>8, IdleStays DEF SolvesAreTaken
  <2>2. CASE /\ UNCHANGED <<plugin, received>> /\ go[Consumer] = P!Idle
             /\ consumer' = "draining" \/ Drained
    <3>1. go' = go /\ UNCHANGED received
      BY <2>2 DEF plugin
    <3>2. consumer' \in {"none", "skipped", "done"} => Started = {}
      BY <2>2 DEF Drained
    <3> QED BY <2>2, <3>1, <3>2, SolvesKept
  <2> QED BY <1>6, <2>1, <2>2 DEF Consume
<1> QED BY <1>3, <1>4, <1>5, <1>6 DEF Next, Goroutines

-----------------------------------------------------------------------------
(***************************************************************************)
(* What was sent and taken.                                                *)
(***************************************************************************)
\* There is room for a transaction that was not sent yet.
LEMMA StreamGrows ==
  ASSUME NEW S \in SUBSET Txs, NEW t \in Txs \ S
  PROVE  /\ Cardinality(S) \in Nat /\ Cardinality(S) < Cardinality(Txs)
         /\ Cardinality(S \cup {t}) = Cardinality(S) + 1
<1>1. IsFiniteSet(S)
  BY GoroutinesAssumption, FS_Subset
<1>2. Cardinality(S) \in Nat /\ Cardinality(S \cup {t}) = Cardinality(S) + 1
  BY <1>1, FS_CardinalityType, FS_AddElement
<1>3. Cardinality(S \cup {t}) <= Cardinality(Txs) /\ Cardinality(Txs) \in Nat
  BY GoroutinesAssumption, FS_Subset, FS_CardinalityType
<1> QED BY <1>2, <1>3

\* Receive moves the head of the stream to the end of what was taken; Stream adds
\* a transaction that was in neither.
LEMMA NextTakenOnce ==
  ASSUME OwnTypes, P!TypeOK, TakenOnce, [Next]_vars
  PROVE  TakenOnce'
<1>1. received \in Seq(Txs) /\ stream \in Seq(Txs) /\ streamed \subseteq Txs
  BY SameOutputs DEF OwnTypes, P!TypeOK
<1>2. CASE UNCHANGED <<received, stream, streamed>>
  BY <1>2 DEF TakenOnce
<1>3. ASSUME \/ Main \/ ConnectFails \/ BindHTTP \/ Hang \/ CloseStream \/ Cancel
             \/ UNCHANGED vars
             \/ \E c \in Transports : Arrive(c) \/ Answer(c)
             \/ \E g \in Goroutines : Work(g)
      PROVE  UNCHANGED <<received, stream, streamed>>
  BY <1>3, WorkFrame, AnswerFrame
     DEF Main, Configure, Connect, ConnectFails, Start, Subscribe, RunExecutor, StopHTTP,
         StopGRPC, Exit, BindHTTP, Hang, CloseStream, Cancel, Arrive, vars, plugin, executor
<1>4. CASE Consume
  <2>1. CASE UNCHANGED <<plugin, received>>
    BY <1>2, <2>1 DEF plugin
  <2>2. CASE P!Receive /\ received' = Append(received, Head(stream))
    <3>1. stream # <<>> /\ stream' = Tail(stream) /\ UNCHANGED streamed
      BY <2>2 DEF P!Receive
    <3>2. /\ Head(stream) = stream[1] /\ 1 \in DOMAIN stream
          /\ Len(stream') = Len(stream) - 1
          /\ \A j \in DOMAIN stream' : j + 1 \in DOMAIN stream /\ stream'[j] = stream[j + 1]
          /\ \A j \in DOMAIN stream' : j \in Nat /\ j + 1 # 1
      BY <1>1, <3>1
    <3>3. /\ Len(received') = Len(received) + 1
          /\ DOMAIN received' = DOMAIN received \cup {Len(received) + 1}
          /\ received'[Len(received) + 1] = stream[1]
          /\ \A i \in DOMAIN received : received'[i] = received[i]
      BY <1>1, <2>2, <3>2
    <3>4. Len(received') + Len(stream') <= Cardinality(streamed')
      BY <1>1, <3>1, <3>2, <3>3 DEF TakenOnce
    <3>5. \A i \in DOMAIN received : received[i] # stream[1]
      BY <3>2 DEF TakenOnce
    <3>6. \A i, j \in DOMAIN received' : received'[i] = received'[j] => i = j
      BY <3>3, <3>5 DEF TakenOnce
    <3>7. \A i, j \in DOMAIN stream' : stream'[i] = stream'[j] => i = j
      BY <1>1, <3>2 DEF TakenOnce
    <3>8. \A j \in DOMAIN stream' : stream'[j] # stream[1]
      BY <3>2 DEF TakenOnce
    <3>9. \A i \in DOMAIN received', j \in DOMAIN stream' : received'[i] # stream'[j]
      BY <3>2, <3>3, <3>8 DEF TakenOnce
    <3>10. /\ \A i \in DOMAIN received' : received'[i] \in streamed'
           /\ \A j \in DOMAIN stream' : stream'[j] \in streamed'
      BY <3>1, <3>2, <3>3 DEF TakenOnce
    <3> QED BY <3>4, <3>6, <3>7, <3>9, <3>10 DEF TakenOnce
  <2> QED BY <1>4, <2>1, <2>2 DEF Consume
<1>5. CASE World
  <2>1. PICK t \in Txs : P!Index(t) \/ P!Stream(t) \/ P!Unheard(t)
    BY <1>5 DEF World
  <2>2. UNCHANGED received
    BY <1>5 DEF World, executor
  <2>3. CASE P!Index(t)
    BY <1>2, <2>2, <2>3 DEF P!Index
  <2>4. CASE P!Stream(t) \/ P!Unheard(t)
    <3>1. t \notin streamed /\ streamed' = streamed \cup {t}
      BY <2>4 DEF P!Stream, P!Unheard, P!Carried
    <3>2. Cardinality(streamed) \in Nat /\ Cardinality(streamed') = Cardinality(streamed) + 1
      BY <1>1, <3>1, StreamGrows
    <3>3. CASE UNCHANGED stream
      BY <1>1, <2>2, <3>1, <3>2, <3>3 DEF TakenOnce
    <3>4. CASE stream' = Append(stream, t)
      <4>1. /\ Len(stream') = Len(stream) + 1
            /\ DOMAIN stream' = DOMAIN stream \cup {Len(stream) + 1}
            /\ stream'[Len(stream) + 1] = t
            /\ \A j \in DOMAIN stream : stream'[j] = stream[j]
        BY <1>1, <3>4
      <4>2. Len(received') + Len(stream') <= Cardinality(streamed')
        BY <1>1, <2>2, <3>2, <4>1 DEF TakenOnce
      <4>3. /\ \A i \in DOMAIN received : received[i] # t
            /\ \A j \in DOMAIN stream : stream[j] # t
        BY <3>1 DEF TakenOnce
      <4> QED BY <2>2, <3>1, <4>1, <4>2, <4>3 DEF TakenOnce
    <3> QED BY <2>4, <3>3, <3>4 DEF P!Stream, P!Unheard
  <2> QED BY <2>1, <2>3, <2>4
<1> QED BY <1>2, <1>3, <1>4, <1>5 DEF Next

-----------------------------------------------------------------------------
(***************************************************************************)
(* The inductive invariant, and what follows from it.                      *)
(***************************************************************************)
IInvParts ==
  P!IInv /\ OwnTypes /\ ListenersApart /\ InStep /\ SolvesAreTaken /\ TakenOnce

\* IInv with its parts told apart.
LEMMA PartsAreIInv == IInvParts <=> IInv
BY TypeParts DEF IInvParts, IInv, P!IInv

\* It holds when the process starts.
LEMMA InitIInv == Init => IInvParts
<1> SUFFICES ASSUME Init PROVE IInvParts
  OBVIOUS
<1>1. P!IInv
  BY PluginInit, SameInvariant
<1>2. OwnTypes
  BY InitOwnTypes
<1>3. ListenersApart
  BY DEF Init, ListenersApart, GatewayFailsForCause, Transports
<1>4. InStep
  BY DEF Init, InStep
<1>5. SolvesAreTaken
  <2>1. \A g \in Txs \cup {Consumer} : go[g] = P!Idle
    BY SameStates DEF Init, P!Init, Goroutines
  <2> QED BY <2>1 DEF SolvesAreTaken, Started
<1>6. TakenOnce
  <2>1. stream = <<>> /\ streamed = {} /\ received = <<>>
    BY DEF Init, P!Init
  <2>2. Cardinality(streamed) = 0
    BY <2>1, FS_EmptySet
  <2> QED BY <2>1, <2>2 DEF TakenOnce
<1> QED BY <1>1, <1>2, <1>3, <1>4, <1>5, <1>6 DEF IInvParts

\* A step keeps it.
LEMMA NextIInv ==
  ASSUME IInvParts, [Next]_vars
  PROVE  IInvParts'
<1>1. P!TypeOK /\ R!IInv
  BY SameInvariant DEF IInvParts, P!IInv
<1>2. R!IInv'
  BY <1>1, PluginNext
<1>3. P!IInv'
  BY <1>2, SameInvariantNext
<1> QED BY <1>1, <1>3, NextOwnTypes, NextListenersApart, NextInStep, NextSolvesAreTaken,
           NextTakenOnce DEF IInvParts

\* cmd/covclaimd/main.go and executor.go: signals, hanging calls, the end of the
\* stream and the servers leave the plugin's claims entitled and its Solves tied
\* to transactions that the consumer took, in every state of the process.
THEOREM Invariance == Spec => []IInv
<1>1. Spec => []IInvParts
  BY InitIInv, NextIInv, PTL DEF Spec
<1> QED BY <1>1, PartsAreIInv, PTL

\* Every variable of the process stays in its type; run() has ended exactly when
\* there is an exit code, and Run exactly when it has a result.
THEOREM TypeCorrect == Spec => []TypeOK
<1>1. IInv => TypeOK
  BY DEF IInv
<1> QED BY <1>1, Invariance, PTL

\* executor.go:62-64 "Run waits for all in-flight Solves before returning": from
\* its return to the closing of the connections no goroutine of the executor is at
\* work, whether the stream ended or a signal came.
THEOREM DrainsBeforeClose == Spec => []DrainedBeforeClose
<1>1. IInv => DrainedBeforeClose
  BY DEF IInv, InStep, ConsumerEnded, SolvesAreTaken, DrainedBeforeClose
<1> QED BY <1>1, Invariance, PTL

\* server.go and config.go: whenever the two listeners are bound, and by whichever
\* goroutine, the gateway fails only if another process holds its port.
THEOREM GatewayForCause == Spec => []GatewayFailsForCause
<1>1. IInv => GatewayFailsForCause
  BY DEF IInv, ListenersApart
<1> QED BY <1>1, Invariance, PTL

\* main.go:132: the exit code tells a signal from an error, also when the two come
\* together and Run's two selects may take either.
THEOREM ExitForCause == Spec => []ExitTellsWhy
<1>1. IInv => ExitTellsWhy
  BY DEF IInv, InStep, ConsumerEnded, StreamOver, SolvesAreTaken, ExitTellsWhy
<1> QED BY <1>1, Invariance, PTL

-----------------------------------------------------------------------------
(***************************************************************************)
(* The process implements module Executor.                                 *)
(***************************************************************************)
\* One plugin: a function over 1 .. 1 is a tuple of one.
LEMMA One ==
  ASSUME NEW e, NEW f
  PROVE  /\ <<e>>[1] = e
         /\ [<<e>> EXCEPT ![1] = f] = <<f>>
         /\ [p \in 1 .. 1 |-> e] = <<e>>
OBVIOUS

\* No plugin is subscribed yet.
LEMMA InitImplements == Init => X!Init
<1> SUFFICES ASSUME Init PROVE X!Init
  OBVIOUS
<1>1. received = <<>> /\ stream = <<>> /\ go[Consumer] = P!Idle
  BY SameStates DEF Init, P!Init, Goroutines
<1>2. NextPlugin = 1 /\ ConsumerAt = "none" /\ Solves = {} /\ Len(received) = 0
  BY <1>1 DEF Init, NextPlugin, ConsumerAt, Solves
<1>3. Sent = <<>>
  BY <1>1 DEF Sent
<1>4. canceled = FALSE /\ main = "subscribing" /\ result = "none" /\ closed = FALSE
  BY DEF Init
<1> QED BY <1>2, <1>3, <1>4, One DEF X!Init, X!Plugins

\* What Executor does not see.
LEMMA Stutters ==
  ASSUME UNCHANGED <<canceled, main, result, NextPlugin, Sent, closed, Len(received),
                     ConsumerAt, Solves>>
  PROVE  UNCHANGED X!vars
BY DEF X!vars, X!run, X!source

\* What goes on outside Run, its consumer and its source.
LEMMA OutsideStutters ==
  ASSUME UNCHANGED <<canceled, main, result, consumer, closed, received, stream>>,
         \A g \in Txs \cup {Consumer} : go'[g] = go[g],
         OwnTypes
  PROVE  UNCHANGED X!vars
<1>1. UNCHANGED <<NextPlugin, Sent, Len(received)>>
  BY DEF NextPlugin, Sent
<1>2. UNCHANGED ConsumerAt
  BY IdleStays DEF ConsumerAt
<1>3. UNCHANGED Solves
  <2>1. \A i \in DOMAIN received : received[i] \in Txs
    BY DEF OwnTypes
  <2> QED BY <2>1, IdleStays DEF Solves
<1> QED BY <1>1, <1>2, <1>3, Stutters

\* Run, the source and the signal are those of Executor.
LEMMA RunImplements ==
  ASSUME IInvParts,
         Subscribe \/ RunExecutor \/ CloseStream \/ Cancel
  PROVE  X!Next
<1>1. UNCHANGED <<received, stream, go, Sent, Len(received), Solves>>
  BY DEF Subscribe, RunExecutor, CloseStream, Cancel, plugin, executor, Sent, Solves, P!Idle
<1>2. /\ go[Consumer] # P!Idle => consumer = "loop"
      /\ consumer = "none" => ConsumerAt = "none"
      /\ ConsumerAt \in {"skipped", "done"} <=> ConsumerEnded
      /\ ConsumerAt \in {"none", "skipped"} <=> consumer \in {"none", "skipped"}
  BY DEF IInvParts, SolvesAreTaken, ConsumerAt, ConsumerEnded
<1>3. CASE Subscribe
  <2>1. /\ consumer = "none" /\ consumer' \in {"loop", "skipped"} /\ go[Consumer] = P!Idle
        /\ main = "subscribing" /\ UNCHANGED <<canceled, main, result, closed>>
    BY <1>2, <1>3 DEF Subscribe
  <2>2. NextPlugin = 1 /\ NextPlugin' = 2 /\ ConsumerAt = "none" /\ ConsumerAt' = consumer'
    BY <1>1, <2>1, IdleStays DEF NextPlugin, ConsumerAt
  <2>3. X!Subscribe
    BY <1>1, <2>1, <2>2, One DEF X!Subscribe, X!source
  <2> QED BY <2>3 DEF X!Next, X!Main
<1>4. CASE RunExecutor
  <2>1. UNCHANGED <<canceled, consumer, closed, NextPlugin, ConsumerAt>>
    BY <1>1, <1>4, IdleStays DEF RunExecutor, NextPlugin, ConsumerAt
  <2>2. ConsumerEnded => X!ConsumersEnded
    BY <1>2, One DEF X!ConsumersEnded, X!Plugins
  <2>3. CASE main = "subscribing" /\ consumer # "none" /\ main' = "waiting" /\ UNCHANGED result
    <3>1. X!StartWaiting
      BY <1>1, <2>1, <2>3 DEF X!StartWaiting, X!source, NextPlugin
    <3> QED BY <3>1 DEF X!Next, X!Main
  <2>4. CASE main = "waiting" /\ canceled /\ main' = "draining" /\ UNCHANGED result
    <3>1. X!SeeCancel
      BY <1>1, <2>1, <2>4 DEF X!SeeCancel, X!source
    <3> QED BY <3>1 DEF X!Next, X!Main
  <2>5. CASE main = "draining" /\ ConsumerEnded /\ main' = "returned" /\ result' = "ctx.Err"
    <3>1. X!ReturnCanceled
      BY <1>1, <2>1, <2>2, <2>5 DEF X!ReturnCanceled, X!source
    <3> QED BY <3>1 DEF X!Next, X!Main
  <2>6. CASE /\ main = "waiting" /\ ConsumerEnded /\ main' = "returned"
             /\ result' = IF canceled THEN "ctx.Err" ELSE "ErrAllStreamsClosed"
    <3>1. X!ReturnDone
      BY <1>1, <2>1, <2>2, <2>6 DEF X!ReturnDone, X!ResultWhenDone, X!source
    <3> QED BY <3>1 DEF X!Next, X!Main
  <2> QED BY <1>4, <2>3, <2>4, <2>5, <2>6 DEF RunExecutor
<1>5. CASE CloseStream
  <2>1. /\ closed = FALSE /\ closed' = TRUE /\ consumer \notin {"none", "skipped"}
        /\ UNCHANGED <<canceled, main, result, NextPlugin, ConsumerAt>>
    BY <1>1, <1>5, IdleStays
       DEF CloseStream, Listening, executor, NextPlugin, ConsumerAt, IInvParts, OwnTypes
  <2>2. X!Close(1)
    BY <1>1, <1>2, <2>1, One DEF X!Close, X!Subscribed, X!run
  <2> QED BY <2>2 DEF X!Next, X!Plugins
<1>6. CASE Cancel
  <2>1. /\ ~ canceled /\ canceled' = TRUE
        /\ UNCHANGED <<main, result, closed, NextPlugin, ConsumerAt>>
    BY <1>1, <1>6, IdleStays DEF Cancel, executor, NextPlugin, ConsumerAt
  <2>2. X!Cancel
    BY <1>1, <2>1 DEF X!Cancel, X!run, X!source
  <2> QED BY <2>2 DEF X!Next
<1> QED BY <1>3, <1>4, <1>5, <1>6

\* select of consume, and the wait for Solve after it.
LEMMA ConsumeImplements ==
  ASSUME IInvParts, Consume
  PROVE  X!Next
<1>1. /\ go[Consumer] = P!Idle /\ ConsumerAt = consumer
      /\ UNCHANGED <<canceled, main, result, closed>>
  BY DEF Consume, ConsumerAt
<1>2. received \in Seq(Txs) /\ stream \in Seq(Txs)
  BY SameOutputs DEF IInvParts, OwnTypes, P!IInv, P!TypeOK
<1>3. CASE /\ consumer = "loop" /\ P!Receive
           /\ received' = Append(received, Head(stream)) /\ UNCHANGED consumer
  <2>1. /\ stream # <<>> /\ stream' = Tail(stream)
        /\ go' = [go EXCEPT ![Consumer] = P!Scanning(Head(stream), 1)]
    BY <1>3 DEF P!Receive, P!Set
  <2> DEFINE tx == Head(stream)
  <2>2. tx \in Txs /\ tx = stream[1] /\ 1 \in DOMAIN stream /\ Len(stream) \in Nat \ {0}
        /\ Len(stream') = Len(stream) - 1
    BY ONLY <1>2, <2>1, HeadTailProperties, LenProperties
  <2> HIDE DEF tx
  <2>3. received' = Append(received, tx)
    BY <1>3 DEF tx
  <2>4. /\ Len(received') = Len(received) + 1 /\ Len(received) \in Nat
        /\ DOMAIN received' = DOMAIN received \cup {Len(received) + 1}
        /\ received'[Len(received) + 1] = tx
        /\ \A i \in DOMAIN received : received'[i] = received[i] /\ received[i] \in Txs
    BY <1>2, <2>2, <2>3
  <2>5. /\ go'[Consumer] = P!Scanning(tx, 1) /\ \A t \in Txs : go'[t] = go[t]
    BY <2>1, SameStates, GoroutinesAssumption
       DEF IInvParts, P!IInv, P!TypeOK, Goroutines, tx
  <2>6. go[tx] = P!Idle
    BY <2>2 DEF IInvParts, SolvesAreTaken, TakenOnce
  <2>7. UNCHANGED Solves
    BY <2>2, <2>4, <2>5, <2>6, IdleStays DEF Solves
  <2>8. ConsumerAt' = "matching" /\ UNCHANGED NextPlugin
    BY <1>3, <2>5, States, IdleStays DEF ConsumerAt, NextPlugin
  <2>9. UNCHANGED Sent /\ Sent[Len(received')] = "tx" /\ Len(Sent) = Len(received) + Len(stream)
    BY <2>2, <2>4 DEF Sent
  <2>10. X!Take(1)
    BY <1>1, <1>3, <2>2, <2>4, <2>7, <2>8, <2>9, One DEF X!Take, X!Goto, X!run, X!source
  <2> QED BY <2>10 DEF X!Next, X!Consume, X!Plugins
<1>4. CASE consumer' # consumer /\ UNCHANGED <<plugin, received>>
  <2>1. /\ UNCHANGED <<go, stream, Sent, Len(received), Solves>>
        /\ ConsumerAt' = consumer'
    BY <1>1, <1>4, IdleStays DEF plugin, Sent, Solves, ConsumerAt
  <2>2. consumer # "none" /\ consumer' # "none" => UNCHANGED NextPlugin
    BY DEF NextPlugin
  <2>3. CASE consumer = "loop" /\ consumer' = "draining" /\ canceled
    <3>1. X!LeaveOnCancel(1)
      BY <1>1, <2>1, <2>2, <2>3, One DEF X!LeaveOnCancel, X!Goto, X!run, X!source
    <3> QED BY <3>1 DEF X!Next, X!Consume, X!Plugins
  <2>4. CASE consumer = "loop" /\ consumer' = "draining" /\ closed /\ stream = <<>>
    <3>1. Len(Sent) = Len(received)
      BY <1>2, <2>4 DEF Sent
    <3>2. X!LeaveOnClose(1)
      BY <1>1, <2>1, <2>2, <2>4, <3>1, One
         DEF X!LeaveOnClose, X!StreamEnded, X!Goto, X!run, X!source
    <3> QED BY <3>2 DEF X!Next, X!Consume, X!Plugins
  <2>5. CASE consumer = "draining" /\ consumer' = "done" /\ Drained
    <3>1. \A t \in Txs : go[t] = P!Idle
      BY <2>5 DEF Drained, Started
    <3>2. Solves = {}
      BY <1>2, <3>1 DEF Solves
    <3>3. X!Finish(1)
      BY <1>1, <2>1, <2>2, <2>5, <3>2, One
         DEF X!Finish, X!Drained, X!Goto, X!run, X!source
    <3> QED BY <3>3 DEF X!Next, X!Consume, X!Plugins
  <2> QED BY <1>4, <2>3, <2>4, <2>5 DEF Consume
<1> QED BY <1>3, <1>4 DEF Consume

\* A transaction that is carried is one that the source sends.
LEMMA StreamImplements ==
  ASSUME IInvParts, World
  PROVE  X!Next \/ UNCHANGED X!vars
<1>1. PICK t \in Txs : P!Index(t) \/ (Listening /\ P!Stream(t)) \/ P!Unheard(t)
  BY DEF World
<1>2. UNCHANGED <<canceled, main, result, consumer, closed, received, NextPlugin>>
  BY DEF World, executor, NextPlugin
<1>3. UNCHANGED go
  BY <1>1 DEF P!Index, P!Stream, P!Unheard, P!Carried, P!plugin
<1>4. UNCHANGED <<Len(received), ConsumerAt, Solves>>
  BY <1>2, <1>3, IdleStays DEF ConsumerAt, Solves
<1>5. CASE UNCHANGED stream
  BY <1>2, <1>4, <1>5, Stutters DEF Sent
<1>6. CASE Listening /\ P!Stream(t)
  <2>1. /\ received \in Seq(Txs) /\ stream \in Seq(Txs) /\ streamed \subseteq Txs
        /\ Len(received) + Len(stream) <= Cardinality(streamed)
        /\ go[Consumer] # P!Idle => consumer = "loop"
    BY SameOutputs
       DEF IInvParts, OwnTypes, P!IInv, P!TypeOK, TakenOnce, SolvesAreTaken
  <2>2. t \notin streamed /\ stream' = Append(stream, t)
    BY <1>6 DEF P!Stream, P!Carried
  <2>3. Cardinality(streamed) \in Nat /\ Cardinality(streamed) < Cardinality(Txs)
    BY <2>1, <2>2, StreamGrows
  <2>4. Cardinality(Txs) \in Nat
    BY GoroutinesAssumption, FS_CardinalityType
  <2>5. Sent \in Seq({"tx"}) /\ Len(Sent) = Len(received) + Len(stream)
    BY <2>1 DEF Sent
  <2>6. Sent' = Append(Sent, "tx")
    <3>1. Len(stream') = Len(stream) + 1 /\ Len(stream) \in Nat /\ Len(received) \in Nat
      BY <2>1, <2>2
    <3>2. Sent' = [i \in 1 .. Len(received) + Len(stream) + 1 |-> "tx"]
      BY <1>2, <3>1 DEF Sent
    <3> QED BY <3>1, <3>2 DEF Sent
  <2>7. Len(Sent) < Cardinality(Txs)
    BY <2>1, <2>3, <2>4, <2>5
  <2>8. ConsumerAt \notin {"none", "skipped"} /\ closed = FALSE
    BY <1>6, <2>1 DEF Listening, ConsumerAt, IInvParts, OwnTypes
  <2>9. X!Send(1, "tx")
    BY <1>2, <1>4, <2>6, <2>7, <2>8, One DEF X!Send, X!Subscribed, X!run
  <2> QED BY <2>9 DEF X!Next, X!Plugins
<1> QED BY <1>1, <1>5, <1>6 DEF P!Index, P!Unheard

\* The last step of a goroutine is the return of Match or of Solve.
LEMMA WorkImplements ==
  ASSUME IInvParts, NEW g \in Txs \cup {Consumer}, Work(g)
  PROVE  X!Next \/ UNCHANGED X!vars
<1>1. /\ UNCHANGED <<canceled, main, result, consumer, closed, received, stream>>
      /\ UNCHANGED <<NextPlugin, Sent, Len(received)>>
  BY WorkFrame DEF executor, NextPlugin, Sent
<1>2. /\ Txs \cup {Consumer} \subseteq DOMAIN go /\ Consumer \notin Txs
      /\ \A i \in DOMAIN received : received[i] \in Txs
      /\ OwnTypes /\ SolvesAreTaken
  BY SameStates, GoroutinesAssumption
     DEF IInvParts, P!IInv, P!TypeOK, OwnTypes, Goroutines
<1>3. CASE g = Consumer
  <2> DEFINE latest == received[Len(received)]
  <2>1. consumer = "loop" /\ received # <<>> /\ go[Consumer] # P!Idle
    BY <1>2, <1>3, ConsumerWork DEF SolvesAreTaken
  <2>2. latest \in Txs /\ Len(received) \in DOMAIN received
    BY <1>2, <2>1, Latest
  <2>3. ConsumerAt = "matching" /\ (go'[Consumer] = P!Idle => ConsumerAt' = "loop")
        /\ (go'[Consumer] # P!Idle => ConsumerAt' = "matching")
    BY <1>1, <2>1, IdleStays DEF ConsumerAt
  <2>4. ASSUME NEW s, go' = [go EXCEPT ![Consumer] = s]
        PROVE  X!Next \/ UNCHANGED X!vars
    <3>1. \A t \in Txs : go'[t] = go[t]
      BY <1>2, <2>4
    <3>2. UNCHANGED Solves
      BY <1>1, <1>2, <3>1, IdleStays DEF Solves
    <3>3. CASE go'[Consumer] = P!Idle
      <4>1. X!MatchDeclines(1)
        BY <1>1, <2>3, <3>2, <3>3, One DEF X!MatchDeclines, X!Goto, X!run, X!source
      <4> QED BY <4>1 DEF X!Next, X!MatchReturns, X!Plugins
    <3>4. CASE go'[Consumer] # P!Idle
      BY <1>1, <2>3, <3>2, <3>4, Stutters
    <3> QED BY <3>3, <3>4
  <2>5. ASSUME NEW m, go' = [go EXCEPT ![Consumer] = P!Idle, ![latest] = P!Claiming(m)]
        PROVE  X!Next \/ UNCHANGED X!vars
    <3> HIDE DEF latest
    <3>1. /\ go'[Consumer] = P!Idle /\ go'[latest] = P!Claiming(m)
          /\ \A t \in Txs : t # latest => go'[t] = go[t]
      BY <1>2, <2>2, <2>5
    <3>2. go'[latest] # P!Idle
      BY <3>1, States
    <3>3. \A i \in DOMAIN received : received[i] = latest => i = Len(received)
      BY <2>2 DEF IInvParts, TakenOnce, latest
    <3>4. Solves' = Solves \cup {Len(received)}
      BY <1>1, <1>2, <2>2, <3>1, <3>2, <3>3, IdleStays DEF Solves, latest
    <3>5. X!MatchSucceeds(1)
      BY <1>1, <2>3, <3>1, <3>4, One DEF X!MatchSucceeds, X!Goto, X!run, X!source
    <3> QED BY <3>5 DEF X!Next, X!MatchReturns, X!Plugins
  <2> QED BY <1>2, <1>3, <2>4, <2>5, ConsumerWork
<1>4. CASE g \in Txs
  <2>1. g \in Goroutines /\ g # Consumer
    BY <1>2, <1>4 DEF Goroutines
  <2>2. go[g] # P!Idle
    BY <2>1, SolveWork
  <2>3. PICK s : go' = [go EXCEPT ![g] = s]
    BY <2>1, SolveWork
  <2>4. /\ go'[g] = s /\ go'[Consumer] = go[Consumer]
        /\ \A t \in Txs : t # g => go'[t] = go[t]
    BY <1>2, <1>4, <2>1, <2>3
  <2>5. UNCHANGED ConsumerAt
    BY <1>1, <2>4, IdleStays DEF ConsumerAt
  <2>6. CASE s # P!Idle
    <3>1. UNCHANGED Solves
      BY <1>1, <1>2, <2>2, <2>4, <2>6, IdleStays DEF Solves
    <3> QED BY <1>1, <2>5, <3>1, Stutters
  <2>7. CASE s = P!Idle
    <3>1. PICK i \in DOMAIN received : received[i] = g
      BY <1>2, <1>4, <2>2 DEF SolvesAreTaken
    <3>2. \A j \in DOMAIN received : received[j] = g => j = i
      BY <3>1 DEF IInvParts, TakenOnce
    <3>3. i \in Solves /\ Solves' = Solves \ {i}
      BY <1>1, <1>2, <2>2, <2>4, <2>7, <3>1, <3>2, IdleStays DEF Solves
    <3>4. X!SolveReturns(1, i) /\ i \in <<Solves>>[1]
      BY <1>1, <2>5, <3>3, One DEF X!SolveReturns, X!run, X!source
    <3> QED BY <3>4 DEF X!Next, X!Plugins
  <2> QED BY <2>6, <2>7
<1> QED BY <1>3, <1>4

\* Every other step of the process happens outside Executor.
LEMMA StepImplements ==
  ASSUME IInvParts, [Next]_vars
  PROVE  [X!Next]_X!vars
<1>1. CASE Subscribe \/ RunExecutor \/ CloseStream \/ Cancel
  BY <1>1, RunImplements
<1>2. CASE Consume
  BY <1>2, ConsumeImplements
<1>3. CASE World
  BY <1>3, StreamImplements
<1>4. ASSUME NEW g \in Txs \cup {Consumer}, Work(g) PROVE [X!Next]_X!vars
  BY <1>4, WorkImplements
<1>5. ASSUME \/ Configure \/ Connect \/ ConnectFails \/ Start \/ BindHTTP
             \/ StopHTTP \/ StopGRPC \/ Exit \/ Hang
             \/ UNCHANGED vars
             \/ \E c \in Transports : Arrive(c) \/ Answer(c)
             \/ \E g \in Background : Work(g)
      PROVE  UNCHANGED X!vars
  <2>1. UNCHANGED <<canceled, main, result, consumer, closed, received, stream>>
    BY <1>5, WorkFrame, AnswerFrame
       DEF Configure, Connect, ConnectFails, Start, StopHTTP, StopGRPC, Exit, BindHTTP, Hang,
           Arrive, vars, plugin, executor
  <2>2. \A g \in Txs \cup {Consumer} : go'[g] = go[g]
    BY <1>5, RestKeepsGo DEF Main, IInvParts, P!IInv
  <2>3. OwnTypes
    BY DEF IInvParts
  <2> QED BY <2>1, <2>2, <2>3, OutsideStutters
<1> QED BY <1>1, <1>2, <1>3, <1>4, <1>5 DEF Next, Main, Goroutines

\* executor.go: with the reveal plugin in the place of its interface, with signals
\* and calls that hang, the process does only what module Executor allows.
THEOREM Refinement == Spec => ImplementsExecutor
<1>1. Spec => []IInvParts
  BY InitIInv, NextIInv, PTL DEF Spec
<1> QED BY <1>1, InitImplements, StepImplements, PTL DEF Spec, X!Spec, ImplementsExecutor

-----------------------------------------------------------------------------
(***************************************************************************)
(* The process keeps the promise of ClaimService.                          *)
(***************************************************************************)
\* The promise is the same for R and for P.
LEMMA SameService ==
  /\ R!Service!ServiceInit => P!Service!ServiceInit
  /\ R!Service!ServiceNext => P!Service!ServiceNext
<1>1. R!Service!ServiceInit => P!Service!ServiceInit
  BY DEF R!Service!ServiceInit, P!Service!ServiceInit
<1>2. ASSUME NEW offers, R!Service!Learn(offers) PROVE P!Service!Learn(offers)
  BY <1>2 DEF R!Service!Learn, P!Service!Learn
<1>3. R!Service!Outpoints = P!Service!Outpoints
      /\ \A o : R!Service!OutputAt(o) = P!Service!OutputAt(o)
  BY DEF R!Service!Outpoints, P!Service!Outpoints, R!Service!Txs, P!Service!Txs,
         R!Service!OutputAt, P!Service!OutputAt
<1>4. /\ \A s : R!Service!P2TRScript(s) = P!Service!P2TRScript(s)
      /\ \A t : R!Service!PkScriptOf(t) = P!Service!PkScriptOf(t)
      /\ \A s : R!Service!EnforcePayTo(s) = P!Service!EnforcePayTo(s)
  BY DEF R!Service!PkScriptOf, R!Service!P2TRScript, R!Service!TapKey, R!Service!EnforcePayTo,
         R!Service!P2TRWitnessProgram,
         P!Service!PkScriptOf, P!Service!P2TRScript, P!Service!TapKey, P!Service!EnforcePayTo,
         P!Service!P2TRWitnessProgram
<1>5. \A a, o, r, l : R!Service!FairClaim(a, o, r, l) = P!Service!FairClaim(a, o, r, l)
  BY <1>3 DEF R!Service!FairClaim, P!Service!FairClaim
<1>6. \A a, o : R!Service!Agreed(a, o) <=> P!Service!Agreed(a, o)
  BY <1>3, <1>4 DEF R!Service!Agreed, P!Service!Agreed
<1>7. \A c, p, r : R!Service!Enforces(c, p, r) <=> P!Service!Enforces(c, p, r)
  BY <1>4 DEF R!Service!Enforces, R!Service!PreimageCondition, R!Service!Hash160,
              R!Service!EmulatorTweakedKey,
              P!Service!Enforces, P!Service!PreimageCondition, P!Service!Hash160,
              P!Service!EmulatorTweakedKey
<1>8. \A a, o, r, l : R!Service!Publish(a, o, r, l) <=> P!Service!Publish(a, o, r, l)
  BY <1>4, <1>5, <1>6, <1>7 DEF R!Service!Publish, P!Service!Publish
<1>9. ASSUME R!Service!ServiceNext PROVE P!Service!ServiceNext
  <2>1. CASE \E offers \in SUBSET R!Offers : R!Service!Learn(offers)
    BY <1>2, <2>1, SameSets DEF P!Service!ServiceNext
  <2>2. CASE \E offer \in accepted, o \in R!Service!Outpoints :
               \E leaf \in DOMAIN Closures[offer.taptree],
                  k \in DOMAIN offer.packet.arkadeScript.pushes :
                 R!Service!Publish(offer, o,
                   R!Service!P2TRScript(offer.packet.arkadeScript.pushes[k]), leaf)
    BY <1>3, <1>4, <1>8, <2>2 DEF P!Service!ServiceNext
  <2> QED BY <1>9, <2>1, <2>2 DEF R!Service!ServiceNext
<1> QED BY <1>1, <1>9

\* README.md, the promise to makers: whatever happens around the plugin, a preimage
\* leaves the process only in a claim that an accepted offer entitles it to make.
THEOREM ClaimServiceKept == Spec => P!ImplementsClaimService
<1>1. Init => P!Service!ServiceInit
  BY SameInit, SameService DEF Init, R!Init, R!Service!ServiceInit
<1>2. ASSUME R!IInv, [Next]_vars PROVE [P!Service!ServiceNext]_(P!Service!serviceVars)
  <2>1. CASE [R!Next]_R!vars
    <3>1. R!Service!ServiceNext \/ UNCHANGED <<accepted, submitted>>
      BY <1>2, <2>1, RevealPluginAssumptions, R!StepRefines
    <3> QED BY <3>1, SameService DEF P!Service!serviceVars
  <2>2. CASE LetGo \/ Missed
    BY <2>2 DEF LetGo, Missed, R!Abort, R!Unheard, R!Carried, R!history, P!Service!serviceVars
  <2> QED BY <1>2, <2>1, <2>2, PluginSteps
<1> QED BY PluginKept, <1>1, <1>2, PTL DEF Spec, P!ImplementsClaimService, P!Service!ServiceSpec
=============================================================================
