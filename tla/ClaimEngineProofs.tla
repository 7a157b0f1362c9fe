-------------------------- MODULE ClaimEngineProofs --------------------------
(***************************************************************************)
(* Lemmas about the operators of ClaimEngine that the proofs about both    *)
(* plugins rest on: what a packet that opens contains, which leaf is       *)
(* found for it, and what the claim built from it shows.                   *)
(***************************************************************************)
EXTENDS ClaimEngine, WellFoundedInduction, TLAPS

LEMMA OutpointFacts ==
  ASSUME NEW o \in Outpoints
  PROVE  /\ o.tx \in Txs
         /\ o.vout \in 1 .. Len(Outputs[o.tx])
         /\ o = [tx |-> o.tx, vout |-> o.vout]
         /\ Len(Outputs[o.tx]) \in Nat
         /\ OutputAt(o).value \in Int
<1>1. PICK t \in Txs : o \in {[tx |-> t, vout |-> i] : i \in DOMAIN Outputs[t]}
  BY DEF Outpoints
<1>2. PICK i \in DOMAIN Outputs[t] : o = [tx |-> t, vout |-> i]
  BY <1>1
<1>3. o.tx = t /\ o.vout = i
  BY <1>2
<1> QED BY <1>1, <1>2, <1>3, OutputsAssumption DEF OutputAt

-----------------------------------------------------------------------------
\* A packet that opens was sealed to this covclaimd with the bound it carries,
\* and its script is the covenant of the receiver it pushes.
LEMMA DecryptFacts ==
  ASSUME NEW p, Decrypt(p) # None
  PROVE  /\ Decrypt(p) \in Preimages
         /\ Decrypt(p) = p.ciphertext.plaintext
         /\ p.ciphertext.sealedTo = CovclaimdPubKey
         /\ p.ciphertext.aad = p.minAmount
         /\ ValidateArkadeScript(p.arkadeScript) # None
  BY DEF Decrypt, DecryptWithAAD

LEMMA ArkadeScriptFacts ==
  ASSUME NEW s, ValidateArkadeScript(s) # None
  PROVE  /\ ValidateArkadeScript(s) = P2TRScript(s.pushes[1])
         /\ s = EnforcePayTo(P2TRScript(s.pushes[1]))
         /\ 1 \in DOMAIN s.pushes
<1>1. /\ ValidateArkadeScript(s) = P2TRScript(s.pushes[1])
      /\ s = EnforcePayTo(P2TRScript(s.pushes[1]))
  BY DEF ValidateArkadeScript, ParseReceiverFromArkadeScript
<1>2. 1 \in DOMAIN s.pushes
  <2>1. PICK x : s.pushes = <<x>>
    BY <1>1 DEF EnforcePayTo
  <2> QED BY <2>1
<1> QED BY <1>1, <1>2

\* A set of positions that is not empty has a first one.
LEMMA FirstOf ==
  ASSUME NEW S \in SUBSET Nat, S # {}
  PROVE  LET first == CHOOSE i \in S : \A j \in S : i <= j
         IN  first \in S /\ \A j \in S : first <= j
<1> DEFINE less == {ss \in Nat \X Nat : ss[1] < ss[2]}
<1>1. IsWellFoundedOn(less, Nat)
  <2>1. OpToRel(<, Nat) = less
    BY Zenon DEF OpToRel
  <2> QED BY <2>1, NatLessThanWellFounded, Zenon
<1>2. PICK i \in S : \A j \in S : <<j, i>> \notin less
  BY <1>1, WFMin, Zenon
<1>3. ASSUME NEW j \in S PROVE i <= j
  <2>1. i \in Nat /\ j \in Nat /\ <<j, i>> \notin less
    BY <1>2
  <2> QED BY <2>1
<1> QED BY <1>3

\* findClaimClosure returns a leaf that the preimage opens and that the server
\* and the emulator, tweaked by the script, sign.
LEMMA FoundLeaf ==
  ASSUME NEW taptree, NEW s, NEW preimage, HasClaimClosure(taptree, s, preimage)
  PROVE  FindClaimClosure(taptree, s, preimage) \in ClaimClosures(taptree, s, preimage)
<1> DEFINE found == ClaimClosures(taptree, s, preimage)
<1>1. found \in SUBSET Nat /\ found # {}
  BY ClosuresAssumption DEF HasClaimClosure, ClaimClosures
<1> QED BY <1>1, FirstOf DEF FindClaimClosure

-----------------------------------------------------------------------------
\* What Match returns for an output, from a packet and a taptree it accepted.
LEMMA MatchedClaimFields ==
  ASSUME NEW o, NEW p, NEW taptree
  PROVE  LET m == MatchedClaim(o, p, taptree)
         IN  /\ m.outpoint = o /\ m.amount = OutputAt(o).value
             /\ m.pkScript = OutputAt(o).pkScript /\ m.preimage = Decrypt(p)
             /\ m.arkadeScript = p.arkadeScript /\ m.taptree = taptree
  BY DEF MatchedClaim

\* BuildClaim builds a claim from a packet that opens and a taptree that holds
\* its leaf: the second validation agrees with the first.
LEMMA OpenedClaimBuilds ==
  ASSUME NEW o, NEW p, NEW taptree, Decrypt(p) # None,
         HasClaimClosure(taptree, p.arkadeScript, Decrypt(p))
  PROVE  ~ Unbuildable(MatchedClaim(o, p, taptree))
<1> DEFINE m == MatchedClaim(o, p, taptree)
<1>1. m.preimage = Decrypt(p) /\ m.arkadeScript = p.arkadeScript /\ m.taptree = taptree
  BY MatchedClaimFields
<1>2. ~ Unbuildable(m)
  <2> HIDE DEF m
  <2> QED BY <1>1, DecryptFacts DEF Unbuildable
<1> QED BY <1>2

\* Such a claim shows the sealed preimage, pays the receiver that the script
\* names, and spends by a leaf that enforces both.
LEMMA BuiltClaim ==
  ASSUME NEW o, NEW p, NEW taptree, Decrypt(p) # None,
         HasClaimClosure(taptree, p.arkadeScript, Decrypt(p))
  PROVE  LET receiver == P2TRScript(p.arkadeScript.pushes[1])
             leaf     == FindClaimClosure(taptree, p.arkadeScript, Decrypt(p))
             closure  == Closures[taptree][leaf]
         IN  /\ 1 \in DOMAIN p.arkadeScript.pushes
             /\ p.arkadeScript = EnforcePayTo(receiver)
             /\ leaf \in DOMAIN Closures[taptree]
             /\ closure.condition = PreimageCondition(Hash160(p.ciphertext.plaintext))
             /\ {closure.pubKeys[k] : k \in DOMAIN closure.pubKeys}
                  = {SignerPubKey, EmulatorTweakedKey(EnforcePayTo(receiver))}
             /\ BuildClaim(MatchedClaim(o, p, taptree)) =
                  [spends  |-> o,
                   pays    |-> receiver,
                   amount  |-> OutputAt(o).value,
                   witness |-> p.ciphertext.plaintext,
                   leaf    |-> <<taptree, leaf>>]
<1> DEFINE s == p.arkadeScript
           preimage == Decrypt(p)
           receiver == P2TRScript(s.pushes[1])
           leaf == FindClaimClosure(taptree, s, preimage)
           closure == Closures[taptree][leaf]
<1>1. /\ ValidateArkadeScript(s) = receiver
      /\ s = EnforcePayTo(receiver) /\ 1 \in DOMAIN s.pushes
  BY DecryptFacts, ArkadeScriptFacts
<1>2. preimage = p.ciphertext.plaintext
  BY DecryptFacts
<1>3. leaf \in ClaimClosures(taptree, s, preimage)
  BY FoundLeaf
<1>4. /\ leaf \in DOMAIN Closures[taptree]
      /\ closure.condition = PreimageCondition(Hash160(preimage))
      /\ HasExactlyTwoKeys(closure.pubKeys, SignerPubKey, EmulatorTweakedKey(s))
  BY <1>3 DEF ClaimClosures
<1>5. {closure.pubKeys[k] : k \in DOMAIN closure.pubKeys}
        = {SignerPubKey, EmulatorTweakedKey(s)}
  <2> HIDE DEF closure
  <2>1. CASE closure.pubKeys = <<SignerPubKey, EmulatorTweakedKey(s)>>
    BY <2>1
  <2>2. CASE closure.pubKeys = <<EmulatorTweakedKey(s), SignerPubKey>>
    BY <2>2
  <2> QED BY <1>4, <2>1, <2>2 DEF HasExactlyTwoKeys
<1>6. BuildClaim(MatchedClaim(o, p, taptree)) =
        [spends |-> o, pays |-> receiver, amount |-> OutputAt(o).value,
         witness |-> p.ciphertext.plaintext, leaf |-> <<taptree, leaf>>]
  BY <1>1, <1>2 DEF BuildClaim, MatchedClaim
<1> QED BY <1>1, <1>2, <1>4, <1>5, <1>6
=============================================================================
