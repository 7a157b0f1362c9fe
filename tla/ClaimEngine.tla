---------------------------- MODULE ClaimEngine ----------------------------
(***************************************************************************)
(* The claim engine of pkg/preimage that both plugins share: sealed        *)
(* packets, covenant scripts, taptrees and claim transactions.  The code   *)
(* computes on bytes.  Here a hash, a key tweak and a script template are  *)
(* constructors (tuples and records): equal values have equal contents,    *)
(* which is what the code assumes of HASH160, taproot tweaks and AES-GCM.  *)
(***************************************************************************)
EXTENDS Integers, Sequences, FiniteSets

CONSTANTS
  None,            \* nil: an absent value, or the failure of a parsing function
  CovclaimdPubKey, \* the key of this covclaimd (Config.SecretKey.PubKey())
  SignerPubKey,    \* the key of the Ark server (Config.SignerPubKey)
  EmulatorPubKey,  \* the untweaked key of the emulator (Config.EmulatorPubKey)
  Preimages,       \* the plaintexts of exactly preimageSize (32) bytes
  Closures,        \* taptree |-> the sequence of its leaves, for decodable taptrees
  Outputs          \* txid |-> the sequence of its outputs [pkScript, value]

Txs == DOMAIN Outputs

Outpoints ==
  UNION {{[tx |-> t, vout |-> i] : i \in DOMAIN Outputs[t]} : t \in Txs}

\* Outputs and leaves are lists; the value of an output is an int64.
ASSUME OutputsAssumption ==
  \A t \in Txs :
    /\ Len(Outputs[t]) \in Nat
    /\ DOMAIN Outputs[t] = 1 .. Len(Outputs[t])
    /\ \A i \in DOMAIN Outputs[t] : Outputs[t][i].value \in Int

ASSUME ClosuresAssumption ==
  \A taptree \in DOMAIN Closures : DOMAIN Closures[taptree] \subseteq Nat

OutputAt(o) == Outputs[o.tx][o.vout]

-----------------------------------------------------------------------------
(***************************************************************************)
(* Scripts (contract.go).  A pkScript is [form, program]; only the form    *)
(* "p2tr" has a witness program.  An arkade script is a template with the  *)
(* sequence of its 32-byte pushes.                                         *)
(***************************************************************************)
P2TRScript(program) == [form |-> "p2tr", program |-> program]

P2TRWitnessProgram(pkScript) ==
  IF pkScript.form = "p2tr" THEN pkScript.program ELSE None

EnforcePayTo(receiver) ==
  [template |-> "EnforcePayTo", pushes |-> <<P2TRWitnessProgram(receiver)>>]

\* The one 32-byte push of the script, read as a receiver; None otherwise.
ParseReceiverFromArkadeScript(s) ==
  IF Len(s.pushes) = 1 THEN P2TRScript(s.pushes[1]) ELSE None

\* The receiver a script enforces, or None for any other script.
ValidateArkadeScript(s) ==
  LET receiver == ParseReceiverFromArkadeScript(s)
  IN  IF receiver # None /\ s = EnforcePayTo(receiver) THEN receiver ELSE None

Hash160(preimage) == <<"hash160", preimage>>

PreimageCondition(hash) == <<"OP_SIZE 32 OP_HASH160", hash>>

EmulatorTweakedKey(s) == <<"tweak", EmulatorPubKey, s>>

\* The leaf a maker puts in the taptree of a covenant swap.
CovenantClaimClosure(hash, receiver) ==
  [kind      |-> "ConditionMultisig",
   condition |-> PreimageCondition(hash),
   pubKeys   |-> <<SignerPubKey, EmulatorTweakedKey(EnforcePayTo(receiver))>>]

\* The output key a taptree hashes to, and the script of an output to it.
TapKey(taptree) == <<"taproot", taptree>>
PkScriptOf(taptree) == P2TRScript(TapKey(taptree))

-----------------------------------------------------------------------------
(***************************************************************************)
(* Packets (packet.go, crypto.go).  A ciphertext is the sealed plaintext,  *)
(* the key it was sealed to and the bound authenticated with it.           *)
(***************************************************************************)
Underfunds(p, value) ==
  p.minAmount # None /\ (value < 0 \/ value < p.minAmount)

\* EncryptWithAAD: what a maker seals, with a bound or with None.
EncryptWithAAD(recipient, plaintext, minAmount) ==
  [sealedTo |-> recipient, aad |-> minAmount, plaintext |-> plaintext]

\* BuildPacket: the packet a maker stamps, or None for any of its errors.  It is
\* never bound to an amount.
BuildPacket(preimage, covclaimdPubKey, receiver) ==
  IF \/ preimage \notin Preimages
     \/ covclaimdPubKey = None
     \/ P2TRWitnessProgram(receiver) = None
    THEN None
    ELSE [ciphertext      |-> EncryptWithAAD(covclaimdPubKey, preimage, None),
          arkadeScript    |-> EnforcePayTo(receiver),
          covclaimdPubKey |-> covclaimdPubKey,
          minAmount       |-> None]

\* The bound is not authenticated with the ciphertext.
DecryptWithAAD_NoAAD(ciphertext, minAmount) ==
  IF ciphertext.sealedTo = CovclaimdPubKey THEN ciphertext.plaintext ELSE None

\* AES-GCM opens only with the right key and the same additional data.
DecryptWithAAD(ciphertext, minAmount) ==
  IF ciphertext.sealedTo = CovclaimdPubKey /\ ciphertext.aad = minAmount
    THEN ciphertext.plaintext
    ELSE None

\* ClaimPacket.Decrypt: the preimage, or None for any of its errors.
Decrypt(p) ==
  LET preimage == DecryptWithAAD(p.ciphertext, p.minAmount)
  IN  IF ValidateArkadeScript(p.arkadeScript) # None /\ preimage \in Preimages
        THEN preimage
        ELSE None

-----------------------------------------------------------------------------
(***************************************************************************)
(* Claims (claim.go).                                                      *)
(***************************************************************************)
HasExactlyTwoKeys(pubKeys, a, b) == pubKeys \in {<<a, b>>, <<b, a>>}

\* The leaves of a taptree that this preimage and this script may spend.
ClaimClosures(taptree, s, preimage) ==
  {i \in DOMAIN Closures[taptree] :
     LET leaf == Closures[taptree][i]
     IN  /\ leaf.kind = "ConditionMultisig"
         /\ leaf.condition = PreimageCondition(Hash160(preimage))
         /\ HasExactlyTwoKeys(leaf.pubKeys, SignerPubKey, EmulatorTweakedKey(s))}

HasClaimClosure(taptree, s, preimage) ==
  taptree \in DOMAIN Closures /\ ClaimClosures(taptree, s, preimage) # {}

\* findClaimClosure: the first such leaf.
FindClaimClosure(taptree, s, preimage) ==
  LET found == ClaimClosures(taptree, s, preimage)
  IN  CHOOSE i \in found : \A j \in found : i <= j

\* What a plugin hands from Match to Solve, for output o of a transaction.
MatchedClaim(o, packet, taptree) ==
  [outpoint     |-> o,
   amount       |-> OutputAt(o).value,
   pkScript     |-> OutputAt(o).pkScript,
   preimage     |-> Decrypt(packet),
   arkadeScript |-> packet.arkadeScript,
   taptree      |-> taptree]

\* BuildClaim returns an error: the re-validation of a matched claim fails.  The
\* errors after it, of encoding and assembling the transaction, are left out.
Unbuildable(m) ==
  \/ m.preimage \notin Preimages
  \/ ValidateArkadeScript(m.arkadeScript) = None
  \/ ~ HasClaimClosure(m.taptree, m.arkadeScript, m.preimage)

\* The ark transaction that claims m: its input, its first output, the
\* condition witness that reveals the preimage, and the leaf it spends by.
BuildClaim(m) ==
  [spends  |-> m.outpoint,
   pays    |-> ValidateArkadeScript(m.arkadeScript),
   amount  |-> m.amount,
   witness |-> m.preimage,
   leaf    |-> <<m.taptree, FindClaimClosure(m.taptree, m.arkadeScript, m.preimage)>>]
=============================================================================
