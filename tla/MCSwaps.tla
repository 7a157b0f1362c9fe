------------------------------ MODULE MCSwaps ------------------------------
(***************************************************************************)
(* Two swaps, alice's and bob's, that the small instances of the plugins   *)
(* share: their taptrees, preimages and receivers.                         *)
(***************************************************************************)
EXTENDS ClaimEngine, TLC

CONSTANTS aliceTree, bobTree, alicePreimage, bobPreimage, aliceKey, bobKey, otherPubKey

\* A swap is a taptree with a refund leaf and a covenant claim leaf.
Swap(preimage, key) ==
  <<[kind |-> "Multisig", condition |-> None, pubKeys |-> <<SignerPubKey>>],
    CovenantClaimClosure(Hash160(preimage), P2TRScript(key))>>

MCClosures ==
  (aliceTree :> Swap(alicePreimage, aliceKey)) @@ (bobTree :> Swap(bobPreimage, bobKey))

MCPreimages == {alicePreimage, bobPreimage}

Pay(tree, value) == [pkScript |-> PkScriptOf(tree), value |-> value]

\* What a maker seals to this covclaimd, for an output of at least bound.
Sealed(preimage, bound) == EncryptWithAAD(CovclaimdPubKey, preimage, bound)

Packet(ciphertext, key, minAmount) ==
  [ciphertext   |-> ciphertext,
   arkadeScript |-> EnforcePayTo(P2TRScript(key)),
   minAmount    |-> minAmount]

Request(tree, packet) ==
  [swapAddress |-> TapKey(tree), taptree |-> tree, packet |-> packet]

\* The requests of the two makers; alice's swap is worth 2.
AliceReveal == Request(aliceTree, Packet(Sealed(alicePreimage, 2), aliceKey, 2))
BobReveal   == Request(bobTree, Packet(Sealed(bobPreimage, None), bobKey, None))

\* A request whose bound is not the one that was sealed.
Lowered == Request(aliceTree, Packet(Sealed(alicePreimage, 2), aliceKey, 1))
=============================================================================
