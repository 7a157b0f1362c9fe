-------------------------- MODULE MCEncryptedPlugin --------------------------
(***************************************************************************)
(* Small instances of EncryptedPlugin: alice's swap, funded for her, and   *)
(* transactions that look like it and must not be claimed.                 *)
(***************************************************************************)
EXTENDS EncryptedPlugin, MCSwaps

CONSTANTS fundAlice, fundUnbound, forOther

\* What a maker stamps in the extension: alice's preimage for an output of at
\* least 2, sealed to this covclaimd.
AlicePacket ==
  [BuildPacket(alicePreimage, CovclaimdPubKey, P2TRScript(aliceKey))
     EXCEPT !.ciphertext = Sealed(alicePreimage, 2), !.minAmount = 2]

\* The older shape of a packet, without a key and without a bound.
TwoTLVPacket ==
  [BuildPacket(alicePreimage, CovclaimdPubKey, P2TRScript(aliceKey))
     EXCEPT !.covclaimdPubKey = None]

\* fundAlice pays alice after too little and after an output with her taptree
\* that does not derive from it; fundUnbound pays her any value, after a swap
\* without her leaf; forOther has a packet for another covclaimd.
MCOutputs ==
  (fundAlice :> <<Pay(aliceTree, 1), Pay(bobTree, 2), Pay(aliceTree, 2)>>)
    @@ (fundUnbound :> <<Pay(bobTree, 2), Pay(aliceTree, 1)>>)
    @@ (forOther    :> <<Pay(aliceTree, 2)>>)

MCTaptrees ==
  (fundAlice :> <<aliceTree, aliceTree, aliceTree>>)
    @@ (fundUnbound :> <<bobTree, aliceTree>>)
    @@ (forOther    :> <<aliceTree>>)

MCExtensions ==
  (fundAlice :> AlicePacket)
    @@ (fundUnbound :> TwoTLVPacket)
    @@ (forOther    :> BuildPacket(alicePreimage, otherPubKey, P2TRScript(aliceKey)))
=============================================================================
