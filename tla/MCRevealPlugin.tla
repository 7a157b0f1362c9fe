--------------------------- MODULE MCRevealPlugin ---------------------------
(***************************************************************************)
(* Small instances of RevealPlugin: two swaps, alice's and bob's, each     *)
(* with one taptree, and the transactions that fund them.                  *)
(***************************************************************************)
EXTENDS RevealPlugin, MCSwaps

CONSTANTS fundAlice, topUpAlice, fundBoth, b1, b2

AliceUnbound == Request(aliceTree, Packet(Sealed(alicePreimage, None), aliceKey, None))

\* Requests that must be refused: another bound than the sealed one, another
\* receiver, another covclaimd's packet, another swap's address, a wrong
\* preimage, a bound of zero and an undecodable taptree.
BadRequests ==
  {Lowered,
   Request(aliceTree, Packet(Sealed(alicePreimage, 2), bobKey, 2)),
   Request(aliceTree,
     Packet([Sealed(alicePreimage, 2) EXCEPT !.sealedTo = otherPubKey], aliceKey, 2)),
   [AliceReveal EXCEPT !.swapAddress = TapKey(bobTree)],
   Request(aliceTree, Packet(Sealed(bobPreimage, 2), aliceKey, 2)),
   Request(aliceTree, Packet(Sealed(alicePreimage, 0), aliceKey, 0)),
   [AliceReveal EXCEPT !.taptree = None]}

\* A transaction that pays two swaps.
BatchedOutputs == (fundBoth :> <<Pay(aliceTree, 2), Pay(bobTree, 1)>>)

BothReveal == {AliceReveal, BobReveal}

\* Alice's address is funded twice, first with less than she asked for; she
\* repeats her request with and without the bound.
TopUpOutputs ==
  (fundAlice :> <<Pay(aliceTree, 1)>>) @@ (topUpAlice :> <<Pay(aliceTree, 2)>>)

AliceReveals == {AliceReveal, AliceUnbound}

\* Alice's swap, funded once.
OneOutput == (fundAlice :> <<Pay(aliceTree, 2)>>)

\* The legal requests above, among requests that must be refused.
BothAndBad  == BothReveal \cup BadRequests
AliceAndBad == AliceReveals \cup BadRequests

BackgroundSymmetry == Permutations({b1, b2})
=============================================================================
