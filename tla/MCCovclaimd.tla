---------------------------- MODULE MCCovclaimd ----------------------------
(***************************************************************************)
(* A small instance of Covclaimd: alice's swap and one call that must be   *)
(* refused, good and bad environments, and other processes on the ports.   *)
(***************************************************************************)
EXTENDS Covclaimd, MCSwaps

CONSTANTS fundAlice, b1, url, secretKey, zeroKey

MCOutputs == (fundAlice :> <<Pay(aliceTree, 2)>>)

MCRequests == {AliceReveal}

Good ==
  [arkURL |-> url, emulatorURL |-> url, grpcPort |-> Unset, httpPort |-> Unset,
   logLevel |-> Unset, secretKey |-> secretKey,
   encryptedEnabled |-> FALSE, revealEnabled |-> TRUE]

\* Load accepts the first; each of the others has one thing wrong.
MCEnvironments ==
  {Good,
   [Good EXCEPT !.grpcPort = 7071], [Good EXCEPT !.grpcPort = 0],
   [Good EXCEPT !.httpPort = 65536], [Good EXCEPT !.httpPort = None], [Good EXCEPT !.arkURL = Unset],
   [Good EXCEPT !.logLevel = None], [Good EXCEPT !.secretKey = zeroKey],
   [Good EXCEPT !.secretKey = Unset], [Good EXCEPT !.revealEnabled = Unset],
   [Good EXCEPT !.encryptedEnabled = None]}

MCHeldPorts == {{}, {7070}, {7071}}
=============================================================================
