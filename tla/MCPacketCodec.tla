--------------------------- MODULE MCPacketCodec ---------------------------
(***************************************************************************)
(* PacketCodec with bytes below 9, keys of three bytes and amounts of two: *)
(* every body of at most three TLVs out of nine, whole or cut short, and   *)
(* packets with fields up to and over the largest length.                  *)
(***************************************************************************)
EXTENDS PacketCodec, SequencesExt

MCPubKey == <<2, 7, 8>>

Field(n) == [i \in 1 .. n |-> (i % Base)]

TLVs ==
  {Part(tlvCiphertext, <<5, 6>>), Part(tlvCiphertext, <<>>),
   Part(tlvArkadeScript, <<3, 0, 3, 2, 7>>),
   Part(tlvCovclaimdPubKey, MCPubKey), Part(tlvCovclaimdPubKey, <<2, 7, 7>>),
   Part(tlvCovclaimdPubKey, <<2, 7>>),
   Part(tlvMinAmount, <<8, 1>>), Part(tlvMinAmount, <<1>>),
   Part(8, <<3, 0>>)}

MCForeign ==
  {w \in [parts : BoundedSeq(TLVs, 3), cut : 0 .. 2, sealed : {None}] :
     w.parts = <<>> => w.cut = 0}

\* Four fields, in an order that no Go sender uses.
Reordered ==
  [parts  |-> <<Part(tlvMinAmount, <<0, 4>>), Part(tlvCovclaimdPubKey, MCPubKey),
                Part(8, <<>>), Part(tlvArkadeScript, <<1>>), Part(tlvCiphertext, <<7>>)>>,
   cut    |-> 0,
   sealed |-> None]

MCWires == MCForeign \cup {Reordered}

MCPackets ==
  [ciphertext      : {Field(n) : n \in {0, 1, 10, Base ^ 2 - 1, Base ^ 2}},
   arkadeScript    : {Field(n) : n \in {0, 4, Base ^ 2 - 1}},
   covclaimdPubKey : {None, MCPubKey, <<2, 1, 1>>, <<2, 7>>},
   minAmount       : {None, 0, 1, Base, Base ^ AmountLen - 1}]
=============================================================================
