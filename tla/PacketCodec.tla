----------------------------- MODULE PacketCodec -----------------------------
(***************************************************************************)
(* The wire format of a claim packet (pkg/preimage/packet.go) and the      *)
(* filter expression that selects it on the server (plugin.go, Filter).    *)
(* A body is a list of TLVs: a type byte, a big-endian length of two bytes *)
(* and the value.  Serialize writes one; DeserializeClaim reads it in a    *)
(* loop, here one TLV at a time.                                           *)
(*                                                                         *)
(* A byte is a number below Base and a hexadecimal digit a number below    *)
(* HexBase, so that small instances meet the limits of the lengths.        *)
(***************************************************************************)
EXTENDS Integers, Sequences

CONSTANTS
  None,       \* nil
  HexBase,    \* the number of hexadecimal digits: 16 in the code
  KeyLen,     \* compressedPubKeyLen
  AmountLen,  \* minAmountLen
  PubKey,     \* plugin.pubKey
  Packets,    \* the ClaimPackets that makers may serialize
  Foreign     \* wires written by other senders: [parts, cut, sealed |-> None]

Base == HexBase * HexBase

Byte == 0 .. Base - 1

\* The types of a TLV are bytes, and a key is shorter than a byte can count: 33
\* and 256 in the code.
ASSUME FormatAssumption ==
  /\ HexBase \in Nat /\ HexBase > 2
  /\ KeyLen \in 1 .. Base - 1
  /\ AmountLen \in Nat
  /\ PubKey \in Seq(Byte)
  /\ None \notin Seq(Byte) \cup Nat

tlvCiphertext      == 1
tlvArkadeScript    == 2
tlvCovclaimdPubKey == 3
tlvMinAmount       == 4

VARIABLES
  wire,    \* history: the TLVs the sender wrote, how many bytes of the end are
           \* lost, and the packet it serialized, if it used Serialize
  data,    \* the body of the claim packet
  offset,  \* how much of it DeserializeClaim has read
  out,     \* the packet it has put together
  status   \* "reading", "ok" or "error"

vars == <<wire, data, offset, out, status>>

-----------------------------------------------------------------------------
(***************************************************************************)
(* Writing.                                                                *)
(***************************************************************************)
\* The length of a TLV, low byte first.
EncodeTLV_LittleEndian(type, value) ==
  <<type, Len(value) % Base, (Len(value) \div Base) % Base>> \o value

\* encodeTLV: the length is cut to two bytes.
EncodeTLV(type, value) ==
  <<type, (Len(value) \div Base) % Base, Len(value) % Base>> \o value

\* How many numbers k bytes can hold.
Power[k \in 0 .. AmountLen] == IF k = 0 THEN 1 ELSE Power[k - 1] * Base

\* The bound is a uint64.
Amounts == 0 .. Power[AmountLen] - 1

\* minAmountBytes: big-endian.
MinAmountBytes(n) ==
  [i \in 1 .. AmountLen |-> (n \div Power[AmountLen - i]) % Base]

\* The length of the key is left to the reader to check.
Serializable_AnyKey(p) ==
  Len(p.ciphertext) > 0 /\ Len(p.arkadeScript) > 0 /\ p.covclaimdPubKey # None

\* Serialize returns no error.
Serializable(p) ==
  /\ Len(p.ciphertext) > 0 /\ Len(p.arkadeScript) > 0
  /\ p.covclaimdPubKey # None /\ Len(p.covclaimdPubKey) = KeyLen

Part(type, value) == [type |-> type, value |-> value]

\* The TLVs that Serialize writes, in its order.
Parts(p) ==
  <<Part(tlvCiphertext, p.ciphertext),
    Part(tlvArkadeScript, p.arkadeScript),
    Part(tlvCovclaimdPubKey, p.covclaimdPubKey)>>
  \o IF p.minAmount = None THEN <<>>
       ELSE <<Part(tlvMinAmount, MinAmountBytes(p.minAmount))>>

\* n |-> the bytes of the first n TLVs of a list.
BytesOf(parts) ==
  LET bytes[n \in 0 .. Len(parts)] ==
        IF n = 0 THEN <<>> ELSE bytes[n - 1] \o EncodeTLV(parts[n].type, parts[n].value)
  IN  bytes

Bytes(parts) == BytesOf(parts)[Len(parts)]

Body(w) == LET all == Bytes(w.parts) IN SubSeq(all, 1, Len(all) - w.cut)

Empty ==
  [ciphertext |-> None, arkadeScript |-> None, covclaimdPubKey |-> None, minAmount |-> None]

Wires ==
  Foreign \cup {[parts |-> Parts(p), cut |-> 0, sealed |-> p] :
                 p \in {q \in Packets : Serializable(q)}}

\* What makers and other senders write are bytes; what is lost of the end is
\* part of the last TLV.
ASSUME WiresAssumption ==
  /\ Packets \subseteq [ciphertext      : Seq(Byte),
                       arkadeScript    : Seq(Byte),
                       covclaimdPubKey : Seq(Byte) \cup {None},
                       minAmount       : Amounts \cup {None}]
  /\ None \notin Packets
  /\ \A w \in Foreign :
       /\ w.parts \in Seq([type : Byte, value : Seq(Byte)])
       /\ w.cut \in Nat /\ w.sealed = None
       /\ w.cut # 0 => /\ w.parts # <<>>
                       /\ w.cut < 3 + Len(w.parts[Len(w.parts)].value)

Init ==
  /\ wire \in Wires
  /\ data = Body(wire)
  /\ offset = 0 /\ out = Empty /\ status = "reading"

-----------------------------------------------------------------------------
(***************************************************************************)
(* Reading: the loop of DeserializeClaim.                                  *)
(***************************************************************************)
TLVType == data[offset + 1]
TLVLen  == data[offset + 2] * Base + data[offset + 3]
Val     == [i \in 1 .. TLVLen |-> data[offset + 3 + i]]

More == status = "reading" /\ offset < Len(data)

\* The header and the value it announces are within the body.
Complete ==
  offset + 3 <= Len(data) /\ offset + 3 + TLVLen <= Len(data)

\* The key and the amount have a fixed length.
RightLength ==
  /\ TLVType = tlvCovclaimdPubKey => TLVLen = KeyLen
  /\ TLVType = tlvMinAmount => TLVLen = AmountLen

\* The header is skipped once more with the value.
NextOffset_HeaderTwice == offset + 3 + 3 + TLVLen

NextOffset == offset + 3 + TLVLen

\* binary.BigEndian.Uint64.
BigEndian(bytes) ==
  LET value[n \in 0 .. Len(bytes)] ==
        IF n = 0 THEN 0 ELSE value[n - 1] * Base + bytes[n]
  IN  value[Len(bytes)]

\* The first ciphertext wins.
Stored_First(value) ==
  CASE TLVType = tlvCiphertext /\ out.ciphertext = None -> [out EXCEPT !.ciphertext = value]
    [] TLVType = tlvArkadeScript    -> [out EXCEPT !.arkadeScript = value]
    [] TLVType = tlvCovclaimdPubKey -> [out EXCEPT !.covclaimdPubKey = value]
    [] TLVType = tlvMinAmount       -> [out EXCEPT !.minAmount = BigEndian(value)]
    [] OTHER                        -> out

\* The switch on the type: a later TLV replaces an earlier one of its type, and
\* one of an unknown type is skipped.
Stored(value) ==
  CASE TLVType = tlvCiphertext      -> [out EXCEPT !.ciphertext = value]
    [] TLVType = tlvArkadeScript    -> [out EXCEPT !.arkadeScript = value]
    [] TLVType = tlvCovclaimdPubKey -> [out EXCEPT !.covclaimdPubKey = value]
    [] TLVType = tlvMinAmount       -> [out EXCEPT !.minAmount = BigEndian(value)]
    [] OTHER                        -> out

\* "truncated TLV", or a key or an amount of the wrong length.
RefuseTLV ==
  /\ More
  /\ ~ (Complete /\ RightLength)
  /\ status' = "error"
  /\ UNCHANGED <<wire, data, offset, out>>

ReadTLV ==
  /\ More
  /\ Complete /\ RightLength
  /\ out' = Stored(Val)
  /\ offset' = NextOffset
  /\ UNCHANGED <<wire, data, status>>

\* After the loop: only the ciphertext and the script are required.
Finish ==
  /\ status = "reading" /\ offset >= Len(data)
  /\ status' = IF out.ciphertext = None \/ out.arkadeScript = None THEN "error" ELSE "ok"
  /\ UNCHANGED <<wire, data, offset, out>>

Next == RefuseTLV \/ ReadTLV \/ Finish

Spec == Init /\ [][Next]_vars

-----------------------------------------------------------------------------
(***************************************************************************)
(* The filter: tx.extension[PacketType].contains(needle), both in hex.     *)
(***************************************************************************)
\* The digits of a byte, the high one first.
Hex(bytes) ==
  [j \in 1 .. 2 * Len(bytes) |->
     LET byte == bytes[(j + 1) \div 2]
     IN  IF j % 2 = 1 THEN byte \div HexBase ELSE byte % HexBase]

\* t occurs in s after its first i elements.
OccursAt(s, t, i) ==
  /\ i + Len(t) <= Len(s)
  /\ \A j \in 1 .. Len(t) : s[i + j] = t[j]

Needle == EncodeTLV(tlvCovclaimdPubKey, PubKey)

\* The TLV of the key is looked for where Serialize writes it in a body
\* without a bound: at the end.
FilterSelects_AtEnd(body) ==
  LET hex == Hex(body) IN OccursAt(hex, Hex(Needle), Len(hex) - Len(Hex(Needle)))

FilterSelects(body) ==
  \E i \in 0 .. Len(Hex(body)) : OccursAt(Hex(body), Hex(Needle), i)

AddressedTo(p, pub) == Len(pub) = KeyLen /\ p.covclaimdPubKey = pub

-----------------------------------------------------------------------------
(***************************************************************************)
(* What the format promises.                                               *)
(***************************************************************************)
\* The reader never goes past the end of the body.
TypeOK ==
  /\ data \in Seq(Byte)
  /\ offset \in 0 .. Len(data)
  /\ status \in {"reading", "ok", "error"}

\* The value of the last TLV of a type among the first k.
LastOf(k, type) ==
  LET at == {i \in 1 .. k : wire.parts[i].type = type}
  IN  IF at = {} THEN None
        ELSE wire.parts[CHOOSE i \in at : \A j \in at : j <= i].value

\* The packet that the first k TLVs amount to.
WrittenBy(k) ==
  [ciphertext      |-> LastOf(k, tlvCiphertext),
   arkadeScript    |-> LastOf(k, tlvArkadeScript),
   covclaimdPubKey |-> LastOf(k, tlvCovclaimdPubKey),
   minAmount       |-> IF LastOf(k, tlvMinAmount) = None THEN None
                         ELSE CHOOSE n \in Amounts :
                                MinAmountBytes(n) = LastOf(k, tlvMinAmount)]

Written == WrittenBy(Len(wire.parts))

Fits(parts) == \A i \in DOMAIN parts : Len(parts[i].value) < Base * Base

RightPart(part) ==
  /\ part.type = tlvCovclaimdPubKey => Len(part.value) = KeyLen
  /\ part.type = tlvMinAmount => Len(part.value) = AmountLen

WellFormed ==
  /\ wire.cut = 0
  /\ \A i \in DOMAIN wire.parts : RightPart(wire.parts[i])
  /\ Written.ciphertext # None /\ Written.arkadeScript # None

\* DeserializeClaim reads what the sender wrote: in any order of the TLVs, with
\* unknown types between them, the last of each type wins; and it refuses a
\* body that lost its end, lacks a field or has one of the wrong length.
ReadsWhatWasWritten ==
  status # "reading" /\ Fits(wire.parts) =>
    IF WellFormed THEN status = "ok" /\ out = Written ELSE status = "error"

\* What Serialize accepts, DeserializeClaim accepts and returns unchanged, for
\* fields of fewer than 2^16 bytes: a sealed preimage is never lost on the way.
SerializedIsReadBack ==
  wire.sealed # None /\ Fits(wire.parts) =>
    status # "error" /\ (status = "ok" => out = wire.sealed)

\* plugin.go:57-61 "contains, not a fixed offset [...] a false negative costs
\* a claim": the filter selects every packet that names this covclaimd.
FilterMissesNone ==
  status = "ok" /\ AddressedTo(out, PubKey) => FilterSelects(data)

\* DeserializeClaim is between two TLVs, and has put together what those before
\* amount to.
Between(k) ==
  /\ offset = Len(BytesOf(wire.parts)[k])
  /\ out = WrittenBy(k)
  /\ \A i \in 1 .. k : RightPart(wire.parts[i])

\* The inductive invariant of the loop of DeserializeClaim: it is between two
\* TLVs of the body that was written, or it has ended as it should.
IInv ==
  /\ TypeOK
  /\ wire \in Wires /\ data = Body(wire)
  /\ Fits(wire.parts) /\ status = "reading" => \E k \in 0 .. Len(wire.parts) : Between(k)
  /\ ReadsWhatWasWritten
=============================================================================
