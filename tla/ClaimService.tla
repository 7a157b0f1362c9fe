---------------------------- MODULE ClaimService ----------------------------
(***************************************************************************)
(* What covclaimd promises, whichever way it learns a sealed preimage: a   *)
(* preimage is published only in a claim that one offer entitles it to     *)
(* make.  An offer is a packet with the taptree of the swap address it is  *)
(* for.  Both plugins are implementations of this specification.           *)
(*                                                                         *)
(* The conditions are written from the promises of README.md (the output   *)
(* belongs to the swap, carries at least min_amount, and is forwarded in   *)
(* full to the receiver that the covenant names), not with the functions   *)
(* that the plugins use to decide.                                         *)
(***************************************************************************)
EXTENDS ClaimEngine

CONSTANT Offers   \* the [packet, taptree] records that makers may hand over

VARIABLES
  known,          \* the offers covclaimd has been given
  published       \* the claim transactions it has shown to the emulator

serviceVars == <<known, published>>

ServiceInit == known = {} /\ published = {}

\* Makers hand offers over: one request is one offer, and a transaction is an
\* offer for each taptree it carries.
Learn(offers) ==
  /\ known' = known \cup offers
  /\ UNCHANGED published

\* The claim that pays the receiver of an offer everything output o carries.
FairClaim(offer, o, receiver, leaf) ==
  [spends  |-> o,
   pays    |-> receiver,
   amount  |-> OutputAt(o).value,
   witness |-> offer.packet.ciphertext.plaintext,
   leaf    |-> <<offer.taptree, leaf>>]

\* The maker agreed to reveal the preimage for output o.
Agreed(offer, o) ==
  /\ OutputAt(o).pkScript = PkScriptOf(offer.taptree)
  /\ offer.packet.ciphertext.sealedTo = CovclaimdPubKey
  /\ offer.packet.ciphertext.aad \in {None} \cup 0 .. OutputAt(o).value

\* The leaf is locked by the hash of the preimage, and the emulator signs it
\* only for a transaction that pays the receiver.
Enforces(closure, preimage, receiver) ==
  /\ closure.condition = PreimageCondition(Hash160(preimage))
  /\ {closure.pubKeys[k] : k \in DOMAIN closure.pubKeys}
       = {SignerPubKey, EmulatorTweakedKey(EnforcePayTo(receiver))}

Publish(offer, o, receiver, leaf) ==
  /\ offer \in known
  /\ Agreed(offer, o)
  /\ offer.packet.arkadeScript = EnforcePayTo(receiver)
  /\ Enforces(Closures[offer.taptree][leaf],
              offer.packet.ciphertext.plaintext, receiver)
  /\ published' = published \cup {FairClaim(offer, o, receiver, leaf)}
  /\ UNCHANGED known

ServiceNext ==
  \/ \E offers \in SUBSET Offers : Learn(offers)
  \/ \E offer \in known, o \in Outpoints :
       \E leaf \in DOMAIN Closures[offer.taptree],
          k \in DOMAIN offer.packet.arkadeScript.pushes :
         Publish(offer, o, P2TRScript(offer.packet.arkadeScript.pushes[k]), leaf)

ServiceSpec == ServiceInit /\ [][ServiceNext]_serviceVars
=============================================================================
