------------------------- MODULE PacketCodecProofs -------------------------
(***************************************************************************)
(* Theorems about the wire format, for every base, key, packet and body:   *)
(* DeserializeClaim stays within the body, reads what the sender wrote or  *)
(* refuses it, and returns what Serialize sealed; the filter misses no     *)
(* packet that names this covclaimd, in whatever order its fields are.     *)
(***************************************************************************)
EXTENDS PacketCodec, WellFoundedInduction, TLAPS

(***************************************************************************)
(* Arithmetic of bytes.                                                    *)
(***************************************************************************)
LEMMA BaseFacts == Base \in Nat /\ Base > KeyLen /\ KeyLen \in Nat
<1>1. HexBase * HexBase \in Nat
  BY FormatAssumption
<1> QED BY <1>1, FormatAssumption DEF Base

LEMMA ProductNat ==
  ASSUME NEW m \in Nat, NEW n \in Nat
  PROVE  m * n \in Nat
  OBVIOUS

\* The bytes are more than the types of TLVs.
LEMMA BaseAtLeastNine == Base >= 9
<1>1. HexBase * HexBase >= 3 * HexBase
  BY FormatAssumption
<1> QED BY <1>1, FormatAssumption DEF Base

LEMMA ProductPositive ==
  ASSUME NEW m \in Nat \ {0}, NEW n \in Nat \ {0}
  PROVE  m * n \in Nat \ {0}
<1>1. m * n \in Nat
  OBVIOUS
<1>2. m * n >= n
  <2>1. (m - 1) * n \in Nat
    BY ProductNat
  <2>2. m * n = (m - 1) * n + n
    OBVIOUS
  <2> QED BY <2>1, <2>2
<1> QED BY <1>1, <1>2

\* Two bytes that encode a small number: the high one is zero.
LEMMA HighByteZero ==
  ASSUME NEW b \in Nat, NEW h \in Nat, NEW l \in Nat, h * b + l < b
  PROVE  h = 0
<1>1. SUFFICES ASSUME h # 0 PROVE FALSE
  OBVIOUS
<1>2. h - 1 \in Nat /\ (h - 1) * b \in Nat
  BY <1>1, ProductNat
<1>3. h * b = (h - 1) * b + b
  OBVIOUS
<1> QED BY <1>2, <1>3

\* Division of a number below the divisor.
LEMMA SmallDivision ==
  ASSUME NEW b \in Nat, NEW n \in Nat, n < b
  PROVE  n \div b = 0 /\ n % b = n
  OBVIOUS

LEMMA DivisionOfProduct ==
  ASSUME NEW n \in Nat, NEW p \in Nat \ {0}, NEW b \in Nat \ {0}
  PROVE  n \div (p * b) = (n \div p) \div b
  OBVIOUS

LEMMA DivisionAgain ==
  ASSUME NEW n \in Nat, NEW b \in Nat \ {0}
  PROVE  n \div b \in Nat /\ n % b \in 0 .. b - 1 /\ (n \div b) * b + (n % b) = n
  OBVIOUS

LEMMA DivisionOfSum ==
  ASSUME NEW q \in Nat, NEW r \in Nat, NEW b \in Nat \ {0}, r < b
  PROVE  (q * b + r) \div b = q /\ (q * b + r) % b = r
  OBVIOUS

LEMMA RemainderIsByte ==
  ASSUME NEW n \in Nat
  PROVE  n % Base \in Byte
<1>1. n % Base \in 0 .. Base - 1
  BY BaseFacts, BaseAtLeastNine
<1> QED BY <1>1 DEF Byte

\* Two bytes hold the length of a value of fewer than 2^16 bytes.
LEMMA LengthFits ==
  ASSUME NEW n \in Nat, n < Base * Base
  PROVE  ((n \div Base) % Base) * Base + (n % Base) = n
<1>1. Base \in Nat \ {0}
  BY BaseFacts
<1>2. n \div Base \in Nat /\ n \div Base < Base
  <2> DEFINE b == Base
             q == n \div b
  <2>1. q \in Nat /\ n >= q * b
    BY <1>1, DivisionAgain
  <2> HIDE DEF b, q
  <2>2. q < b
    <3>1. SUFFICES ASSUME q >= b PROVE FALSE
      BY <1>1, <2>1 DEF b
    <3>2. (q - b) * b \in Nat
      BY <1>1, <2>1, <3>1, ProductNat DEF b
    <3>3. q * b = (q - b) * b + b * b
      BY <1>1, <2>1 DEF b
    <3>4. b * b \in Nat /\ n < b * b
      BY <1>1, ProductNat DEF b
    <3> QED BY <2>1, <3>2, <3>3, <3>4
  <2> QED BY <2>1, <2>2 DEF b, q
<1>3. (n \div Base) % Base = n \div Base
  BY <1>1, <1>2, SmallDivision
<1> QED BY <1>1, <1>3, DivisionAgain

-----------------------------------------------------------------------------
(***************************************************************************)
(* Recursive definitions have the values their equations say.  The         *)
(* induction is by the first position that would be an exception.          *)
(***************************************************************************)
\* A set of positions that is not empty has a first one.
LEMMA FirstOf ==
  ASSUME NEW S \in SUBSET Nat, S # {}
  PROVE  \E i \in S : \A j \in S : i <= j
<1> DEFINE less == {ss \in Nat \X Nat : ss[1] < ss[2]}
<1>1. IsWellFoundedOn(less, Nat)
  <2>1. OpToRel(<, Nat) = less
    BY Zenon DEF OpToRel
  <2> QED BY <2>1, NatLessThanWellFounded, Zenon
<1>2. PICK i \in S : \A j \in S : <<j, i>> \notin less
  BY <1>1, WFMin, Zenon
<1>3. ASSUME NEW j \in S PROVE i <= j
  <2>1. i \in Nat /\ j \in Nat /\ <<j, i>> \notin less
    BY <1>2
  <2> QED BY <2>1
<1> QED BY <1>3

\* Induction: a set that holds the first position, and the next one with each,
\* holds them all.
LEMMA UpTo ==
  ASSUME NEW N \in Nat, NEW S, 0 \in S,
         \A n \in 1 .. N : n - 1 \in S => n \in S
  PROVE  \A n \in 0 .. N : n \in S
<1> DEFINE bad == {n \in 0 .. N : n \notin S}
<1>1. SUFFICES ASSUME bad # {} PROVE FALSE
  OBVIOUS
<1>2. bad \in SUBSET Nat
  OBVIOUS
<1>3. PICK n \in bad : \A j \in bad : n <= j
  BY <1>1, <1>2, FirstOf
<1>4. n \in 1 .. N /\ n \notin S
  OBVIOUS
<1>5. n - 1 \in S
  BY <1>3, <1>4
<1> QED BY <1>4, <1>5

\* A recursive definition over 0 .. N with values in S: a is the value at 0, and
\* step makes the value at n from n and the value before.
Recursive(N, S, a, step) == N \in Nat /\ a \in S /\ step \in [(1 .. N) \X S -> S]

\* f has the values that the definition says.
Satisfies(f, N, S, a, step) ==
  /\ f \in [0 .. N -> S]
  /\ f[0] = a
  /\ \A n \in 1 .. N : f[n] = step[<<n, f[n - 1]>>]

\* Such a function exists.
LEMMA Recursion ==
  ASSUME NEW N, NEW S, NEW a, NEW step, Recursive(N, S, a, step)
  PROVE  \E f : Satisfies(f, N, S, a, step)
<1> USE DEF Recursive
<1> DEFINE Solves(f, m) ==
             /\ f \in [0 .. m -> S] /\ f[0] = a
             /\ \A n \in 1 .. m : f[n] = step[<<n, f[n - 1]>>]
           solved == {m \in Nat : \E f : Solves(f, m)}
<1>1. 0 \in solved
  <2>1. Solves([i \in 0 .. 0 |-> a], 0)
    OBVIOUS
  <2> QED BY <2>1
<1>2. ASSUME NEW n \in 1 .. N, n - 1 \in solved PROVE n \in solved
  <2>1. PICK f : Solves(f, n - 1)
    BY <1>2
  <2>2. f[n - 1] \in S
    BY <2>1
  <2>3. PICK next \in S : next = step[<<n, f[n - 1]>>]
    BY <2>2
  <2> DEFINE g == [i \in 0 .. n |-> IF i = n THEN next ELSE f[i]]
  <2>4. g \in [0 .. n -> S] /\ g[0] = a
    BY <2>1, <2>3
  <2>5. ASSUME NEW i \in 1 .. n PROVE g[i] = step[<<i, g[i - 1]>>]
    <3>1. g[i - 1] = f[i - 1]
      BY <2>5
    <3>2. CASE i = n
      <4>1. g[i] = next /\ g[i - 1] = f[n - 1]
        BY <3>1, <3>2
      <4> HIDE DEF g
      <4> QED BY <2>3, <3>2, <4>1
    <3>3. CASE i # n
      <4>1. i \in 1 .. n - 1
        BY <3>3
      <4>2. f[i] = step[<<i, f[i - 1]>>]
        BY <2>1, <4>1
      <4>3. g[i] = f[i]
        BY <4>1
      <4> QED BY <3>1, <4>2, <4>3
    <3> QED BY <3>2, <3>3
  <2>6. Solves(g, n)
    BY <2>4, <2>5
  <2>7. n \in Nat
    OBVIOUS
  <2> HIDE DEF g, Solves
  <2> QED BY <2>6, <2>7
<1>3. N \in solved
  <2> HIDE DEF solved
  <2>1. \A n \in 0 .. N : n \in solved
    BY <1>1, <1>2, UpTo
  <2> QED BY <2>1
<1> QED BY <1>3 DEF Satisfies

-----------------------------------------------------------------------------
(***************************************************************************)
(* The bytes of a list of TLVs, and where each of them is.                 *)
(***************************************************************************)
TLVParts == Seq([type : Byte, value : Seq(Byte)])

\* An element of a sequence.
LEMMA Element ==
  ASSUME NEW S, NEW s \in Seq(S), NEW i \in 1 .. Len(s)
  PROVE  s[i] \in S
  OBVIOUS

\* The bytes of a TLV: its type, its length, the high byte first, its value.
LEMMA EncodedTLV ==
  ASSUME NEW type \in Byte, NEW value \in Seq(Byte)
  PROVE  /\ EncodeTLV(type, value) \in Seq(Byte)
         /\ Len(EncodeTLV(type, value)) = 3 + Len(value)
         /\ EncodeTLV(type, value)[1] = type
         /\ EncodeTLV(type, value)[2] = ((Len(value) \div Base) % Base)
         /\ EncodeTLV(type, value)[3] = (Len(value) % Base)
         /\ \A j \in 1 .. Len(value) : EncodeTLV(type, value)[3 + j] = value[j]
<1> DEFINE n == Len(value)
           hi == (n \div Base) % Base
           lo == n % Base
<1>1. n \in Nat /\ n \div Base \in Nat
  BY BaseFacts, BaseAtLeastNine
<1>2. hi \in Byte /\ lo \in Byte
  BY <1>1, RemainderIsByte
<1>3. EncodeTLV(type, value) = <<type, hi, lo>> \o value
  BY DEF EncodeTLV
<1> HIDE DEF hi, lo
<1>4. <<type, hi, lo>> \in Seq(Byte)
  BY <1>2
<1>5. /\ <<type, hi, lo>> \o value \in Seq(Byte)
      /\ Len(<<type, hi, lo>> \o value) = 3 + n
      /\ (<<type, hi, lo>> \o value)[1] = type
      /\ (<<type, hi, lo>> \o value)[2] = hi
      /\ (<<type, hi, lo>> \o value)[3] = lo
      /\ \A j \in 1 .. n : (<<type, hi, lo>> \o value)[3 + j] = value[j]
  BY <1>2, <1>4, <1>1
<1> QED BY <1>3, <1>5 DEF hi, lo

\* What the first n TLVs of a list are written as.
LEMMA BytesOfFacts ==
  ASSUME NEW parts \in TLVParts
  PROVE  /\ BytesOf(parts) \in [0 .. Len(parts) -> Seq(Byte)]
         /\ BytesOf(parts)[0] = <<>>
         /\ \A n \in 1 .. Len(parts) :
              BytesOf(parts)[n] =
                BytesOf(parts)[n - 1] \o EncodeTLV(parts[n].type, parts[n].value)
<1> DEFINE N == Len(parts)
           enc(n) == EncodeTLV(parts[n].type, parts[n].value)
           step == [x \in (1 .. N) \X Seq(Byte) |-> x[2] \o enc(x[1])]
<1>1. N \in Nat
  BY DEF TLVParts
<1>2. ASSUME NEW n \in 1 .. N PROVE enc(n) \in Seq(Byte)
  <2>1. parts[n] \in [type : Byte, value : Seq(Byte)]
    BY Element DEF TLVParts
  <2>2. parts[n].type \in Byte /\ parts[n].value \in Seq(Byte)
    BY <2>1
  <2> QED BY <2>2, EncodedTLV
<1> HIDE DEF N, enc
<1>3. step \in [(1 .. N) \X Seq(Byte) -> Seq(Byte)]
  <2>1. ASSUME NEW x \in (1 .. N) \X Seq(Byte) PROVE x[2] \o enc(x[1]) \in Seq(Byte)
    <3>1. x[1] \in 1 .. N /\ x[2] \in Seq(Byte)
      OBVIOUS
    <3>2. enc(x[1]) \in Seq(Byte)
      BY <1>2, <3>1
    <3> QED BY <3>1, <3>2
  <2> QED BY <2>1
<1>4. <<>> \in Seq(Byte)
  OBVIOUS
<1>5. PICK h \in [0 .. N -> Seq(Byte)] :
        h[0] = <<>> /\ \A n \in 1 .. N : h[n] = step[<<n, h[n - 1]>>]
  <2>1. Recursive(N, Seq(Byte), <<>>, step)
    BY <1>1, <1>3, <1>4 DEF Recursive
  <2> HIDE DEF step
  <2>2. PICK h : Satisfies(h, N, Seq(Byte), <<>>, step)
    BY <2>1, Recursion
  <2> QED BY <2>2 DEF Satisfies
<1>6. ASSUME NEW n \in 1 .. N PROVE h[n] = h[n - 1] \o enc(n)
  <2>1. n - 1 \in 0 .. N
    BY <1>1
  <2>2. h[n - 1] \in Seq(Byte)
    BY <2>1
  <2>3. step[<<n, h[n - 1]>>] = h[n - 1] \o enc(n)
    <3>1. <<n, h[n - 1]>> \in (1 .. N) \X Seq(Byte)
      BY <2>2
    <3> QED BY <3>1, Zenon
  <2> HIDE DEF step
  <2> QED BY <1>5, <2>3
<1> HIDE DEF step
<1>7. h = [n \in 0 .. N |-> IF n = 0 THEN <<>> ELSE h[n - 1] \o enc(n)]
  <2>1. ASSUME NEW n \in 0 .. N
        PROVE  h[n] = IF n = 0 THEN <<>> ELSE h[n - 1] \o enc(n)
    <3>1. n = 0 \/ n \in 1 .. N
      BY <1>1
    <3> QED BY <3>1, <1>5, <1>6
  <2> QED BY <2>1
<1>8. BytesOf(parts) =
        [n \in 0 .. N |-> IF n = 0 THEN <<>> ELSE BytesOf(parts)[n - 1] \o enc(n)]
  BY <1>7 DEF BytesOf, N, enc
<1> DEFINE f == BytesOf(parts)
<1>9. /\ DOMAIN f = 0 .. N /\ f[0] = <<>>
      /\ \A n \in 1 .. N : f[n] = f[n - 1] \o enc(n)
  <2> HIDE DEF f
  <2>1. f = [n \in 0 .. N |-> IF n = 0 THEN <<>> ELSE f[n - 1] \o enc(n)]
    BY <1>8 DEF f
  <2>2. ASSUME NEW n \in 0 .. N PROVE f[n] = IF n = 0 THEN <<>> ELSE f[n - 1] \o enc(n)
    BY <2>1
  <2>3. 0 \in 0 .. N /\ \A n \in 1 .. N : n \in 0 .. N /\ n # 0
    BY <1>1
  <2> QED BY <2>1, <2>2, <2>3
<1>10. \A n \in 0 .. N : f[n] = h[n]
  <2> DEFINE same == {n \in 0 .. N : f[n] = h[n]}
  <2>1. 0 \in same
    BY <1>1, <1>5, <1>9
  <2>2. ASSUME NEW n \in 1 .. N, n - 1 \in same PROVE n \in same
    <3>1. f[n - 1] = h[n - 1] /\ n \in 0 .. N
      BY <1>1, <2>2
    <3> HIDE DEF f
    <3>2. f[n] = h[n]
      BY <3>1, <1>6, <1>9
    <3> QED BY <3>1, <3>2
  <2> HIDE DEF same
  <2>3. \A n \in 0 .. N : n \in same
    BY <1>1, <2>1, <2>2, UpTo
  <2> QED BY <2>3 DEF same
<1>11. f \in [0 .. N -> Seq(Byte)]
  <2> HIDE DEF f
  <2>1. f = [n \in 0 .. N |-> f[n]]
    <3>1. f = [n \in 0 .. N |-> IF n = 0 THEN <<>> ELSE f[n - 1] \o enc(n)]
      BY <1>8 DEF f
    <3> QED BY <3>1, <1>9
  <2>2. \A n \in 0 .. N : f[n] \in Seq(Byte)
    BY <1>5, <1>10
  <2> QED BY <2>1, <2>2
<1> QED BY <1>9, <1>11 DEF N, enc, f

\* Where the TLVs of a list begin and end in its bytes.
End(parts, n) == Len(BytesOf(parts)[n])

LEMMA EndFacts ==
  ASSUME NEW parts \in TLVParts
  PROVE  /\ \A n \in 0 .. Len(parts) : End(parts, n) \in Nat
         /\ End(parts, 0) = 0
         /\ \A n \in 1 .. Len(parts) :
              End(parts, n) = End(parts, n - 1) + 3 + Len(parts[n].value)
<1> DEFINE N == Len(parts)
           f == BytesOf(parts)
           enc(n) == EncodeTLV(parts[n].type, parts[n].value)
<1>1. N \in Nat
  BY DEF TLVParts
<1>2. f \in [0 .. N -> Seq(Byte)] /\ f[0] = <<>> /\ \A n \in 1 .. N : f[n] = f[n - 1] \o enc(n)
  BY BytesOfFacts
<1>3. ASSUME NEW n \in 1 .. N PROVE enc(n) \in Seq(Byte) /\ Len(enc(n)) = 3 + Len(parts[n].value)
  <2>1. parts[n] \in [type : Byte, value : Seq(Byte)]
    BY Element DEF TLVParts
  <2> QED BY <2>1, EncodedTLV
<1> HIDE DEF f, enc, N
<1>4. ASSUME NEW n \in 1 .. N
      PROVE  Len(f[n]) = Len(f[n - 1]) + 3 + Len(parts[n].value)
  <2> DEFINE before == f[n - 1]
             more == enc(n)
  <2>1. n - 1 \in 0 .. N
    BY <1>1
  <2>2. before \in Seq(Byte) /\ more \in Seq(Byte) /\ f[n] = before \o more
    BY <1>2, <1>3, <2>1
  <2>3. Len(parts[n].value) \in Nat
    <3>1. parts[n] \in [type : Byte, value : Seq(Byte)]
      BY Element DEF TLVParts, N
    <3> QED BY <3>1
  <2>4. Len(more) = 3 + Len(parts[n].value)
    BY <1>3
  <2> HIDE DEF before, more
  <2>5. Len(f[n]) = Len(before) + Len(more) /\ Len(before) \in Nat
    BY <2>2
  <2>6. Len(f[n]) = Len(before) + 3 + Len(parts[n].value)
    <3> DEFINE size == Len(parts[n].value)
               l == Len(before)
               m == Len(more)
    <3>1. size \in Nat /\ l \in Nat /\ m = 3 + size /\ Len(f[n]) = l + m
      BY <2>3, <2>4, <2>5
    <3> HIDE DEF size, l, m
    <3>2. Len(f[n]) = l + 3 + size
      BY <3>1
    <3> QED BY <3>2 DEF size, l
  <2> QED BY <2>6 DEF before
<1>5. \A n \in 0 .. N : Len(f[n]) \in Nat
  BY <1>2
<1>6. Len(f[0]) = 0
  BY <1>2
<1> QED BY <1>4, <1>5, <1>6 DEF End, f, N

\* What is written later comes behind.
LEMMA BytesOfPrefix ==
  ASSUME NEW parts \in TLVParts, NEW k \in 0 .. Len(parts)
  PROVE  \A n \in k .. Len(parts) :
           /\ End(parts, k) <= End(parts, n)
           /\ \A j \in 1 .. End(parts, k) : BytesOf(parts)[n][j] = BytesOf(parts)[k][j]
<1> DEFINE N == Len(parts)
           f == BytesOf(parts)
           enc(n) == EncodeTLV(parts[n].type, parts[n].value)
           kept == {n \in 0 .. N : n >= k =>
                      /\ End(parts, k) <= End(parts, n)
                      /\ \A j \in 1 .. End(parts, k) : f[n][j] = f[k][j]}
<1>1. N \in Nat /\ k \in 0 .. N
  BY DEF TLVParts
<1>2. f \in [0 .. N -> Seq(Byte)] /\ \A n \in 1 .. N : f[n] = f[n - 1] \o enc(n)
  BY BytesOfFacts
<1>3. ASSUME NEW n \in 1 .. N PROVE enc(n) \in Seq(Byte)
  <2>1. parts[n] \in [type : Byte, value : Seq(Byte)]
    BY Element DEF TLVParts
  <2> QED BY <2>1, EncodedTLV
<1>4. \A n \in 0 .. N : End(parts, n) \in Nat /\ End(parts, n) = Len(f[n])
  BY EndFacts DEF End
<1> HIDE DEF f, enc, N
<1>5. 0 \in kept
  BY <1>1, <1>4
<1>6. ASSUME NEW n \in 1 .. N, n - 1 \in kept PROVE n \in kept
  <2>1. CASE n <= k
    BY <1>1, <1>4, <2>1
  <2>2. CASE n > k
    <3> DEFINE before == f[n - 1]
               more == enc(n)
               e == End(parts, k)
    <3>1. n - 1 \in 0 .. N /\ n - 1 >= k /\ n \in 0 .. N
      BY <1>1, <2>2
    <3>2. e \in Nat /\ e <= Len(before) /\ \A j \in 1 .. e : before[j] = f[k][j]
      BY <1>4, <1>6, <3>1, <1>1
    <3>3. before \in Seq(Byte) /\ more \in Seq(Byte) /\ f[n] = before \o more
      BY <1>2, <1>3, <3>1
    <3>4. End(parts, n) = Len(f[n])
      BY <1>4, <3>1
    <3> HIDE DEF before, more, e
    <3>5. /\ Len(f[n]) = Len(before) + Len(more) /\ Len(before) \in Nat /\ Len(more) \in Nat
          /\ \A j \in 1 .. Len(before) : f[n][j] = before[j]
      BY <3>3
    <3>6. e <= End(parts, n) /\ \A j \in 1 .. e : f[n][j] = f[k][j]
      BY <3>2, <3>4, <3>5
    <3> QED BY <3>1, <3>6 DEF e
  <2> QED BY <1>1, <2>1, <2>2
<1> HIDE DEF kept
<1>7. \A n \in 0 .. N : n \in kept
  BY <1>1, <1>5, <1>6, UpTo
<1>8. ASSUME NEW n \in k .. N PROVE n \in 0 .. N /\ n >= k
  BY <1>1
<1> QED BY <1>7, <1>8 DEF kept, N, f

\* The TLV after the first k.
LEMMA TLVInBytes ==
  ASSUME NEW parts \in TLVParts, NEW k \in 0 .. Len(parts) - 1
  PROVE  LET all   == Bytes(parts)
             at    == End(parts, k)
             value == parts[k + 1].value
         IN  /\ all[at + 1] = parts[k + 1].type
             /\ all[at + 2] = ((Len(value) \div Base) % Base)
             /\ all[at + 3] = (Len(value) % Base)
             /\ \A j \in 1 .. Len(value) : all[at + 3 + j] = value[j]
<1> DEFINE N == Len(parts)
           f == BytesOf(parts)
           part == parts[k + 1]
           value == part.value
           size == Len(value)
           enc == EncodeTLV(part.type, value)
           at == End(parts, k)
           before == f[k]
           after == f[k + 1]
           all == f[N]
<1>1. N \in Nat /\ k \in 0 .. N /\ k + 1 \in 1 .. N /\ k + 1 \in 0 .. N /\ (k + 1) - 1 = k
      /\ N \in k + 1 .. N
  BY DEF TLVParts
<1>2. part \in [type : Byte, value : Seq(Byte)]
  BY <1>1, Element DEF TLVParts
<1>3. /\ enc \in Seq(Byte) /\ Len(enc) = 3 + size
      /\ enc[1] = part.type
      /\ enc[2] = ((size \div Base) % Base) /\ enc[3] = (size % Base)
      /\ \A j \in 1 .. size : enc[3 + j] = value[j]
  BY <1>2, EncodedTLV
<1>4. size \in Nat
  BY <1>2
<1>5. before \in Seq(Byte) /\ after = before \o enc /\ at = Len(before)
  BY <1>1, BytesOfFacts DEF End
<1>6. \A j \in 1 .. End(parts, k + 1) : all[j] = after[j]
  BY <1>1, BytesOfPrefix
<1>7. End(parts, k + 1) = at + 3 + size /\ at \in Nat
  BY <1>1, EndFacts
<1>8. Bytes(parts) = all
  BY DEF Bytes
<1> HIDE DEF f, N, part, enc, at, before, after, all, value, size
<1>9. \A j \in 1 .. Len(enc) : after[at + j] = enc[j]
  BY <1>3, <1>5
<1>10. \A j \in 1 .. 3 + size : all[at + j] = enc[j]
  <2> TAKE j \in 1 .. 3 + size
  <2>1. at + j \in 1 .. End(parts, k + 1)
    BY <1>4, <1>7
  <2>2. after[at + j] = enc[j]
    BY <1>3, <1>9
  <2> QED BY <1>6, <2>1, <2>2
<1>11. /\ all[at + 1] = enc[1] /\ all[at + 2] = enc[2] /\ all[at + 3] = enc[3]
       /\ \A j \in 1 .. size : all[at + 3 + j] = enc[3 + j]
  <2>1. 1 \in 1 .. 3 + size /\ 2 \in 1 .. 3 + size /\ 3 \in 1 .. 3 + size
    BY <1>4
  <2>2. ASSUME NEW j \in 1 .. size PROVE 3 + j \in 1 .. 3 + size /\ at + (3 + j) = at + 3 + j
    BY <1>4, <1>7
  <2> QED BY <1>10, <2>1, <2>2
<1> QED BY <1>3, <1>8, <1>11 DEF part, value, at, size

-----------------------------------------------------------------------------
(***************************************************************************)
(* Amounts and their bytes: minAmountBytes and BigEndian are inverse.      *)
(***************************************************************************)
\* The powers of the base, up to the largest that an amount needs.
LEMMA PowerFacts ==
  /\ Power \in [0 .. AmountLen -> Nat \ {0}]
  /\ Power[0] = 1
  /\ \A k \in 1 .. AmountLen : Power[k] = Power[k - 1] * Base
<1> DEFINE N == AmountLen
           S == Nat \ {0}
           step == [x \in (1 .. N) \X S |-> x[2] * Base]
<1>1. N \in Nat /\ Base \in S
  BY FormatAssumption, BaseFacts, BaseAtLeastNine
<1>2. ASSUME NEW m \in S PROVE m * Base \in S
  BY <1>1, ProductPositive
<1> HIDE DEF S
<1>3. Recursive(N, S, 1, step)
  <2>1. 1 \in S
    BY DEF S
  <2>2. step \in [(1 .. N) \X S -> S]
    BY <1>2
  <2> QED BY <1>1, <2>1, <2>2 DEF Recursive
<1>4. PICK h \in [0 .. N -> S] :
        h[0] = 1 /\ \A k \in 1 .. N : h[k] = step[<<k, h[k - 1]>>]
  <2> HIDE DEF step
  <2>1. PICK h : Satisfies(h, N, S, 1, step)
    BY <1>3, Recursion
  <2> QED BY <2>1 DEF Satisfies
<1>5. ASSUME NEW k \in 1 .. N PROVE h[k] = h[k - 1] * Base
  <2>1. k - 1 \in 0 .. N
    BY <1>1
  <2>2. h[k - 1] \in S
    BY <2>1
  <2>3. step[<<k, h[k - 1]>>] = h[k - 1] * Base
    BY <2>2
  <2> HIDE DEF step
  <2> QED BY <1>4, <2>3
<1>6. h = [k \in 0 .. N |-> IF k = 0 THEN 1 ELSE h[k - 1] * Base]
  <2>1. ASSUME NEW k \in 0 .. N
        PROVE  h[k] = IF k = 0 THEN 1 ELSE h[k - 1] * Base
    <3>1. k = 0 \/ k \in 1 .. N
      BY <1>1
    <3> QED BY <3>1, <1>4, <1>5
  <2> QED BY <2>1
<1>7. Power = [k \in 0 .. N |-> IF k = 0 THEN 1 ELSE Power[k - 1] * Base]
  BY <1>6 DEF Power
<1>8. DOMAIN Power = 0 .. N /\ Power[0] = 1 /\ \A k \in 1 .. N : Power[k] = Power[k - 1] * Base
  <2>1. ASSUME NEW k \in 0 .. N PROVE Power[k] = IF k = 0 THEN 1 ELSE Power[k - 1] * Base
    BY <1>7
  <2>2. 0 \in 0 .. N /\ \A k \in 1 .. N : k \in 0 .. N /\ k # 0
    BY <1>1
  <2> QED BY <1>7, <2>1, <2>2
<1>9. \A k \in 0 .. N : Power[k] \in S
  <2> DEFINE good == {k \in 0 .. N : Power[k] \in S}
  <2>1. 0 \in good
    BY <1>1, <1>8 DEF S
  <2>2. ASSUME NEW k \in 1 .. N, k - 1 \in good PROVE k \in good
    BY <1>2, <1>8, <2>2
  <2> HIDE DEF good
  <2>3. \A k \in 0 .. N : k \in good
    BY <1>1, <2>1, <2>2, UpTo
  <2> QED BY <2>3 DEF good
<1>10. Power = [k \in 0 .. N |-> Power[k]]
  BY <1>7, <1>8
<1> QED BY <1>8, <1>9, <1>10 DEF S

\* The value of the bytes so far, after each of them.
Value(bytes) ==
  LET value[n \in 0 .. Len(bytes)] ==
        IF n = 0 THEN 0 ELSE value[n - 1] * Base + bytes[n]
  IN  value

\* BigEndian is the last of them.
LEMMA ValueFacts ==
  ASSUME NEW bytes \in Seq(Byte)
  PROVE  /\ BigEndian(bytes) = Value(bytes)[Len(bytes)]
         /\ \A n \in 0 .. Len(bytes) : Value(bytes)[n] \in Nat
         /\ Value(bytes)[0] = 0
         /\ \A n \in 1 .. Len(bytes) :
              Value(bytes)[n] = Value(bytes)[n - 1] * Base + bytes[n]
<1> DEFINE N == Len(bytes)
           step == [x \in (1 .. N) \X Nat |-> x[2] * Base + bytes[x[1]]]
<1>1. N \in Nat /\ Base \in Nat
  BY BaseFacts
<1>2. ASSUME NEW m \in Nat, NEW n \in 1 .. N PROVE m * Base + bytes[n] \in Nat
  <2>1. m * Base \in Nat
    BY <1>1, ProductNat
  <2>2. bytes[n] \in Byte
    BY Element
  <2>3. bytes[n] \in Nat
    BY <2>2, <1>1 DEF Byte
  <2> QED BY <2>1, <2>3
<1>3. Recursive(N, Nat, 0, step)
  <2>1. ASSUME NEW x \in (1 .. N) \X Nat PROVE x[2] * Base + bytes[x[1]] \in Nat
    BY <1>2
  <2>2. step \in [(1 .. N) \X Nat -> Nat]
    BY <2>1
  <2> QED BY <1>1, <2>2 DEF Recursive
<1>4. PICK h \in [0 .. N -> Nat] :
        h[0] = 0 /\ \A n \in 1 .. N : h[n] = step[<<n, h[n - 1]>>]
  <2> HIDE DEF step, N
  <2>1. PICK h : Satisfies(h, N, Nat, 0, step)
    BY <1>3, Recursion
  <2> QED BY <2>1 DEF Satisfies
<1> HIDE DEF N
<1>5. ASSUME NEW n \in 1 .. N PROVE h[n] = h[n - 1] * Base + bytes[n]
  <2>1. n - 1 \in 0 .. N
    BY <1>1
  <2>2. h[n - 1] \in Nat
    BY <2>1
  <2>3. step[<<n, h[n - 1]>>] = h[n - 1] * Base + bytes[n]
    BY <2>2
  <2> HIDE DEF step
  <2> QED BY <1>4, <2>3
<1>6. h = [n \in 0 .. N |-> IF n = 0 THEN 0 ELSE h[n - 1] * Base + bytes[n]]
  <2>1. ASSUME NEW n \in 0 .. N
        PROVE  h[n] = IF n = 0 THEN 0 ELSE h[n - 1] * Base + bytes[n]
    <3>1. n = 0 \/ n \in 1 .. N
      BY <1>1
    <3> QED BY <3>1, <1>4, <1>5
  <2> QED BY <2>1
<1> DEFINE f == Value(bytes)
<1>7. f = [n \in 0 .. N |-> IF n = 0 THEN 0 ELSE f[n - 1] * Base + bytes[n]]
  BY <1>6 DEF Value, N
<1> HIDE DEF f
<1>8. f[0] = 0 /\ \A n \in 1 .. N : f[n] = f[n - 1] * Base + bytes[n]
  <2>1. ASSUME NEW n \in 0 .. N PROVE f[n] = IF n = 0 THEN 0 ELSE f[n - 1] * Base + bytes[n]
    BY <1>7
  <2>2. 0 \in 0 .. N /\ \A n \in 1 .. N : n \in 0 .. N /\ n # 0
    BY <1>1
  <2> QED BY <2>1, <2>2
<1>9. \A n \in 0 .. N : f[n] \in Nat
  <2> DEFINE good == {n \in 0 .. N : f[n] \in Nat}
  <2>1. 0 \in good
    BY <1>1, <1>8
  <2>2. ASSUME NEW n \in 1 .. N, n - 1 \in good PROVE n \in good
    BY <1>2, <1>8, <2>2
  <2> HIDE DEF good
  <2>3. \A n \in 0 .. N : n \in good
    BY <1>1, <2>1, <2>2, UpTo
  <2> QED BY <2>3 DEF good
<1>10. BigEndian(bytes) = f[N]
  BY DEF BigEndian, Value, f, N
<1> QED BY <1>8, <1>9, <1>10 DEF f, N

\* minAmountBytes writes every digit of an amount.
LEMMA AmountBytes ==
  ASSUME NEW n \in Nat
  PROVE  /\ MinAmountBytes(n) \in Seq(Byte)
         /\ Len(MinAmountBytes(n)) = AmountLen
         /\ \A i \in 1 .. AmountLen :
              MinAmountBytes(n)[i] = (n \div Power[AmountLen - i]) % Base
<1>1. AmountLen \in Nat /\ Base \in Nat \ {0}
  BY FormatAssumption, BaseFacts
<1>2. ASSUME NEW i \in 1 .. AmountLen PROVE (n \div Power[AmountLen - i]) % Base \in Byte
  <2>1. AmountLen - i \in 0 .. AmountLen
    BY <1>1
  <2>2. Power[AmountLen - i] \in Nat \ {0}
    BY <2>1, PowerFacts
  <2>3. n \div Power[AmountLen - i] \in Nat
    BY <2>2, DivisionAgain
  <2> QED BY <2>3, RemainderIsByte
<1>3. MinAmountBytes(n) \in [1 .. AmountLen -> Byte]
  BY <1>2 DEF MinAmountBytes
<1> QED BY <1>1, <1>3 DEF MinAmountBytes

\* BigEndian reads what minAmountBytes wrote.
LEMMA AmountIsReadBack ==
  ASSUME NEW n \in Amounts
  PROVE  BigEndian(MinAmountBytes(n)) = n
<1> DEFINE N == AmountLen
           bytes == MinAmountBytes(n)
           f == Value(bytes)
           right == {k \in 0 .. N : f[k] = n \div Power[N - k]}
<1>1. N \in Nat /\ Base \in Nat \ {0}
  BY FormatAssumption, BaseFacts
<1>2. Power[N] \in Nat \ {0} /\ Power[0] = 1
  BY <1>1, PowerFacts
<1>3. n \in Nat /\ n < Power[N]
  BY <1>2 DEF Amounts
<1>4. /\ bytes \in Seq(Byte) /\ Len(bytes) = N
      /\ \A i \in 1 .. N : bytes[i] = (n \div Power[N - i]) % Base
  BY <1>3, AmountBytes
<1> HIDE DEF bytes
<1>5. /\ BigEndian(bytes) = f[N]
      /\ f[0] = 0
      /\ \A k \in 1 .. N : f[k] = f[k - 1] * Base + bytes[k]
  BY <1>4, ValueFacts
<1> HIDE DEF f
<1>6. 0 \in right
  <2>1. n \div Power[N] = 0
    BY <1>2, <1>3, SmallDivision
  <2> QED BY <1>1, <1>5, <2>1
<1>7. ASSUME NEW k \in 1 .. N, k - 1 \in right PROVE k \in right
  <2> DEFINE p == Power[N - k]
  <2>1. N - k \in 0 .. N /\ N - (k - 1) \in 1 .. N /\ (N - (k - 1)) - 1 = N - k
    BY <1>1
  <2>2. p \in Nat \ {0} /\ Power[N - (k - 1)] = p * Base
    BY <2>1, PowerFacts
  <2>3. f[k - 1] = n \div (p * Base)
    BY <1>7, <2>2
  <2>4. f[k] = f[k - 1] * Base + bytes[k] /\ bytes[k] = (n \div p) % Base
    BY <1>4, <1>5
  <2> HIDE DEF p
  <2>5. n \div (p * Base) = (n \div p) \div Base
    BY <1>1, <1>3, <2>2, DivisionOfProduct
  <2>6. n \div p \in Nat
    BY <1>3, <2>2, DivisionAgain
  <2>7. f[k] = n \div p
    BY <1>1, <2>3, <2>4, <2>5, <2>6, DivisionAgain
  <2> QED BY <1>1, <2>7 DEF p
<1> HIDE DEF right
<1>8. \A k \in 0 .. N : k \in right
  BY <1>1, <1>6, <1>7, UpTo
<1>9. f[N] = n \div 1
  <2>1. N \in right /\ N - N = 0
    BY <1>1, <1>8
  <2> QED BY <2>1, <1>2 DEF right
<1> QED BY <1>3, <1>5, <1>9 DEF bytes

\* And minAmountBytes writes what BigEndian read.
LEMMA AmountOfBytes ==
  ASSUME NEW bytes \in Seq(Byte), Len(bytes) = AmountLen
  PROVE  /\ BigEndian(bytes) \in Amounts
         /\ MinAmountBytes(BigEndian(bytes)) = bytes
<1> DEFINE N == AmountLen
           f == Value(bytes)
           n == f[N]
           small == {k \in 0 .. N : f[k] < Power[k]}
           right == {j \in 0 .. N : n \div Power[j] = f[N - j]}
<1>1. N \in Nat /\ Base \in Nat \ {0}
  BY FormatAssumption, BaseFacts
<1>2. /\ BigEndian(bytes) = n
      /\ f[0] = 0
      /\ \A k \in 0 .. N : f[k] \in Nat
      /\ \A k \in 1 .. N : f[k] = f[k - 1] * Base + bytes[k]
  BY ValueFacts
<1> HIDE DEF f
<1>3. \A k \in 1 .. N : bytes[k] \in Nat /\ bytes[k] < Base
  <2>1. \A k \in 1 .. N : bytes[k] \in Byte
    BY Element
  <2> QED BY <2>1, <1>1 DEF Byte
<1>4. \A k \in 0 .. N : k \in small
  <2>1. 0 \in small
    BY <1>1, <1>2, PowerFacts
  <2>2. ASSUME NEW k \in 1 .. N, k - 1 \in small PROVE k \in small
    <3> DEFINE v == f[k - 1]
               p == Power[k - 1]
               b == bytes[k]
    <3>1. k - 1 \in 0 .. N /\ k \in 0 .. N
      BY <1>1
    <3>2. v \in Nat /\ p \in Nat /\ b \in Nat /\ b < Base /\ v < p
      BY <1>2, <1>3, <2>2, <3>1, PowerFacts
    <3>3. f[k] = v * Base + b /\ Power[k] = p * Base
      BY <1>2, PowerFacts
    <3> HIDE DEF v, p, b
    <3>4. (p - 1 - v) * Base \in Nat
      BY <1>1, <3>2, ProductNat
    <3>5. p * Base = (p - 1 - v) * Base + v * Base + Base
      BY <1>1, <3>2
    <3>6. v * Base \in Nat
      BY <1>1, <3>2, ProductNat
    <3>7. v * Base + b < p * Base
      BY <1>1, <3>2, <3>4, <3>5, <3>6
    <3> QED BY <3>1, <3>3, <3>7
  <2> HIDE DEF small
  <2> QED BY <1>1, <2>1, <2>2, UpTo
<1>5. n \in Nat /\ n < Power[N]
  BY <1>1, <1>2, <1>4
<1>6. n \in Amounts
  <2>1. Power[N] \in Nat
    BY <1>1, PowerFacts
  <2> QED BY <1>5, <2>1 DEF Amounts
<1> HIDE DEF n
<1>7. \A j \in 0 .. N : j \in right
  <2>1. 0 \in right
    <3>1. Power[0] = 1 /\ N - 0 = N
      BY <1>1, PowerFacts
    <3>2. n \div 1 = n
      BY <1>5
    <3> QED BY <3>1, <3>2, <1>1 DEF n
  <2>2. ASSUME NEW j \in 1 .. N, j - 1 \in right PROVE j \in right
    <3>1. /\ j \in 0 .. N /\ j - 1 \in 0 .. N
          /\ N - (j - 1) \in 1 .. N /\ (N - (j - 1)) - 1 = N - j /\ N - j \in 0 .. N
      BY <1>1
    <3> DEFINE p == Power[j - 1]
               v == f[N - j]
               b == bytes[N - (j - 1)]
    <3>2. p \in Nat \ {0} /\ Power[j] = p * Base /\ n \div p = f[N - (j - 1)]
      BY <2>2, <3>1, PowerFacts
    <3>3. f[N - (j - 1)] = v * Base + b /\ v \in Nat /\ b \in Nat /\ b < Base
      BY <1>2, <1>3, <3>1
    <3> HIDE DEF p, v, b
    <3>4. n \div (p * Base) = (n \div p) \div Base
      BY <1>1, <1>5, <3>2, DivisionOfProduct
    <3>5. (v * Base + b) \div Base = v
      BY <1>1, <3>3, DivisionOfSum
    <3>6. n \div Power[j] = v
      BY <3>2, <3>3, <3>4, <3>5
    <3> QED BY <3>1, <3>6 DEF v
  <2> HIDE DEF right
  <2> QED BY <1>1, <2>1, <2>2, UpTo
<1>8. ASSUME NEW i \in 1 .. N PROVE MinAmountBytes(n)[i] = bytes[i]
  <2>1. N - i \in 0 .. N /\ N - (N - i) = i /\ i - 1 \in 0 .. N
    BY <1>1
  <2>2. MinAmountBytes(n)[i] = (n \div Power[N - i]) % Base
    BY <1>5, AmountBytes
  <2>3. n \div Power[N - i] = f[i]
    BY <1>7, <2>1
  <2>4. f[i] = f[i - 1] * Base + bytes[i] /\ f[i - 1] \in Nat
    BY <1>2, <2>1
  <2> DEFINE v == f[i - 1]
             b == bytes[i]
  <2>5. v \in Nat /\ b \in Nat /\ b < Base /\ f[i] = v * Base + b
    BY <1>3, <2>4
  <2> HIDE DEF v, b
  <2>6. (v * Base + b) % Base = b
    BY <1>1, <2>5, DivisionOfSum
  <2> QED BY <2>2, <2>3, <2>5, <2>6 DEF b
<1>9. MinAmountBytes(n) = bytes
  <2>1. MinAmountBytes(n) \in Seq(Byte) /\ Len(MinAmountBytes(n)) = N
    BY <1>5, AmountBytes
  <2> QED BY <1>8, <2>1
<1> QED BY <1>2, <1>6, <1>9 DEF n

\* The bytes of an amount tell it.
LEMMA AmountFromBytes ==
  ASSUME NEW bytes \in Seq(Byte), Len(bytes) = AmountLen
  PROVE  (CHOOSE n \in Amounts : MinAmountBytes(n) = bytes) = BigEndian(bytes)
<1> DEFINE m == CHOOSE n \in Amounts : MinAmountBytes(n) = bytes
<1>1. m \in Amounts /\ MinAmountBytes(m) = bytes
  BY AmountOfBytes
<1> QED BY <1>1, AmountIsReadBack

-----------------------------------------------------------------------------
(***************************************************************************)
(* What senders write.                                                     *)
(***************************************************************************)
\* Three TLVs and one more.
LEMMA OneMore ==
  ASSUME NEW a, NEW b, NEW c, NEW d
  PROVE  <<a, b, c>> \o <<d>> = <<a, b, c, d>>
<1> DEFINE T == {a, b, c, d}
           s == <<a, b, c>> \o <<d>>
<1>1. <<a, b, c>> \in Seq(T) /\ <<d>> \in Seq(T) /\ <<a, b, c, d>> \in Seq(T)
  OBVIOUS
<1>2. s \in Seq(T) /\ Len(s) = 4 /\ s[1] = a /\ s[2] = b /\ s[3] = c /\ s[4] = d
  BY <1>1
<1> HIDE DEF s, T
<1>3. s = <<a, b, c, d>>
  BY <1>1, <1>2
<1> QED BY <1>3 DEF s

\* The fields of a packet that Serialize accepts, and its TLVs.
LEMMA SealedParts ==
  ASSUME NEW p \in Packets, Serializable(p)
  PROVE  /\ p.ciphertext \in Seq(Byte) /\ p.arkadeScript \in Seq(Byte)
         /\ p.covclaimdPubKey \in Seq(Byte) /\ Len(p.covclaimdPubKey) = KeyLen
         /\ p.minAmount \in Amounts \cup {None}
         /\ p = [ciphertext |-> p.ciphertext, arkadeScript |-> p.arkadeScript,
                 covclaimdPubKey |-> p.covclaimdPubKey, minAmount |-> p.minAmount]
         /\ Parts(p) \in TLVParts
         /\ Len(Parts(p)) = IF p.minAmount = None THEN 3 ELSE 4
         /\ Parts(p)[1] = Part(tlvCiphertext, p.ciphertext)
         /\ Parts(p)[2] = Part(tlvArkadeScript, p.arkadeScript)
         /\ Parts(p)[3] = Part(tlvCovclaimdPubKey, p.covclaimdPubKey)
         /\ p.minAmount # None => Parts(p)[4] = Part(tlvMinAmount, MinAmountBytes(p.minAmount))
<1>1. p \in [ciphertext      : Seq(Byte),
             arkadeScript    : Seq(Byte),
             covclaimdPubKey : Seq(Byte) \cup {None},
             minAmount       : Amounts \cup {None}]
  BY WiresAssumption
<1>2. /\ p.ciphertext \in Seq(Byte) /\ p.arkadeScript \in Seq(Byte)
      /\ p.covclaimdPubKey \in Seq(Byte) /\ Len(p.covclaimdPubKey) = KeyLen
      /\ p.minAmount \in Amounts \cup {None}
      /\ p = [ciphertext |-> p.ciphertext, arkadeScript |-> p.arkadeScript,
              covclaimdPubKey |-> p.covclaimdPubKey, minAmount |-> p.minAmount]
  BY <1>1 DEF Serializable
<1> DEFINE bound == MinAmountBytes(p.minAmount)
           c == Part(tlvCiphertext, p.ciphertext)
           s == Part(tlvArkadeScript, p.arkadeScript)
           k == Part(tlvCovclaimdPubKey, p.covclaimdPubKey)
           m == Part(tlvMinAmount, bound)
           Item == [type : Byte, value : Seq(Byte)]
<1>3. {tlvCiphertext, tlvArkadeScript, tlvCovclaimdPubKey} \subseteq Byte
  BY BaseFacts, BaseAtLeastNine DEF Byte, tlvCiphertext, tlvArkadeScript, tlvCovclaimdPubKey
<1>4. c \in Item /\ s \in Item /\ k \in Item
  BY <1>2, <1>3 DEF Part
<1>5. CASE p.minAmount = None
  <2>1. Parts(p) = <<c, s, k>> \o <<>>
    BY <1>5 DEF Parts
  <2> HIDE DEF c, s, k, Item
  <2>2. Parts(p) = <<c, s, k>>
    BY <2>1, <1>4
  <2>3. <<c, s, k>> \in Seq(Item)
    BY <1>4
  <2> QED BY <1>2, <1>5, <2>2, <2>3 DEF c, s, k, Item, TLVParts
<1>6. CASE p.minAmount # None
  <2>1. Parts(p) = <<c, s, k>> \o <<m>>
    BY <1>6 DEF Parts
  <2>2. m \in Item
    <3>1. p.minAmount \in Nat
      <4>1. AmountLen \in Nat
        BY FormatAssumption
      <4>2. Power[AmountLen] \in Nat
        BY <4>1, PowerFacts
      <4> QED BY <1>2, <1>6, <4>2 DEF Amounts
    <3>2. bound \in Seq(Byte)
      BY <3>1, AmountBytes
    <3>3. tlvMinAmount \in Byte
      BY BaseFacts, BaseAtLeastNine DEF Byte, tlvMinAmount
    <3> QED BY <3>2, <3>3 DEF Part
  <2> HIDE DEF c, s, k, m, Item
  <2>3. Parts(p) = <<c, s, k, m>>
    BY <2>1, OneMore
  <2>4. <<c, s, k, m>> \in Seq(Item)
    BY <1>4, <2>2
  <2> QED BY <1>2, <1>6, <2>3, <2>4 DEF c, s, k, m, Item, TLVParts
<1> QED BY <1>5, <1>6

\* What a sender wrote, and how much of its end may be lost.
LEMMA WireFacts ==
  ASSUME NEW w \in Wires
  PROVE  /\ w.parts \in TLVParts /\ w.cut \in Nat
         /\ w.cut # 0 => /\ w.parts # <<>>
                         /\ w.cut < 3 + Len(w.parts[Len(w.parts)].value)
         /\ w.sealed # None =>
              /\ w.sealed \in Packets /\ Serializable(w.sealed)
              /\ w.parts = Parts(w.sealed) /\ w.cut = 0
<1>1. CASE w \in Foreign
  BY <1>1, WiresAssumption DEF TLVParts
<1>2. CASE w \notin Foreign
  <2>1. PICK p \in Packets : Serializable(p) /\ w = [parts |-> Parts(p), cut |-> 0, sealed |-> p]
    BY <1>2 DEF Wires
  <2>2. w.parts = Parts(p) /\ w.cut = 0 /\ w.sealed = p
    BY <2>1
  <2> QED BY <2>1, <2>2, SealedParts
<1> QED BY <1>1, <1>2

\* The body is what was written, without the end that was lost of the last TLV.
LEMMA BodyFacts ==
  ASSUME NEW w \in Wires
  PROVE  LET N == Len(w.parts)
         IN  /\ Body(w) \in Seq(Byte)
             /\ Len(Body(w)) = End(w.parts, N) - w.cut
             /\ \A j \in 1 .. Len(Body(w)) : Body(w)[j] = Bytes(w.parts)[j]
             /\ w.cut # 0 => N > 0 /\ End(w.parts, N - 1) < Len(Body(w))
<1> DEFINE N == Len(w.parts)
           all == Bytes(w.parts)
           c == w.cut
           e == End(w.parts, N)
<1>1. w.parts \in TLVParts /\ c \in Nat /\ N \in Nat
  <2>1. w.parts \in TLVParts /\ w.cut \in Nat
    BY WireFacts
  <2> QED BY <2>1 DEF TLVParts
<1>2. all \in Seq(Byte) /\ Len(all) = e
  <2>1. BytesOf(w.parts) \in [0 .. N -> Seq(Byte)]
    BY <1>1, BytesOfFacts
  <2>2. all = BytesOf(w.parts)[N] /\ e = Len(BytesOf(w.parts)[N])
    BY DEF Bytes, End
  <2> HIDE DEF N, all, e
  <2> QED BY <1>1, <2>1, <2>2
<1>3. e \in Nat
  BY <1>1, EndFacts
<1>4. c # 0 => N > 0 /\ End(w.parts, N - 1) < e - c /\ e - c >= 0
  <2> SUFFICES ASSUME c # 0 PROVE N > 0 /\ End(w.parts, N - 1) < e - c /\ e - c >= 0
    OBVIOUS
  <2> DEFINE size == Len(w.parts[N].value)
             b == End(w.parts, N - 1)
  <2>1. w.parts # <<>> /\ c < 3 + size
    BY WireFacts
  <2>2. N > 0
    BY <1>1, <2>1 DEF TLVParts
  <2>3. N \in 1 .. N /\ N - 1 \in 0 .. N
    BY <1>1, <2>2
  <2>4. e = b + 3 + size /\ b \in Nat
    BY <1>1, <2>3, EndFacts
  <2>5. size \in Nat
    <3>1. w.parts[N] \in [type : Byte, value : Seq(Byte)]
      BY <1>1, <2>3, Element DEF TLVParts
    <3> QED BY <3>1
  <2> HIDE DEF size, b, e, c, N
  <2>6. b < e - c /\ e - c >= 0
    BY <1>1, <2>1, <2>4, <2>5
  <2> QED BY <2>2, <2>6 DEF b
<1>5. Body(w) = SubSeq(all, 1, e - c)
  BY <1>2 DEF Body
<1>6. e - c \in Nat /\ e - c <= Len(all)
  BY <1>1, <1>2, <1>3, <1>4
<1> DEFINE l == e - c
<1>7. /\ SubSeq(all, 1, l) \in Seq(Byte) /\ Len(SubSeq(all, 1, l)) = l
      /\ \A j \in 1 .. l : SubSeq(all, 1, l)[j] = all[j]
  <2> HIDE DEF l, all
  <2> QED BY <1>2, <1>6 DEF l
<1> QED BY <1>4, <1>5, <1>7

-----------------------------------------------------------------------------
(***************************************************************************)
(* The reader stays within the body.                                       *)
(***************************************************************************)
LEMMA TLVLenNat ==
  ASSUME TypeOK, Complete
  PROVE  TLVLen \in Nat
<1>1. data[offset + 2] \in Nat /\ data[offset + 3] \in Nat
  BY BaseFacts DEF TypeOK, Complete, Byte
<1>2. data[offset + 2] * Base \in Nat
  BY <1>1, BaseFacts, ProductNat
<1> QED BY <1>1, <1>2 DEF TLVLen

LEMMA InitTypeOK == Init => TypeOK
<1> SUFFICES ASSUME Init PROVE TypeOK
  OBVIOUS
<1>1. data \in Seq(Byte)
  BY BodyFacts DEF Init
<1> QED BY <1>1 DEF Init, TypeOK

LEMMA NextTypeOK == TypeOK /\ [Next]_vars => TypeOK'
<1> SUFFICES ASSUME TypeOK, [Next]_vars PROVE TypeOK'
  OBVIOUS
<1>1. CASE RefuseTLV
  BY <1>1 DEF TypeOK, RefuseTLV
<1>2. CASE ReadTLV
  <2>1. Complete /\ TLVLen \in Nat
    BY <1>2, TLVLenNat DEF ReadTLV
  <2>2. offset' \in 0 .. Len(data)
    BY <1>2, <2>1 DEF ReadTLV, NextOffset, Complete, TypeOK
  <2> QED BY <1>2, <2>2 DEF TypeOK, ReadTLV
<1>3. CASE Finish
  BY <1>3 DEF TypeOK, Finish
<1>4. CASE UNCHANGED vars
  BY <1>4 DEF TypeOK, vars
<1> QED BY <1>1, <1>2, <1>3, <1>4 DEF Next

\* The offset of DeserializeClaim never passes the end of the body.
THEOREM ReadsWithinBody == Spec => []TypeOK
  BY InitTypeOK, NextTypeOK, PTL DEF Spec

-----------------------------------------------------------------------------
(***************************************************************************)
(* The reader between two TLVs.                                            *)
(***************************************************************************)
\* Between two TLVs the reader sees the next one, unless it lost its end.
LEMMA NextTLV ==
  ASSUME TypeOK, wire \in Wires, data = Body(wire), Fits(wire.parts),
         NEW k \in 0 .. Len(wire.parts) - 1, offset = End(wire.parts, k)
  PROVE  LET part == wire.parts[k + 1]
         IN  /\ offset < Len(data)
             /\ Complete <=> (wire.cut = 0 \/ k + 1 < Len(wire.parts))
             /\ Complete => /\ TLVType = part.type
                            /\ TLVLen = Len(part.value)
                            /\ Val = part.value
                            /\ NextOffset = End(wire.parts, k + 1)
<1> DEFINE parts == wire.parts
           N == Len(parts)
           all == Bytes(parts)
           part == parts[k + 1]
           size == Len(part.value)
           l == Len(data)
           c == wire.cut
<1>1. parts \in TLVParts /\ c \in Nat /\ N \in Nat /\ k \in 0 .. N - 1
  <2>1. parts \in TLVParts /\ c \in Nat
    BY WireFacts
  <2> QED BY <2>1 DEF TLVParts
<1>2. k \in 0 .. N /\ k + 1 \in 1 .. N /\ (k + 1) - 1 = k /\ N \in k + 1 .. N
  BY <1>1
<1>3. part.type \in Byte /\ part.value \in Seq(Byte) /\ size \in Nat /\ size < Base * Base
  <2>1. part \in [type : Byte, value : Seq(Byte)]
    BY <1>1, <1>2, Element DEF TLVParts
  <2>2. k + 1 \in DOMAIN parts
    BY <1>1, <1>2 DEF TLVParts
  <2>3. size < Base * Base
    BY <2>2 DEF Fits
  <2> QED BY <2>1, <2>3
<1>4. /\ End(parts, k + 1) = offset + 3 + size /\ offset \in Nat
      /\ End(parts, N) \in Nat
      /\ \A n \in k + 1 .. N : End(parts, k + 1) <= End(parts, n)
  <2>1. k + 1 \in 0 .. N /\ N \in 0 .. N
    BY <1>1, <1>2
  <2> QED BY <1>1, <1>2, <2>1, EndFacts, BytesOfPrefix
<1>5. /\ l = End(parts, N) - c /\ \A j \in 1 .. l : data[j] = all[j]
      /\ c # 0 => End(parts, N - 1) < l
  BY BodyFacts
<1>6. /\ all[offset + 1] = part.type
      /\ all[offset + 2] = ((size \div Base) % Base)
      /\ all[offset + 3] = (size % Base)
      /\ \A j \in 1 .. size : all[offset + 3 + j] = part.value[j]
  BY <1>1, TLVInBytes
<1>7. c # 0 /\ k + 1 = N => l < offset + 3 + size /\ offset < l
  <2> SUFFICES ASSUME c # 0, k + 1 = N PROVE l < offset + 3 + size /\ offset < l
    OBVIOUS
  <2>1. N - 1 = k
    BY <1>1
  <2>2. End(parts, N - 1) = offset /\ End(parts, N) = offset + 3 + size
    BY <1>4, <2>1
  <2>3. l = End(parts, N) - c /\ offset < l
    BY <1>5, <2>2
  <2>4. offset + 3 + size \in Nat
    BY <1>3, <1>4
  <2> HIDE DEF l, c, size, N, parts
  <2> QED BY <1>1, <2>2, <2>3, <2>4
<1>8. c = 0 \/ k + 1 < N => offset + 3 + size <= l
  <2>1. CASE c = 0
    BY <1>2, <1>4, <1>5, <2>1
  <2>2. CASE c # 0 /\ k + 1 < N
    <3>1. N - 1 \in k + 1 .. N
      BY <1>1, <2>2
    <3>2. End(parts, k + 1) <= End(parts, N - 1)
      BY <3>1, <1>4
    <3>3. N - 1 \in 0 .. N
      BY <1>1, <2>2
    <3>4. End(parts, N - 1) \in Nat
      BY <3>3, <1>1, EndFacts
    <3> QED BY <1>1, <1>4, <1>5, <2>2, <3>2, <3>4
  <2> QED BY <2>1, <2>2
<1>9. l \in Nat
  BY DEF TypeOK
<1>10. offset + 3 <= l => TLVLen = size
  <2> SUFFICES ASSUME offset + 3 <= l PROVE TLVLen = size
    OBVIOUS
  <2>1. data[offset + 2] = all[offset + 2] /\ data[offset + 3] = all[offset + 3]
    <3>1. offset + 2 \in 1 .. l /\ offset + 3 \in 1 .. l
      BY <1>4, <1>9
    <3> QED BY <3>1, <1>5
  <2>2. TLVLen = ((size \div Base) % Base) * Base + (size % Base)
    BY <2>1, <1>6 DEF TLVLen
  <2> QED BY <2>2, <1>3, LengthFits
<1>11. Complete <=> offset + 3 + size <= l
  <2> HIDE DEF size, l
  <2>1. Complete <=> offset + 3 <= l /\ offset + 3 + TLVLen <= l
    BY DEF Complete, l
  <2> QED BY <2>1, <1>3, <1>4, <1>9, <1>10
<1>12. ASSUME Complete
       PROVE  /\ TLVType = part.type /\ TLVLen = size
              /\ Val = part.value /\ NextOffset = End(parts, k + 1)
  <2>1. offset + 3 + size <= l /\ TLVLen = size
    BY <1>3, <1>4, <1>9, <1>10, <1>11, <1>12
  <2>2. TLVType = part.type
    <3>1. offset + 1 \in 1 .. l
      <4>1. offset \in Nat /\ size \in Nat
        BY <1>3, <1>4
      <4> HIDE DEF size, l
      <4> QED BY <4>1, <1>9, <2>1
    <3> QED BY <3>1, <1>5, <1>6 DEF TLVType
  <2>3. ASSUME NEW j \in 1 .. size PROVE data[offset + 3 + j] = part.value[j]
    <3>1. offset + 3 + j \in 1 .. l
      <4>1. offset \in Nat /\ size \in Nat
        BY <1>3, <1>4
      <4> HIDE DEF size, l
      <4> QED BY <4>1, <1>9, <2>1
    <3> QED BY <3>1, <1>5, <1>6
  <2>4. Val = [j \in 1 .. size |-> part.value[j]]
    BY <2>1, <2>3 DEF Val
  <2>5. Val = part.value
    BY <2>4, <1>3
  <2>6. NextOffset = offset + 3 + size
    BY <2>1 DEF NextOffset
  <2> QED BY <1>4, <2>1, <2>2, <2>5, <2>6
<1>13. offset < l
  BY <1>1, <1>2, <1>3, <1>4, <1>7, <1>8, <1>9
<1>14. Complete <=> (c = 0 \/ k + 1 < N)
  BY <1>1, <1>2, <1>3, <1>4, <1>7, <1>8, <1>9, <1>11
<1> QED BY <1>12, <1>13, <1>14

\* After the last TLV nothing is left, and nothing was lost.
LEMMA NoTLVLeft ==
  ASSUME TypeOK, wire \in Wires, data = Body(wire),
         offset = End(wire.parts, Len(wire.parts))
  PROVE  wire.cut = 0 /\ offset = Len(data)
<1>1. wire.cut \in Nat /\ wire.parts \in TLVParts
  BY WireFacts
<1>2. Len(data) = offset - wire.cut
  BY BodyFacts
<1>3. offset \in 0 .. Len(data) /\ Len(data) \in Nat
  BY DEF TypeOK
<1> QED BY <1>1, <1>2, <1>3

LEMMA LastOfNone ==
  ASSUME NEW type
  PROVE  LastOf(0, type) = None
  BY DEF LastOf

\* A later TLV replaces an earlier one of its type.
LEMMA LastOfNext ==
  ASSUME NEW k \in Nat, NEW type
  PROVE  LastOf(k + 1, type) =
           IF wire.parts[k + 1].type = type THEN wire.parts[k + 1].value ELSE LastOf(k, type)
<1> DEFINE at(n) == {i \in 1 .. n : wire.parts[i].type = type}
<1>1. CASE wire.parts[k + 1].type = type
  <2> DEFINE i == CHOOSE i \in at(k + 1) : \A j \in at(k + 1) : j <= i
  <2>1. k + 1 \in at(k + 1) /\ \A j \in at(k + 1) : j <= k + 1
    BY <1>1
  <2>2. i \in at(k + 1) /\ \A j \in at(k + 1) : j <= i
    BY <2>1
  <2>3. i \in Nat /\ k + 1 <= i /\ i <= k + 1
    BY <2>1, <2>2
  <2> HIDE DEF i
  <2>4. i = k + 1
    BY <2>3
  <2>5. at(k + 1) # {}
    BY <2>1
  <2>6. LastOf(k + 1, type) = wire.parts[i].value
    BY <2>5 DEF LastOf, i
  <2> QED BY <1>1, <2>4, <2>6
<1>2. CASE wire.parts[k + 1].type # type
  <2>1. at(k + 1) = at(k)
    <3>1. \A i : i \in 1 .. k + 1 <=> i \in 1 .. k \/ i = k + 1
      OBVIOUS
    <3> QED BY <1>2, <3>1
  <2>2. \A n : LastOf(n, type) =
          IF at(n) = {} THEN None
            ELSE wire.parts[CHOOSE i \in at(n) : \A j \in at(n) : j <= i].value
    BY DEF LastOf
  <2> HIDE DEF at
  <2> QED BY <1>2, <2>1, <2>2
<1> QED BY <1>1, <1>2

LEMMA WrittenByNone == WrittenBy(0) = Empty
  BY LastOfNone DEF WrittenBy, Empty

\* What the switch stores is what one more TLV amounts to.
LEMMA StoredIsWritten ==
  ASSUME NEW k \in Nat, out = WrittenBy(k), NEW value \in Seq(Byte),
         TLVType = wire.parts[k + 1].type, value = wire.parts[k + 1].value,
         TLVType = tlvMinAmount => Len(value) = AmountLen
  PROVE  Stored(value) = WrittenBy(k + 1)
<1>1. \A type : LastOf(k + 1, type) = IF TLVType = type THEN value ELSE LastOf(k, type)
  BY LastOfNext
<1> DEFINE c(n) == LastOf(n, tlvCiphertext)
           s(n) == LastOf(n, tlvArkadeScript)
           p(n) == LastOf(n, tlvCovclaimdPubKey)
           amount(v) == IF v = None THEN None
                          ELSE CHOOSE x \in Amounts : MinAmountBytes(x) = v
           m(n) == amount(LastOf(n, tlvMinAmount))
<1>2. \A n : WrittenBy(n) =
        [ciphertext |-> c(n), arkadeScript |-> s(n), covclaimdPubKey |-> p(n), minAmount |-> m(n)]
  BY DEF WrittenBy
<1>3. /\ c(k + 1) = IF TLVType = tlvCiphertext THEN value ELSE c(k)
      /\ s(k + 1) = IF TLVType = tlvArkadeScript THEN value ELSE s(k)
      /\ p(k + 1) = IF TLVType = tlvCovclaimdPubKey THEN value ELSE p(k)
  BY <1>1
<1>4. m(k + 1) = IF TLVType = tlvMinAmount THEN BigEndian(value) ELSE m(k)
  <2>1. CASE TLVType = tlvMinAmount
    <3>1. LastOf(k + 1, tlvMinAmount) = value
      BY <1>1, <2>1
    <3>2. value # None
      BY FormatAssumption
    <3>3. m(k + 1) = CHOOSE x \in Amounts : MinAmountBytes(x) = value
      BY <3>1, <3>2
    <3> HIDE DEF m
    <3> QED BY <2>1, <3>3, AmountFromBytes
  <2>2. CASE TLVType # tlvMinAmount
    <3>1. LastOf(k + 1, tlvMinAmount) = LastOf(k, tlvMinAmount)
      BY <1>1, <2>2
    <3> HIDE DEF amount
    <3> QED BY <2>2, <3>1
  <2> QED BY <2>1, <2>2
<1> HIDE DEF c, s, p, m, amount
<1>5. out = [ciphertext |-> c(k), arkadeScript |-> s(k), covclaimdPubKey |-> p(k), minAmount |-> m(k)]
  BY <1>2
<1>6. WrittenBy(k + 1) = [ciphertext |-> c(k + 1), arkadeScript |-> s(k + 1),
                          covclaimdPubKey |-> p(k + 1), minAmount |-> m(k + 1)]
  BY <1>2
<1>7. CASE TLVType = tlvCiphertext
  <2>1. Stored(value) = [out EXCEPT !.ciphertext = value]
    BY <1>7 DEF Stored, tlvCiphertext, tlvArkadeScript, tlvCovclaimdPubKey, tlvMinAmount
  <2> QED BY <1>3, <1>4, <1>5, <1>6, <1>7, <2>1
          DEF tlvCiphertext, tlvArkadeScript, tlvCovclaimdPubKey, tlvMinAmount
<1>8. CASE TLVType = tlvArkadeScript
  <2>1. Stored(value) = [out EXCEPT !.arkadeScript = value]
    BY <1>8 DEF Stored, tlvCiphertext, tlvArkadeScript, tlvCovclaimdPubKey, tlvMinAmount
  <2> QED BY <1>3, <1>4, <1>5, <1>6, <1>8, <2>1
          DEF tlvCiphertext, tlvArkadeScript, tlvCovclaimdPubKey, tlvMinAmount
<1>9. CASE TLVType = tlvCovclaimdPubKey
  <2>1. Stored(value) = [out EXCEPT !.covclaimdPubKey = value]
    BY <1>9 DEF Stored, tlvCiphertext, tlvArkadeScript, tlvCovclaimdPubKey, tlvMinAmount
  <2> QED BY <1>3, <1>4, <1>5, <1>6, <1>9, <2>1
          DEF tlvCiphertext, tlvArkadeScript, tlvCovclaimdPubKey, tlvMinAmount
<1>10. CASE TLVType = tlvMinAmount
  <2>1. Stored(value) = [out EXCEPT !.minAmount = BigEndian(value)]
    BY <1>10 DEF Stored, tlvCiphertext, tlvArkadeScript, tlvCovclaimdPubKey, tlvMinAmount
  <2> QED BY <1>3, <1>4, <1>5, <1>6, <1>10, <2>1
          DEF tlvCiphertext, tlvArkadeScript, tlvCovclaimdPubKey, tlvMinAmount
<1>11. CASE TLVType \notin {tlvCiphertext, tlvArkadeScript, tlvCovclaimdPubKey, tlvMinAmount}
  <2>1. Stored(value) = out
    BY <1>11 DEF Stored
  <2> QED BY <1>3, <1>4, <1>5, <1>6, <1>11, <2>1
<1> QED BY <1>7, <1>8, <1>9, <1>10, <1>11

-----------------------------------------------------------------------------
(***************************************************************************)
(* The loop puts together what was written.                                *)
(***************************************************************************)
LEMMA InitIInv == Init => IInv
<1> SUFFICES ASSUME Init PROVE IInv
  OBVIOUS
<1>1. wire.parts \in TLVParts
  BY WireFacts DEF Init
<1>2. 0 \in 0 .. Len(wire.parts)
  BY <1>1 DEF TLVParts
<1>3. Between(0)
  <2>1. BytesOf(wire.parts)[0] = <<>>
    BY <1>1, BytesOfFacts
  <2>2. out = WrittenBy(0)
    BY WrittenByNone DEF Init
  <2> QED BY <2>1, <2>2 DEF Between, Init
<1>4. ReadsWhatWasWritten
  BY DEF Init, ReadsWhatWasWritten
<1> QED BY <1>2, <1>3, <1>4, InitTypeOK DEF IInv, Init

\* What was written does not change while it is read.
LEMMA WrittenKept ==
  ASSUME wire' = wire
  PROVE  /\ \A k : WrittenBy(k)' = WrittenBy(k)
         /\ Written' = Written
         /\ WellFormed' <=> WellFormed
  BY DEF WrittenBy, LastOf, Written, WellFormed

LEMMA NextIInv == IInv /\ [Next]_vars => IInv'
<1> SUFFICES ASSUME IInv, [Next]_vars PROVE IInv'
  OBVIOUS
<1>1. TypeOK /\ wire \in Wires /\ data = Body(wire)
  BY DEF IInv
<1>2. TypeOK'
  BY <1>1, NextTypeOK
<1>3. wire' = wire /\ data' = data
  BY DEF Next, RefuseTLV, ReadTLV, Finish, vars
<1>4. wire' \in Wires /\ data' = Body(wire')
  BY <1>1, <1>3
<1>5. CASE ~ Fits(wire.parts)
  BY <1>2, <1>3, <1>4, <1>5 DEF IInv, ReadsWhatWasWritten
<1>6. CASE UNCHANGED vars
  <2>1. ReadsWhatWasWritten'
    BY <1>6, WrittenKept DEF IInv, ReadsWhatWasWritten, vars
  <2>2. \A k : Between(k) => Between(k)'
    BY <1>6, WrittenKept DEF Between, vars
  <2> QED BY <1>2, <1>4, <1>6, <2>1, <2>2 DEF IInv, vars
<1>7. CASE Fits(wire.parts) /\ Next
  <2> DEFINE parts == wire.parts
             N == Len(parts)
  <2>1. parts \in TLVParts /\ N \in Nat
    <3>1. parts \in TLVParts
      BY <1>1, WireFacts
    <3> QED BY <3>1 DEF TLVParts
  <2>2. status = "reading"
    BY <1>7 DEF Next, RefuseTLV, ReadTLV, Finish, More
  <2>3. PICK k \in 0 .. N : Between(k)
    BY <1>7, <2>2 DEF IInv
  <2>4. offset = End(parts, k) /\ out = WrittenBy(k) /\ \A i \in 1 .. k : RightPart(parts[i])
    BY <2>3 DEF Between, End
  <2> DEFINE part == parts[k + 1]
  <2>5. k < N => /\ offset < Len(data)
                 /\ Complete <=> (wire.cut = 0 \/ k + 1 < N)
                 /\ Complete => /\ TLVType = part.type
                                /\ TLVLen = Len(part.value)
                                /\ Val = part.value
                                /\ NextOffset = End(parts, k + 1)
    <3> SUFFICES ASSUME k < N
                 PROVE  /\ offset < Len(data)
                        /\ Complete <=> (wire.cut = 0 \/ k + 1 < N)
                        /\ Complete => /\ TLVType = part.type
                                       /\ TLVLen = Len(part.value)
                                       /\ Val = part.value
                                       /\ NextOffset = End(parts, k + 1)
      OBVIOUS
    <3>1. k \in 0 .. N - 1
      BY <2>1
    <3> QED BY <1>1, <1>7, <2>4, <3>1, NextTLV
  <2>6. k = N => wire.cut = 0 /\ offset = Len(data)
    BY <1>1, <2>4, NoTLVLeft
  <2>7. k < N /\ Complete => (RightLength <=> RightPart(part))
    BY <2>5 DEF RightLength, RightPart
  <2>8. offset \in Nat /\ Len(data) \in Nat
    BY <1>1 DEF TypeOK
  <2> HIDE DEF N, part
  <2>9. CASE ReadTLV
    <3>1. k < N /\ Complete /\ RightLength
      BY <2>1, <2>6, <2>8, <2>9 DEF ReadTLV, More
    <3>2. k + 1 \in 0 .. N /\ k \in Nat /\ k + 1 \in 1 .. N
      BY <2>1, <3>1
    <3>3. part \in [type : Byte, value : Seq(Byte)]
      BY <2>1, <3>2, Element DEF TLVParts, N, part
    <3>4. Val \in Seq(Byte) /\ (TLVType = tlvMinAmount => Len(Val) = AmountLen)
      BY <2>5, <3>1, <3>3 DEF RightLength
    <3>5. Stored(Val) = WrittenBy(k + 1)
      BY <2>4, <2>5, <3>1, <3>2, <3>4, StoredIsWritten DEF part
    <3>6. offset' = Len(BytesOf(wire.parts)[k + 1]) /\ out' = WrittenBy(k + 1)
      BY <2>5, <2>9, <3>1, <3>5 DEF ReadTLV, End
    <3>7. \A i \in 1 .. k + 1 : RightPart(parts[i])
      <4> TAKE i \in 1 .. k + 1
      <4>1. i \in 1 .. k \/ i = k + 1
        BY <3>2
      <4> QED BY <2>4, <2>7, <3>1, <4>1 DEF part
    <3>8. Between(k + 1)'
      BY <1>3, <3>6, <3>7, WrittenKept DEF Between
    <3>9. status' = "reading"
      BY <2>2, <2>9 DEF ReadTLV
    <3> QED BY <1>2, <1>3, <1>4, <3>2, <3>8, <3>9 DEF IInv, ReadsWhatWasWritten, N
  <2>10. CASE RefuseTLV
    <3>1. k < N /\ ~ (Complete /\ RightLength) /\ status' = "error"
      BY <2>1, <2>6, <2>8, <2>10 DEF RefuseTLV, More
    <3>2. ~ WellFormed
      <4>1. SUFFICES ASSUME WellFormed PROVE FALSE
        OBVIOUS
      <4>2. k + 1 \in DOMAIN parts
        BY <2>1, <3>1 DEF TLVParts, N
      <4>3. wire.cut = 0 /\ RightPart(part)
        BY <4>1, <4>2 DEF WellFormed, part
      <4> QED BY <2>5, <2>7, <3>1, <4>3
    <3> QED BY <1>2, <1>3, <1>4, <3>1, <3>2, WrittenKept DEF IInv, ReadsWhatWasWritten
  <2>11. CASE Finish
    <3>1. k = N
      BY <2>1, <2>5, <2>8, <2>11 DEF Finish
    <3>2. wire.cut = 0 /\ out = Written
      BY <2>4, <2>6, <3>1 DEF Written, N
    <3>3. \A i \in DOMAIN parts : RightPart(parts[i])
      BY <2>1, <2>4, <3>1 DEF TLVParts, N
    <3>4. WellFormed <=> out.ciphertext # None /\ out.arkadeScript # None
      BY <3>2, <3>3 DEF WellFormed
    <3>5. /\ status' = IF WellFormed THEN "ok" ELSE "error"
          /\ out' = out
      BY <2>11, <3>4 DEF Finish
    <3> QED BY <1>2, <1>3, <1>4, <3>2, <3>5, WrittenKept DEF IInv, ReadsWhatWasWritten
  <2> QED BY <1>7, <2>9, <2>10, <2>11 DEF Next
<1> QED BY <1>5, <1>6, <1>7

\* The invariant of the loop of DeserializeClaim: between two TLVs it has put
\* together what those before amount to.
THEOREM Invariance == Spec => []IInv
  BY InitIInv, NextIInv, PTL DEF Spec

\* DeserializeClaim returns what the sender wrote, in whatever order and with
\* whatever unknown types between, or refuses it for a reason.
THEOREM ReaderRefusesOrReads == Spec => []ReadsWhatWasWritten
<1>1. IInv => ReadsWhatWasWritten
  BY DEF IInv
<1> QED BY <1>1, Invariance, PTL

\* What Serialize writes is well formed and amounts to the packet.
LEMMA SealedIsWritten ==
  ASSUME wire \in Wires, wire.sealed # None
  PROVE  WellFormed /\ Written = wire.sealed
<1> DEFINE p == wire.sealed
           parts == wire.parts
           N == Len(parts)
           bound == MinAmountBytes(p.minAmount)
<1>1. p \in Packets /\ Serializable(p) /\ parts = Parts(p) /\ wire.cut = 0
  BY WireFacts
<1> HIDE DEF p, parts
<1>2. /\ p.ciphertext \in Seq(Byte) /\ p.arkadeScript \in Seq(Byte)
      /\ p.covclaimdPubKey \in Seq(Byte) /\ Len(p.covclaimdPubKey) = KeyLen
      /\ p.minAmount \in Amounts \cup {None}
      /\ p = [ciphertext |-> p.ciphertext, arkadeScript |-> p.arkadeScript,
              covclaimdPubKey |-> p.covclaimdPubKey, minAmount |-> p.minAmount]
      /\ parts \in TLVParts
      /\ N = IF p.minAmount = None THEN 3 ELSE 4
      /\ parts[1] = Part(tlvCiphertext, p.ciphertext)
      /\ parts[2] = Part(tlvArkadeScript, p.arkadeScript)
      /\ parts[3] = Part(tlvCovclaimdPubKey, p.covclaimdPubKey)
      /\ p.minAmount # None => parts[4] = Part(tlvMinAmount, bound)
  BY <1>1, SealedParts
<1>3. None \notin Seq(Byte)
  BY FormatAssumption
<1>4. p.minAmount # None => /\ bound \in Seq(Byte) /\ Len(bound) = AmountLen
                            /\ BigEndian(bound) = p.minAmount
  <2> SUFFICES ASSUME p.minAmount # None
               PROVE  /\ bound \in Seq(Byte) /\ Len(bound) = AmountLen
                      /\ BigEndian(bound) = p.minAmount
    OBVIOUS
  <2>1. p.minAmount \in Amounts /\ p.minAmount \in Nat
    <3>1. AmountLen \in Nat
      BY FormatAssumption
    <3>2. Power[AmountLen] \in Nat
      BY <3>1, PowerFacts
    <3> QED BY <1>2, <3>2 DEF Amounts
  <2> QED BY <2>1, AmountBytes, AmountIsReadBack
<1> HIDE DEF bound, N
<1>5. ASSUME NEW k \in Nat, NEW type, NEW value, parts[k + 1] = Part(type, value)
      PROVE  \A t : LastOf(k + 1, t) = IF type = t THEN value ELSE LastOf(k, t)
  <2>1. parts[k + 1].type = type /\ parts[k + 1].value = value
    BY <1>5 DEF Part
  <2> QED BY <2>1, LastOfNext DEF parts
<1>6. \A t : LastOf(0, t) = None
  BY LastOfNone
<1>7. \A t : LastOf(1, t) = IF tlvCiphertext = t THEN p.ciphertext ELSE None
  <2>1. \A t : LastOf(0 + 1, t) = IF tlvCiphertext = t THEN p.ciphertext ELSE LastOf(0, t)
    <3>1. parts[0 + 1] = Part(tlvCiphertext, p.ciphertext)
      BY <1>2
    <3> QED BY <3>1, <1>5
  <2> QED BY <2>1, <1>6
<1>8. \A t : LastOf(2, t) = IF tlvArkadeScript = t THEN p.arkadeScript ELSE LastOf(1, t)
  <2>1. parts[1 + 1] = Part(tlvArkadeScript, p.arkadeScript)
    BY <1>2
  <2>2. \A t : LastOf(1 + 1, t) = IF tlvArkadeScript = t THEN p.arkadeScript ELSE LastOf(1, t)
    BY <2>1, <1>5
  <2> QED BY <2>2
<1>9. \A t : LastOf(3, t) = IF tlvCovclaimdPubKey = t THEN p.covclaimdPubKey ELSE LastOf(2, t)
  <2>1. parts[2 + 1] = Part(tlvCovclaimdPubKey, p.covclaimdPubKey)
    BY <1>2
  <2>2. \A t : LastOf(2 + 1, t) = IF tlvCovclaimdPubKey = t THEN p.covclaimdPubKey ELSE LastOf(2, t)
    BY <2>1, <1>5
  <2> QED BY <2>2
<1>10. p.minAmount # None =>
         \A t : LastOf(4, t) = IF tlvMinAmount = t THEN bound ELSE LastOf(3, t)
  <2> SUFFICES ASSUME p.minAmount # None
               PROVE  \A t : LastOf(4, t) = IF tlvMinAmount = t THEN bound ELSE LastOf(3, t)
    OBVIOUS
  <2>1. parts[3 + 1] = Part(tlvMinAmount, bound)
    BY <1>2
  <2>2. \A t : LastOf(3 + 1, t) = IF tlvMinAmount = t THEN bound ELSE LastOf(3, t)
    BY <2>1, <1>5
  <2> QED BY <2>2
<1>11. /\ LastOf(N, tlvCiphertext) = p.ciphertext
       /\ LastOf(N, tlvArkadeScript) = p.arkadeScript
       /\ LastOf(N, tlvCovclaimdPubKey) = p.covclaimdPubKey
       /\ LastOf(N, tlvMinAmount) = IF p.minAmount = None THEN None ELSE bound
  <2>1. CASE p.minAmount = None
    <3>1. N = 3
      BY <1>2, <2>1
    <3> QED BY <1>7, <1>8, <1>9, <2>1, <3>1
            DEF tlvCiphertext, tlvArkadeScript, tlvCovclaimdPubKey, tlvMinAmount
  <2>2. CASE p.minAmount # None
    BY <1>2, <1>7, <1>8, <1>9, <1>10, <2>2
       DEF tlvCiphertext, tlvArkadeScript, tlvCovclaimdPubKey, tlvMinAmount
  <2> QED BY <2>1, <2>2
<1> DEFINE amount(v) == IF v = None THEN None
                          ELSE CHOOSE n \in Amounts : MinAmountBytes(n) = v
<1>12. amount(LastOf(N, tlvMinAmount)) = p.minAmount
  <2>1. CASE p.minAmount = None
    BY <1>11, <2>1
  <2>2. CASE p.minAmount # None
    <3>1. amount(bound) = p.minAmount
      <4>1. bound # None
        BY <1>3, <1>4, <2>2
      <4>2. (CHOOSE n \in Amounts : MinAmountBytes(n) = bound) = BigEndian(bound)
        BY <1>4, <2>2, AmountFromBytes
      <4> QED BY <1>4, <2>2, <4>1, <4>2
    <3> HIDE DEF amount
    <3> QED BY <1>11, <2>2, <3>1
  <2> QED BY <2>1, <2>2
<1>13. Written = [ciphertext |-> LastOf(N, tlvCiphertext),
                  arkadeScript |-> LastOf(N, tlvArkadeScript),
                  covclaimdPubKey |-> LastOf(N, tlvCovclaimdPubKey),
                  minAmount |-> amount(LastOf(N, tlvMinAmount))]
  BY DEF Written, WrittenBy, N, parts
<1> HIDE DEF amount
<1>14. Written = p
  BY <1>2, <1>11, <1>12, <1>13
<1>15. \A i \in DOMAIN parts : RightPart(parts[i])
  <2> TAKE i \in DOMAIN parts
  <2>1. i \in 1 .. 4 /\ (i = 4 => p.minAmount # None)
    BY <1>2 DEF TLVParts, N
  <2>2. i = 1 \/ i = 2 \/ i = 3 \/ i = 4
    BY <2>1
  <2> QED BY <1>2, <1>4, <2>1, <2>2
          DEF RightPart, Part, tlvCiphertext, tlvArkadeScript, tlvCovclaimdPubKey, tlvMinAmount
<1>16. WellFormed
  BY <1>1, <1>2, <1>3, <1>14, <1>15 DEF WellFormed, parts
<1> QED BY <1>14, <1>16 DEF p

\* What Serialize accepts, DeserializeClaim returns unchanged.
THEOREM RoundTrip == Spec => []SerializedIsReadBack
<1>1. IInv => SerializedIsReadBack
  <2> SUFFICES ASSUME IInv, wire.sealed # None, Fits(wire.parts)
               PROVE  status # "error" /\ (status = "ok" => out = wire.sealed)
    BY DEF SerializedIsReadBack
  <2>1. WellFormed /\ Written = wire.sealed
    BY SealedIsWritten DEF IInv
  <2> QED BY <2>1 DEF IInv, ReadsWhatWasWritten
<1> QED BY <1>1, Invariance, PTL

-----------------------------------------------------------------------------
(***************************************************************************)
(* The key that was read is in the body, behind its header.                *)
(***************************************************************************)
KeyAt(k, key) ==
  /\ k + 3 + KeyLen <= Len(data)
  /\ data[k + 1] = tlvCovclaimdPubKey
  /\ data[k + 2] * Base + data[k + 3] = KeyLen
  /\ key = [i \in 1 .. KeyLen |-> data[k + 3 + i]]

Fields == {"ciphertext", "arkadeScript", "covclaimdPubKey", "minAmount"}

KeyIsInBody ==
  /\ DOMAIN out = Fields
  /\ out.covclaimdPubKey # None => \E k \in Nat : KeyAt(k, out.covclaimdPubKey)

\* The switch sets one field at most, and the key only from its own TLV.
LEMMA StoredFields ==
  ASSUME DOMAIN out = Fields, NEW value
  PROVE  /\ DOMAIN Stored(value) = Fields
         /\ Stored(value).covclaimdPubKey =
              IF TLVType = tlvCovclaimdPubKey THEN value ELSE out.covclaimdPubKey
<1>1. CASE TLVType = tlvCiphertext
  BY <1>1 DEF Stored, Fields, tlvCiphertext, tlvArkadeScript, tlvCovclaimdPubKey, tlvMinAmount
<1>2. CASE TLVType = tlvArkadeScript
  BY <1>2 DEF Stored, Fields, tlvCiphertext, tlvArkadeScript, tlvCovclaimdPubKey, tlvMinAmount
<1>3. CASE TLVType = tlvCovclaimdPubKey
  BY <1>3 DEF Stored, Fields, tlvCiphertext, tlvArkadeScript, tlvCovclaimdPubKey, tlvMinAmount
<1>4. CASE TLVType = tlvMinAmount
  BY <1>4 DEF Stored, Fields, tlvCiphertext, tlvArkadeScript, tlvCovclaimdPubKey, tlvMinAmount
<1>5. CASE TLVType \notin {tlvCiphertext, tlvArkadeScript, tlvCovclaimdPubKey, tlvMinAmount}
  BY <1>5 DEF Stored
<1> QED BY <1>1, <1>2, <1>3, <1>4, <1>5

LEMMA StoredKey ==
  ASSUME TypeOK, DOMAIN out = Fields, ReadTLV
  PROVE  /\ DOMAIN out' = Fields
         /\ \/ out'.covclaimdPubKey = out.covclaimdPubKey
            \/ KeyAt(offset, out'.covclaimdPubKey)
<1>1. out' = Stored(Val) /\ Complete /\ RightLength
  BY DEF ReadTLV
<1>2. CASE TLVType = tlvCovclaimdPubKey
  <2>1. TLVLen = KeyLen
    BY <1>1, <1>2 DEF RightLength
  <2>2. KeyAt(offset, Val)
    BY <1>1, <1>2, <2>1 DEF KeyAt, Val, TLVType, TLVLen, Complete, TypeOK
  <2> QED BY <1>1, <1>2, <2>2, StoredFields
<1>3. CASE TLVType # tlvCovclaimdPubKey
  BY <1>1, <1>3, StoredFields
<1> QED BY <1>2, <1>3

\* A key that DeserializeClaim returns was read from a TLV of the body.
LEMMA KeyInBody == Spec => [](TypeOK /\ KeyIsInBody)
<1>1. Init => KeyIsInBody
  BY DEF Init, KeyIsInBody, Empty, Fields
<1>2. TypeOK /\ KeyIsInBody /\ [Next]_vars => KeyIsInBody'
  <2> SUFFICES ASSUME TypeOK, KeyIsInBody, [Next]_vars PROVE KeyIsInBody'
    OBVIOUS
  <2>1. CASE ReadTLV
    <3>1. ASSUME NEW k, NEW key, KeyAt(k, key), data' = data
          PROVE  /\ k + 3 + KeyLen <= Len(data')
                 /\ data'[k + 1] = tlvCovclaimdPubKey
                 /\ data'[k + 2] * Base + data'[k + 3] = KeyLen
                 /\ key = [i \in 1 .. KeyLen |-> data'[k + 3 + i]]
      BY <3>1 DEF KeyAt
    <3>2. offset \in Nat /\ data' = data
      BY <2>1 DEF TypeOK, ReadTLV
    <3>3. DOMAIN out' = Fields
      BY <2>1, StoredKey DEF KeyIsInBody
    <3>4. ASSUME out'.covclaimdPubKey # None
          PROVE  \E k \in Nat : KeyAt(k, out'.covclaimdPubKey)
      BY <2>1, <3>2, <3>4, StoredKey DEF KeyIsInBody
    <3> QED BY <3>1, <3>2, <3>3, <3>4 DEF KeyIsInBody, KeyAt
  <2>2. CASE UNCHANGED <<data, out>>
    BY <2>2 DEF KeyIsInBody, KeyAt
  <2> QED BY <2>1, <2>2 DEF Next, RefuseTLV, Finish, vars
<1> QED BY <1>1, <1>2, ReadsWithinBody, PTL DEF Spec

-----------------------------------------------------------------------------
(***************************************************************************)
(* The filter.                                                             *)
(***************************************************************************)
LEMMA HexFacts ==
  ASSUME NEW bytes \in Seq(Byte)
  PROVE  /\ Len(Hex(bytes)) = 2 * Len(bytes)
         /\ \A j \in 1 .. 2 * Len(bytes) :
              Hex(bytes)[j] = IF j % 2 = 1 THEN bytes[(j + 1) \div 2] \div HexBase
                                           ELSE bytes[(j + 1) \div 2] % HexBase
<1>1. DOMAIN Hex(bytes) = 1 .. 2 * Len(bytes)
  BY DEF Hex
<1>2. 2 * Len(bytes) \in Nat
  OBVIOUS
<1> QED BY <1>1, <1>2 DEF Hex

\* The bytes that the filter looks for.
LEMMA NeedleBytes ==
  ASSUME Len(PubKey) = KeyLen
  PROVE  /\ Needle \in Seq(Byte)
         /\ Len(Needle) = 3 + KeyLen
         /\ Needle[1] = tlvCovclaimdPubKey /\ Needle[2] = 0 /\ Needle[3] = KeyLen
         /\ \A j \in 1 .. KeyLen : Needle[3 + j] = PubKey[j]
<1>1. KeyLen \div Base = 0 /\ KeyLen % Base = KeyLen
  BY BaseFacts, SmallDivision
<1>2. 0 % Base = 0
  BY BaseFacts, SmallDivision
<1>3. Needle = <<tlvCovclaimdPubKey, 0, KeyLen>> \o PubKey
  BY <1>1, <1>2 DEF Needle, EncodeTLV
<1>4. {0, KeyLen, tlvCovclaimdPubKey} \subseteq Byte
  BY BaseAtLeastNine, BaseFacts DEF Byte, tlvCovclaimdPubKey
<1>5. PubKey \in Seq(Byte)
  BY FormatAssumption
<1> QED BY <1>3, <1>4, <1>5, BaseFacts

\* plugin.go:57-61: a packet that names this covclaimd is selected, whatever
\* the order of its fields and whatever else the body contains.
THEOREM NoFalseNegative == Spec => []FilterMissesNone
<1>1. TypeOK /\ KeyIsInBody => FilterMissesNone
  <2> SUFFICES ASSUME TypeOK, KeyIsInBody, AddressedTo(out, PubKey)
               PROVE  FilterSelects(data)
    BY DEF FilterMissesNone
  <2>1. PICK k \in Nat : KeyAt(k, PubKey)
    BY FormatAssumption DEF KeyIsInBody, AddressedTo
  <2>2. Len(PubKey) = KeyLen /\ KeyLen \in Nat /\ data \in Seq(Byte)
    BY BaseFacts DEF AddressedTo, TypeOK
  <2>3. k + 3 + KeyLen <= Len(data) /\ data[k + 1] = tlvCovclaimdPubKey
    BY <2>1 DEF KeyAt
  <2>4. data[k + 2] = 0 /\ data[k + 3] = KeyLen
    <3>1. data[k + 2] \in Nat /\ data[k + 3] \in Nat
      BY <2>2, <2>3, BaseFacts DEF Byte
    <3>2. data[k + 2] * Base + data[k + 3] = KeyLen
      BY <2>1 DEF KeyAt
    <3>3. data[k + 2] = 0
      BY <3>1, <3>2, BaseFacts, HighByteZero
    <3> QED BY <3>1, <3>2, <3>3, BaseFacts
  <2>5. \A j \in 1 .. KeyLen : data[k + 3 + j] = PubKey[j]
    BY <2>1 DEF KeyAt
  <2>6. \A j \in 1 .. 3 + KeyLen : data[k + j] = Needle[j]
    <3> TAKE j \in 1 .. 3 + KeyLen
    <3>1. CASE j \in 1 .. 3
      BY <3>1, <2>2, <2>3, <2>4, NeedleBytes
    <3>2. CASE j > 3
      <4>1. j - 3 \in 1 .. KeyLen /\ j = 3 + (j - 3) /\ k + j = k + 3 + (j - 3)
        BY <3>2, <2>2
      <4> QED BY <4>1, <2>2, <2>5, NeedleBytes
    <3> QED BY <3>1, <3>2, <2>2
  <2>7. OccursAt(Hex(data), Hex(Needle), 2 * k)
    <3>1. /\ Len(Hex(data)) = 2 * Len(data) /\ Len(Hex(Needle)) = 2 * (3 + KeyLen)
          /\ Len(data) \in Nat
      BY <2>2, NeedleBytes, HexFacts
    <3>2. ASSUME NEW j \in 1 .. 2 * (3 + KeyLen)
          PROVE  Hex(data)[2 * k + j] = Hex(Needle)[j]
      <4>1. /\ 2 * k + j \in 1 .. 2 * Len(data)
            /\ (2 * k + j) % 2 = j % 2
            /\ (2 * k + j + 1) \div 2 = k + (j + 1) \div 2
            /\ (j + 1) \div 2 \in 1 .. 3 + KeyLen
        BY <2>2, <2>3, <3>1
      <4>2. data[k + (j + 1) \div 2] = Needle[(j + 1) \div 2]
        BY <4>1, <2>6
      <4>3. Hex(data)[2 * k + j] =
              IF j % 2 = 1 THEN data[k + (j + 1) \div 2] \div HexBase
                           ELSE data[k + (j + 1) \div 2] % HexBase
        <5> DEFINE n == 2 * k + j
        <5>1. n \in 1 .. 2 * Len(data) /\ n % 2 = j % 2 /\ (n + 1) \div 2 = k + (j + 1) \div 2
          BY <4>1
        <5>2. Hex(data)[n] = IF n % 2 = 1 THEN data[(n + 1) \div 2] \div HexBase
                                          ELSE data[(n + 1) \div 2] % HexBase
          <6> HIDE DEF n
          <6> QED BY <5>1, <2>2, HexFacts
        <5> HIDE DEF n
        <5>3. Hex(data)[n] = IF j % 2 = 1 THEN data[k + (j + 1) \div 2] \div HexBase
                                          ELSE data[k + (j + 1) \div 2] % HexBase
          BY <5>1, <5>2
        <5> QED BY <5>3 DEF n
      <4>4. Hex(Needle)[j] = IF j % 2 = 1 THEN Needle[(j + 1) \div 2] \div HexBase
                                          ELSE Needle[(j + 1) \div 2] % HexBase
        <5>1. Needle \in Seq(Byte) /\ j \in 1 .. 2 * Len(Needle)
          BY <2>2, NeedleBytes
        <5> QED BY <5>1, HexFacts
      <4> QED BY <4>2, <4>3, <4>4
    <3> QED BY <3>1, <3>2, <2>2, <2>3 DEF OccursAt
  <2>8. 2 * k \in 0 .. Len(Hex(data))
    BY <2>2, <2>3, HexFacts
  <2> QED BY <2>7, <2>8 DEF FilterSelects
<1> QED BY <1>1, KeyInBody, PTL
=============================================================================
