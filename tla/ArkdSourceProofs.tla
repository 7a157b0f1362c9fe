-------------------------- MODULE ArkdSourceProofs --------------------------
(***************************************************************************)
(* Theorems about ArkdSource for every timeout, every heartbeat interval   *)
(* and any number of transactions, checked by TLAPS.                       *)
(***************************************************************************)
EXTENDS ArkdSource, SequenceTheorems, TLAPS

\* Subscribing, reopening and reading are where an error can end the stream.
LEMMA GoroutineEndsForCause ==
  ASSUME EndsForCause, Goroutine
  PROVE  EndsForCause'
<1>1. CASE Subscribe
  BY <1>1 DEF Subscribe, EndsForCause, Opens, Final
<1>2. CASE GiveUp
  BY <1>2 DEF GiveUp, EndsForCause
<1>3. CASE OpenSucceeds
  BY <1>3 DEF OpenSucceeds, EndsForCause, Opens
<1>4. CASE OpenFails
  BY <1>4 DEF OpenFails, EndsForCause, Final
<1>5. CASE Receive
  BY <1>5 DEF Receive, EndsForCause
<1>6. CASE RecvFails
  BY <1>6 DEF RecvFails, EndsForCause, Final
<1>7. CASE Send \/ SendCanceled
  BY <1>7 DEF Send, SendCanceled, EndsForCause
<1> QED BY <1>1, <1>2, <1>3, <1>4, <1>5, <1>6, <1>7 DEF Goroutine

\* Nothing outside the goroutine touches its place or its last error, and a
\* cancellation is never taken back.
LEMMA OthersEndForCause ==
  ASSUME EndsForCause,
         \/ Watchdog \/ MakeTx \/ SendOther \/ LosePeer
         \/ \E err \in Codes : Break(err)
         \/ Consume \/ Cancel \/ Tick \/ UNCHANGED vars
  PROVE  EndsForCause'
<1>1. UNCHANGED <<filtered, pc, lastErr>> /\ (ctxDone => ctxDone')
  BY DEF Watchdog, MakeTx, SendOther, LosePeer, Break, Consume, Cancel, Tick, vars, local
<1> QED BY <1>1 DEF EndsForCause

\* arkdsource.go:131-134 and 217-220: a filtered stream closes only on a
\* cancellation or a permanent error, and a permanent error is never retried.
THEOREM FilteredEndsForCause == Spec => []EndsForCause
<1>1. Init => EndsForCause
  BY DEF Init, EndsForCause
<1>2. EndsForCause /\ [Next]_vars => EndsForCause'
  BY GoroutineEndsForCause, OthersEndForCause DEF Next
<1> QED BY <1>1, <1>2, PTL DEF Spec

-----------------------------------------------------------------------------
(***************************************************************************)
(* The types.  Each lemma is about one of the three parts of Next.         *)
(***************************************************************************)
\* A number of a transaction is still one when arkd has made more.
LEMMA NumbersGrow ==
  ASSUME NEW m \in Nat, NEW n \in Nat, m <= n
  PROVE  /\ Seq(0 .. m) \subseteq Seq(0 .. n)
         /\ Seq(1 .. m) \subseteq Seq(1 .. n)
<1>1. 0 .. m \subseteq 0 .. n /\ 1 .. m \subseteq 1 .. n
  OBVIOUS
<1> QED BY <1>1, SeqMonotonic

LEMMA InitTypes == Init => TypeOK
<1> SUFFICES ASSUME Init PROVE TypeOK
  OBVIOUS
<1>1. wire = <<>> /\ held = <<>> /\ out = <<>> /\ taken = <<>>
  BY DEF Init
<1>2. <<>> \in Seq(0 .. made) /\ <<>> \in Seq(1 .. made) /\ Len(<<>>) = 0
  BY EmptySeq
<1>3. wire \in Seq(0 .. made) /\ held \in Seq(1 .. made) /\ out \in Seq(1 .. made)
      /\ Len(out) <= 1 /\ taken \in Seq(1 .. made)
  BY <1>1, <1>2
<1>4. pc = "start" /\ conn = "none" /\ code = "none"
  BY DEF Init
<1>5. /\ lastErr \in {"none"} \cup Codes /\ since \in 0 .. Heartbeat
      /\ quiet \in 0 .. StaleTimeout /\ quiet = 0
  BY ArkdSourceAssumption DEF Init
<1>6. made \in 0 .. MaxTxs /\ openedAt \in 0 .. made
  BY ArkdSourceAssumption DEF Init
<1>7. ctxDone \in BOOLEAN /\ filtered \in BOOLEAN
  BY DEF Init
<1> QED BY <1>1, <1>3, <1>4, <1>5, <1>6, <1>7 DEF TypeOK, Codes, Reading

LEMMA GoroutineTypes ==
  ASSUME TypeOK, Goroutine
  PROVE  TypeOK'
<1> USE ArkdSourceAssumption DEF TypeOK, Codes, Reading
<1>0. <<>> \in Seq(0 .. made) /\ <<>> \in Seq(1 .. made) /\ Len(<<>>) = 0
  BY EmptySeq
<1>1. CASE Subscribe
  <2>1. CASE Opens
    BY <1>0, <1>1, <2>1 DEF Subscribe, Opens
  <2>2. CASE ~ Opens
    BY <1>1, <2>2 DEF Subscribe, Final, upstream
  <2> QED BY <2>1, <2>2
<1>2. CASE GiveUp
  BY <1>2 DEF GiveUp, upstream
<1>3. CASE OpenSucceeds
  BY <1>0, <1>3 DEF OpenSucceeds, Opens
<1>4. CASE OpenFails
  BY <1>4 DEF OpenFails, Final, upstream
<1>5. CASE Receive
  <2>1. wire # <<>> /\ Head(wire) \in 0 .. made /\ Tail(wire) \in Seq(0 .. made)
    BY <1>5, HeadTailProperties DEF Receive
  <2>2. CASE Head(wire) = 0
    BY <1>5, <2>1, <2>2 DEF Receive
  <2>3. CASE Head(wire) # 0
    <3>1. held' = <<Head(wire)>> /\ pc' = "sending"
      BY <1>5, <2>3 DEF Receive
    <3>2. held' \in Seq(1 .. made) /\ Len(held') = 1
      BY <2>1, <2>3, <3>1
    <3> HIDE DEF TypeOK
    <3>3. UNCHANGED <<ctxDone, filtered, lastErr, out, conn, code, since, openedAt, made, taken>>
          /\ quiet' = 0 /\ wire' = Tail(wire) /\ pc = "recv"
      BY <1>5 DEF Receive
    <3> QED BY <2>1, <3>1, <3>2, <3>3 DEF TypeOK
  <2> QED BY <2>2, <2>3
<1>6. CASE RecvFails
  BY <1>0, <1>6 DEF RecvFails, RecvErrors, NoStream, Final
<1>7. CASE Send
  <2>1. held \in Seq(1 .. made) /\ Len(held) = 1
    BY <1>7 DEF Send
  <2>2. out' = held /\ held' = <<>> /\ pc' = "recv" /\ pc = "sending"
        /\ UNCHANGED <<ctxDone, filtered, lastErr, quiet, conn, code, wire, since,
                       openedAt, made, taken>>
    BY <1>7 DEF Send, upstream
  <2>3. out' \in Seq(1 .. made') /\ Len(out') <= 1
    <3>1. Len(out') = 1
      BY <2>1, <2>2, Zenon
    <3>2. out' \in Seq(1 .. made')
      BY <2>1, <2>2, Zenon
    <3> QED BY <3>1, <3>2
  <2>4. held' \in Seq(1 .. made')
    BY <1>0, <2>2, Zenon
  <2>5. wire' \in Seq(0 .. made') /\ taken' \in Seq(1 .. made')
    BY <2>2
  <2>6. (pc' = "sending") = FALSE
    BY <2>2
  <2> QED BY <2>2, <2>3, <2>4, <2>5, <2>6
<1>8. CASE SendCanceled
  BY <1>0, <1>8 DEF SendCanceled, NoStream
<1> QED BY <1>1, <1>2, <1>3, <1>4, <1>5, <1>6, <1>7, <1>8 DEF Goroutine

LEMMA ArkdTypes ==
  ASSUME TypeOK,
         \/ Watchdog \/ MakeTx \/ SendOther \/ LosePeer
         \/ \E err \in Codes : Break(err)
  PROVE  TypeOK'
<1> USE ArkdSourceAssumption DEF TypeOK, Codes, Reading
<1>1. CASE Watchdog
  <2>1. PICK n \in 0 .. Len(wire) : wire' = SubSeq(wire, 1, n)
    BY <1>1 DEF Watchdog
  <2>2. wire' \in Seq(0 .. made)
    BY <2>1, SubSeqProperties
  <2> QED BY <1>1, <2>2 DEF Watchdog, Stale, local
<1>2. CASE MakeTx
  <2>1. made' \in 0 .. MaxTxs /\ made' = made + 1
    BY <1>2 DEF MakeTx
  <2>2. Seq(0 .. made) \subseteq Seq(0 .. made') /\ Seq(1 .. made) \subseteq Seq(1 .. made')
    BY <2>1, NumbersGrow
  <2>3. wire' \in Seq(0 .. made')
    <3>1. wire \in Seq(0 .. made') /\ made' \in 0 .. made'
      BY <2>1, <2>2
    <3>2. Append(wire, made') \in Seq(0 .. made')
      BY <3>1, AppendProperties
    <3> QED BY <1>2, <3>1, <3>2 DEF MakeTx
  <2>4. since' \in 0 .. Heartbeat
    BY <1>2 DEF MakeTx
  <2>5. UNCHANGED <<ctxDone, filtered, pc, held, lastErr, quiet, out, conn, code, openedAt, taken>>
    BY <1>2 DEF MakeTx, local
  <2>6. ~ Reading => wire' = wire
    BY <1>2 DEF MakeTx, Carries
  <2> QED BY <2>1, <2>2, <2>3, <2>4, <2>5, <2>6
<1>3. CASE SendOther
  <2>1. Append(wire, 0) \in Seq(0 .. made)
    <3>1. wire \in Seq(0 .. made) /\ 0 \in 0 .. made
      OBVIOUS
    <3> QED BY ONLY <3>1, AppendProperties
  <2>2. wire' \in Seq(0 .. made')
    BY <1>3, <2>1 DEF SendOther
  <2>3. UNCHANGED <<ctxDone, filtered, pc, held, lastErr, quiet, out, conn, code, openedAt,
                    made, taken>> /\ since' = 0
    BY <1>3 DEF SendOther, local
  <2>4. Reading
    BY <1>3 DEF SendOther, Carries
  <2> QED BY <2>2, <2>3, <2>4
<1>4. CASE LosePeer
  BY <1>4 DEF LosePeer, local
<1>5. CASE \E err \in Codes : Break(err)
  BY <1>5 DEF Break, local
<1> QED BY <1>1, <1>2, <1>3, <1>4, <1>5

LEMMA OtherTypes ==
  ASSUME TypeOK, Consume \/ Cancel \/ Tick \/ UNCHANGED vars
  PROVE  TypeOK'
<1> USE ArkdSourceAssumption DEF TypeOK, Codes, Reading
<1>1. CASE Consume
  <2>1. taken' \in Seq(1 .. made)
    BY <1>1, ConcatProperties DEF Consume
  <2>2. <<>> \in Seq(1 .. made) /\ Len(<<>>) = 0
    BY EmptySeq
  <2> QED BY <1>1, <2>1, <2>2 DEF Consume, local, upstream
<1>2. CASE Cancel
  BY <1>2 DEF Cancel, upstream
<1>3. CASE Tick
  <2>1. Reading /\ UNCHANGED <<ctxDone, filtered, pc, held, lastErr, out, conn, code, wire,
                             openedAt, made, taken>>
    BY <1>3 DEF Tick
  <2>2. quiet' \in 0 .. StaleTimeout /\ since' \in 0 .. Heartbeat
    BY <1>3 DEF Tick, Carries
  <2> QED BY <2>1, <2>2
<1>4. CASE UNCHANGED vars
  BY <1>4 DEF vars, local, upstream
<1> QED BY <1>1, <1>2, <1>3, <1>4

\* arkdsource.go:307-327: a stream, its events and its timer are there only while
\* the goroutine reads, and a transaction is in its hand only while it sends.
THEOREM TypeCorrect == Spec => []TypeOK
<1>1. TypeOK /\ [Next]_vars => TypeOK'
  BY GoroutineTypes, ArkdTypes, OtherTypes DEF Next
<1> QED BY InitTypes, <1>1, PTL DEF Spec

-----------------------------------------------------------------------------
(***************************************************************************)
(* The line of transactions.  It is cut at its end, extended at its end,   *)
(* or loses an event that is not a transaction; nothing else happens to    *)
(* it.                                                                     *)
(***************************************************************************)
\* The transactions of s are in increasing order; PassedOnceInOrder says it of
\* the line.
Ordered(s) ==
  \A i, j \in DOMAIN s : i < j /\ IsTx(s[i]) /\ IsTx(s[j]) => s[i] < s[j]

LEMMA CutKeepsOrder ==
  ASSUME NEW s \in Seq(Nat), NEW t \in Seq(Nat), Ordered(s \o t)
  PROVE  Ordered(s)
<1>1. \A i \in 1 .. Len(s) : (s \o t)[i] = s[i] /\ i \in DOMAIN (s \o t)
  BY ConcatProperties, LenProperties
<1>2. DOMAIN s = 1 .. Len(s)
  BY LenProperties
<1> DEFINE whole == s \o t
<1>3. \A i \in DOMAIN s : whole[i] = s[i] /\ i \in DOMAIN whole
  BY <1>1, <1>2
<1>4. Ordered(whole)
  OBVIOUS
<1> HIDE DEF whole
<1> QED BY ONLY <1>3, <1>4 DEF Ordered

LEMMA AppendKeepsOrder ==
  ASSUME NEW s \in Seq(Nat), NEW n \in Nat, Ordered(s),
         n = 0 \/ \A i \in DOMAIN s : s[i] < n
  PROVE  Ordered(Append(s, n))
<1> DEFINE t == Append(s, n)
<1>1. /\ DOMAIN s = 1 .. Len(s) /\ DOMAIN t = 1 .. Len(s) + 1 /\ Len(s) \in Nat
      /\ \A i \in 1 .. Len(s) : t[i] = s[i]
      /\ t[Len(s) + 1] = n
  BY AppendProperties, LenProperties
<1> HIDE DEF t
<1>2. ASSUME NEW i \in DOMAIN t, NEW j \in DOMAIN t, i < j, IsTx(t[i]), IsTx(t[j])
      PROVE  t[i] < t[j]
  <2>1. i \in 1 .. Len(s)
    BY <1>1, <1>2
  <2>2. CASE j = Len(s) + 1
    BY <1>1, <1>2, <2>1, <2>2 DEF IsTx
  <2>3. CASE j \in 1 .. Len(s)
    BY <1>1, <1>2, <2>1, <2>3 DEF Ordered
  <2> QED BY <1>1, <2>2, <2>3
<1> QED BY <1>2 DEF Ordered, t

LEMMA AppendKeepsAll ==
  ASSUME NEW s \in Seq(Nat), NEW n \in Nat
  PROVE  /\ \A i \in DOMAIN s : i \in DOMAIN Append(s, n) /\ Append(s, n)[i] = s[i]
         /\ \E i \in DOMAIN Append(s, n) : Append(s, n)[i] = n
<1>1. Append(s, n) \in Seq(Nat) /\ Len(s) \in Nat /\ Len(Append(s, n)) = Len(s) + 1
  BY AppendProperties, LenProperties
<1>2. DOMAIN Append(s, n) = 1 .. Len(s) + 1 /\ DOMAIN s = 1 .. Len(s)
  BY <1>1, LenProperties
<1> QED BY <1>1, <1>2, AppendProperties

\* The two parts of a concatenation.
LEMMA ConcatParts ==
  ASSUME NEW s \in Seq(Nat), NEW t \in Seq(Nat)
  PROVE  /\ Len(s) \in Nat /\ Len(t) \in Nat
         /\ DOMAIN (s \o t) = 1 .. Len(s) + Len(t)
         /\ \A i \in 1 .. Len(s) : (s \o t)[i] = s[i]
         /\ \A j \in 1 .. Len(t) : (s \o t)[Len(s) + j] = t[j]
<1>1. Len(s) \in Nat /\ Len(t) \in Nat
  BY LenProperties
<1>2. /\ s \o t \in Seq(Nat) /\ Len(s \o t) = Len(s) + Len(t)
      /\ \A i \in 1 .. Len(s) + Len(t) :
           (s \o t)[i] = IF i <= Len(s) THEN s[i] ELSE t[i - Len(s)]
  BY ConcatProperties
<1> DEFINE a == Len(s)
           b == Len(t)
           c == s \o t
<1>3. DOMAIN c = 1 .. a + b
  BY <1>2, LenProperties
<1> HIDE DEF a, b, c
<1>4. \A i \in 1 .. a + b : c[i] = IF i <= a THEN s[i] ELSE t[i - a]
  BY <1>2 DEF a, b, c
<1>5. a \in Nat /\ b \in Nat
  BY <1>1 DEF a, b
<1>6. \A i \in 1 .. a : c[i] = s[i]
  BY ONLY <1>4, <1>5
<1>7. ASSUME NEW j \in 1 .. b PROVE c[a + j] = t[j]
  <2>1. a + j \in 1 .. a + b /\ ~ (a + j <= a) /\ (a + j) - a = j
    BY ONLY <1>5, j \in 1 .. b
  <2> QED BY ONLY <1>4, <2>1
<1> QED BY <1>3, <1>5, <1>6, <1>7 DEF a, b, c

\* The event that is dropped stood at some place of the line: places before it
\* stay, places after it move up by one.
LEMMA DropKeepsRest ==
  ASSUME NEW s \in Seq(Nat), NEW w \in Seq(Nat), w # <<>>, Head(w) = 0
  PROVE  /\ Ordered(s \o w) => Ordered(s \o Tail(w))
         /\ \A n \in Nat \ {0} :
              (\E i \in DOMAIN (s \o w) : (s \o w)[i] = n)
                => \E i \in DOMAIN (s \o Tail(w)) : (s \o Tail(w))[i] = n
<1> DEFINE old  == s \o w
           rest == Tail(w)
           new  == s \o rest
           a    == Len(s)
           b    == Len(rest)
<1>1. /\ rest \in Seq(Nat) /\ Len(rest) = Len(w) - 1
      /\ \A i \in 1 .. b : rest[i] = w[i + 1]
      /\ Len(w) \in Nat
  BY HeadTailProperties, LenProperties
<1>2. /\ a \in Nat /\ DOMAIN old = 1 .. a + Len(w)
      /\ \A i \in 1 .. a : old[i] = s[i]
      /\ \A j \in 1 .. Len(w) : old[a + j] = w[j]
  BY ConcatParts
<1>3. /\ b \in Nat /\ DOMAIN new = 1 .. a + b
      /\ \A i \in 1 .. a : new[i] = s[i]
      /\ \A j \in 1 .. b : new[a + j] = rest[j]
  BY <1>1, ConcatParts
<1>4. w[1] = 0
  OBVIOUS
<1> HIDE DEF old, rest, new, a, b
<1>5. Len(w) = b + 1
  <2>1. b = Len(w) - 1 /\ Len(w) \in Nat
    BY <1>1 DEF b
  <2> QED BY <2>1
<1>6. a \in Nat /\ b \in Nat /\ DOMAIN old = 1 .. a + (b + 1) /\ DOMAIN new = 1 .. a + b
  BY <1>2, <1>3, <1>5
<1>7. \A j \in 1 .. b + 1 : old[a + j] = w[j]
  BY <1>2, <1>5
<1> DEFINE At(i) == IF i <= a THEN i ELSE i + 1
<1>11. old[a + 1] = 0
  BY ONLY <1>4, <1>6, <1>7
<1>12. \A i \in DOMAIN new : new[i] = old[At(i)] /\ At(i) \in DOMAIN old
  <2> SUFFICES ASSUME NEW i \in DOMAIN new
               PROVE  new[i] = old[At(i)] /\ At(i) \in DOMAIN old
    OBVIOUS
  <2>1. CASE i <= a
    <3>1. i \in 1 .. a /\ i \in DOMAIN old
      BY ONLY <1>6, <2>1, i \in DOMAIN new
    <3> QED BY ONLY <1>2, <1>3, <2>1, <3>1
  <2>2. CASE ~ (i <= a)
    <3>1. PICK j \in 1 .. b : i = a + j
      <4>1. i - a \in 1 .. b /\ i = a + (i - a)
        BY ONLY <1>6, <2>2, i \in DOMAIN new
      <4> QED BY <4>1
    <3>2. j + 1 \in 1 .. b + 1 /\ i + 1 = a + (j + 1) /\ i + 1 \in DOMAIN old
      BY ONLY <1>6, <3>1
    <3>3. new[i] = w[j + 1]
      BY ONLY <1>1, <1>3, <3>1
    <3>4. old[i + 1] = w[j + 1]
      BY ONLY <1>7, <3>2
    <3> QED BY ONLY <2>2, <3>2, <3>3, <3>4
  <2> QED BY <2>1, <2>2
<1>13. \A k \in DOMAIN old : k # a + 1 => \E i \in DOMAIN new : At(i) = k
  <2> SUFFICES ASSUME NEW k \in DOMAIN old, k # a + 1
               PROVE  \E i \in DOMAIN new : At(i) = k
    OBVIOUS
  <2>1. CASE k <= a
    BY ONLY <1>6, <2>1, k \in DOMAIN old, a \in Nat, b \in Nat
  <2>2. CASE k > a + 1
    <3>1. k - 1 \in DOMAIN new /\ At(k - 1) = k
      BY ONLY <1>6, <2>2, k \in DOMAIN old, a \in Nat, b \in Nat
    <3> QED BY <3>1
  <2> QED BY <1>6, <2>1, <2>2
<1>14. \A i, j \in DOMAIN new : i < j => At(i) < At(j)
  BY ONLY <1>6, a \in Nat, b \in Nat
<1> HIDE DEF At
<1>15. Ordered(old) => Ordered(new)
  BY ONLY <1>12, <1>14 DEF Ordered
<1>16. ASSUME NEW n \in Nat \ {0}, NEW k \in DOMAIN old, old[k] = n
       PROVE  \E i \in DOMAIN new : new[i] = n
  BY <1>11, <1>12, <1>13, <1>16
<1> QED BY <1>15, <1>16 DEF old, new, rest

-----------------------------------------------------------------------------
(***************************************************************************)
(* What each step does to the line.                                        *)
(***************************************************************************)
Same == UNCHANGED <<openedAt, made>> /\ (Carries' => Carries)

Kept == Line' = Line /\ Same

\* The rest of a stream is lost with it, and a new one may be opened.
Cut ==
  /\ made' = made /\ (Carries' => openedAt' = made)
  /\ \E s, t \in Seq(Nat) : Line = s \o t /\ Line' = s

\* arkd makes a transaction while no stream is open.
Missed == Line' = Line /\ made' = made + 1 /\ ~ Carries'

Extended == Line' = Append(Line, made') /\ made' = made + 1 /\ openedAt' = openedAt /\ Carries

Dropped ==
  /\ Same
  /\ \E s, w \in Seq(Nat) :
       /\ w # <<>> /\ Head(w) = 0
       /\ Line = s \o w /\ Line' = s \o Tail(w)

Marked == Line' = Append(Line, 0) /\ Same

BeforeWire == taken \o out \o held

LEMMA LineTypes ==
  ASSUME TypeOK
  PROVE  /\ taken \in Seq(Nat) /\ out \in Seq(Nat) /\ held \in Seq(Nat) /\ wire \in Seq(Nat)
         /\ BeforeWire \in Seq(Nat) /\ Line = BeforeWire \o wire /\ Line \in Seq(Nat)
         /\ made \in Nat /\ openedAt \in Nat
         /\ \A i \in DOMAIN Line : Line[i] < made + 1
<1>1. /\ made \in Nat /\ openedAt \in Nat
      /\ taken \in Seq(1 .. made) /\ out \in Seq(1 .. made)
      /\ held \in Seq(1 .. made) /\ wire \in Seq(0 .. made)
  BY ArkdSourceAssumption DEF TypeOK
<1>2. Seq(1 .. made) \subseteq Seq(0 .. made) /\ Seq(0 .. made) \subseteq Seq(Nat)
  <2>1. 1 .. made \subseteq 0 .. made /\ 0 .. made \subseteq Nat
    BY <1>1
  <2> QED BY <2>1, SeqMonotonic
<1>3. taken \in Seq(0 .. made) /\ out \in Seq(0 .. made) /\ held \in Seq(0 .. made)
  BY <1>1, <1>2
<1>4. taken \o out \in Seq(0 .. made)
  BY ONLY <1>3, ConcatProperties
<1>5. BeforeWire \in Seq(0 .. made)
  BY ONLY <1>3, <1>4, ConcatProperties DEF BeforeWire
<1>6. Line = BeforeWire \o wire
  BY DEF Line, BeforeWire
<1>7. Line \in Seq(0 .. made)
  BY ONLY <1>1, <1>5, <1>6, ConcatProperties
<1>8. \A i \in DOMAIN Line : Line[i] \in 0 .. made
  BY ONLY <1>7, LenProperties, ElementOfSeq
<1>9. \A i \in DOMAIN Line : Line[i] < made + 1
  BY <1>1, <1>8
<1> QED BY <1>1, <1>2, <1>3, <1>5, <1>6, <1>7, <1>9

LEMMA Concatenated ==
    ASSUME NEW s \in Seq(Nat), NEW t \in Seq(Nat), NEW u \in Seq(Nat)
  PROVE  (s \o t) \o u = s \o (t \o u)
BY ConcatAssociative

LEMMA HeadAndTail ==
  ASSUME NEW w \in Seq(Nat), w # <<>>
  PROVE  w = <<Head(w)>> \o Tail(w)
<1>1. Len(w) \in Nat \ {0} /\ w[1] = Head(w)
  BY EmptySeq
<1>2. SubSeq(w, 1, Len(w)) = <<w[1]>> \o SubSeq(w, 2, Len(w))
  BY <1>1, SubSeqRecursiveFirst
<1> QED BY <1>1, <1>2, SubSeqFull, TailIsSubSeq

\* The goroutine: Receive moves an event from the wire into its hands, Send
\* one from there to the channel; where it ends or reopens the stream, what
\* was on the wire is lost.
LEMMA GoroutineLine ==
  ASSUME TypeOK, Goroutine
  PROVE  Kept \/ Cut \/ Dropped
<1>1. /\ taken \in Seq(Nat) /\ out \in Seq(Nat) /\ held \in Seq(Nat) /\ wire \in Seq(Nat)
      /\ BeforeWire \in Seq(Nat) /\ Line = BeforeWire \o wire /\ taken \o out \in Seq(Nat)
  BY LineTypes, ConcatProperties
<1>2. ASSUME wire' = <<>>, UNCHANGED <<taken, out, held, made>>,
             Carries' => openedAt' = made
      PROVE  Cut
  <2>1. Line' = BeforeWire
    <3>1. Line' = BeforeWire \o <<>>
      BY <1>2 DEF Line, BeforeWire
    <3> QED BY ONLY <1>1, <3>1, ConcatEmptySeq
  <2> QED BY ONLY <1>1, <1>2, <2>1 DEF Cut
<1>3. ASSUME UNCHANGED <<taken, out, held, wire, openedAt, made, ctxDone, conn>>
      PROVE  Kept
  BY <1>3 DEF Kept, Same, Line, Carries
<1>4. CASE Opens /\ UNCHANGED <<taken, out, held, made>>
  BY <1>2, <1>4 DEF Opens
<1>5. CASE NoStream /\ UNCHANGED <<taken, out, held, made>>
  BY <1>2, <1>5 DEF NoStream, Carries
<1>6. CASE Subscribe
  BY <1>3, <1>4, <1>6 DEF Subscribe, upstream
<1>7. CASE GiveUp \/ OpenFails
  BY <1>3, <1>7 DEF GiveUp, OpenFails, upstream
<1>8. CASE OpenSucceeds
  BY <1>4, <1>8 DEF OpenSucceeds
<1>9. CASE RecvFails
  BY <1>5, <1>9 DEF RecvFails
<1>10. CASE Receive
  <2>1. /\ wire # <<>> /\ wire' = Tail(wire)
        /\ UNCHANGED <<taken, out, openedAt, made, ctxDone, conn>>
    BY <1>10 DEF Receive
  <2>2. Same
    BY <2>1 DEF Same, Carries
  <2>3. CASE Head(wire) = 0
    <3>1. held' = held
      BY <1>10, <2>3 DEF Receive
    <3>2. Line' = BeforeWire \o Tail(wire)
      BY <2>1, <3>1 DEF Line, BeforeWire
    <3> QED BY ONLY <1>1, <2>1, <2>2, <2>3, <3>2 DEF Dropped
  <2>4. CASE Head(wire) # 0
    <3>1. held' = <<Head(wire)>> /\ held = <<>>
      BY <1>10, <2>4 DEF Receive, TypeOK
    <3>2. /\ Head(wire) \in Nat /\ Tail(wire) \in Seq(Nat)
          /\ <<Head(wire)>> \in Seq(Nat) /\ wire = <<Head(wire)>> \o Tail(wire)
      <4>1. Head(wire) \in Nat /\ Tail(wire) \in Seq(Nat)
        BY ONLY <1>1, <2>1, HeadTailProperties
      <4>2. <<Head(wire)>> \in Seq(Nat)
        BY <4>1
      <4>3. wire = <<Head(wire)>> \o Tail(wire)
        BY ONLY <1>1, <2>1, HeadAndTail
      <4> QED BY <4>1, <4>2, <4>3
    <3>3. BeforeWire = taken \o out
      <4>1. BeforeWire = (taken \o out) \o <<>>
        BY <3>1 DEF BeforeWire
      <4> QED BY ONLY <1>1, <4>1, ConcatEmptySeq
    <3>4. Line' = ((taken \o out) \o <<Head(wire)>>) \o Tail(wire)
      BY <2>1, <3>1 DEF Line
    <3>5. Line' = (taken \o out) \o (<<Head(wire)>> \o Tail(wire))
      <4> DEFINE before == taken \o out
                 first  == <<Head(wire)>>
                 rest   == Tail(wire)
      <4>1. before \in Seq(Nat) /\ first \in Seq(Nat) /\ rest \in Seq(Nat)
        BY <1>1, <3>2
      <4>2. Line' = (before \o first) \o rest
        BY <3>4
      <4> HIDE DEF before, first, rest
      <4>3. (before \o first) \o rest = before \o (first \o rest)
        BY ONLY <4>1, Concatenated
      <4> QED BY <4>2, <4>3 DEF before, first, rest
    <3>6. Line' = Line
      BY ONLY <1>1, <3>2, <3>3, <3>5
    <3> QED BY <2>2, <3>6 DEF Kept
  <2> QED BY <2>3, <2>4
<1>11. CASE Send
  <2>1. /\ out = <<>> /\ out' = held /\ held' = <<>>
        /\ UNCHANGED <<taken, wire, openedAt, made, ctxDone, conn>>
    BY <1>11 DEF Send, HasRoom, upstream
  <2>2. taken \o <<>> = taken /\ (taken \o held) \o <<>> = taken \o held
    <3>1. taken \o held \in Seq(Nat)
      BY ONLY <1>1, ConcatProperties
    <3> QED BY ONLY <1>1, <3>1, ConcatEmptySeq
  <2>3. Line = (taken \o held) \o wire /\ Line' = (taken \o held) \o wire
    BY <2>1, <2>2 DEF Line
  <2> QED BY <2>1, <2>3 DEF Kept, Same, Carries
<1>12. CASE SendCanceled
  <2>1. /\ held' = <<>> /\ wire' = <<>> /\ ~ Carries'
        /\ UNCHANGED <<taken, out, made>>
    BY <1>12 DEF SendCanceled, NoStream, Carries
  <2>2. Line' = taken \o out
    <3>1. Line' = ((taken \o out) \o <<>>) \o <<>>
      BY <2>1 DEF Line
    <3> QED BY ONLY <1>1, <3>1, ConcatEmptySeq
  <2>3. Line = (taken \o out) \o (held \o wire) /\ held \o wire \in Seq(Nat)
    <3> DEFINE before == taken \o out
    <3>1. before \in Seq(Nat) /\ Line = (before \o held) \o wire
      BY <1>1 DEF Line
    <3> HIDE DEF before
    <3>2. (before \o held) \o wire = before \o (held \o wire)
      BY ONLY <1>1, <3>1, Concatenated
    <3>3. held \o wire \in Seq(Nat)
      BY ONLY <1>1, ConcatProperties
    <3> QED BY <3>1, <3>2, <3>3 DEF before
  <2> QED BY ONLY <1>1, <2>1, <2>2, <2>3 DEF Cut
<1> QED BY <1>6, <1>7, <1>8, <1>9, <1>10, <1>11, <1>12 DEF Goroutine

\* arkd puts events at the end of the line; a break of the connection may cut
\* it; the consumer moves what the channel holds to what it has.
LEMMA OtherLine ==
  ASSUME TypeOK,
         \/ Watchdog \/ MakeTx \/ SendOther \/ LosePeer
         \/ \E err \in Codes : Break(err)
         \/ Consume \/ Cancel \/ Tick \/ UNCHANGED vars
  PROVE  Kept \/ Cut \/ Missed \/ Extended \/ Marked
<1>1. /\ taken \in Seq(Nat) /\ out \in Seq(Nat) /\ held \in Seq(Nat) /\ wire \in Seq(Nat)
      /\ BeforeWire \in Seq(Nat) /\ Line = BeforeWire \o wire /\ taken \o out \in Seq(Nat)
      /\ made \in Nat
  BY LineTypes, ConcatProperties
<1>2. ASSUME NEW n \in Nat, wire' = Append(wire, n), UNCHANGED <<taken, out, held>>
      PROVE  Line' = Append(Line, n)
  <2>1. wire' = wire \o <<n>> /\ <<n>> \in Seq(Nat)
    BY ONLY <1>1, <1>2, AppendIsConcat
  <2>2. Line' = BeforeWire \o wire'
    BY <1>2 DEF Line, BeforeWire
  <2>3. Line' = BeforeWire \o (wire \o <<n>>)
    BY <2>1, <2>2
  <2>4. (BeforeWire \o wire) \o <<n>> = BeforeWire \o (wire \o <<n>>)
    <3> DEFINE one == <<n>>
    <3>1. BeforeWire \in Seq(Nat) /\ wire \in Seq(Nat) /\ one \in Seq(Nat)
      BY <1>1, <2>1
    <3> HIDE DEF one
    <3>2. (BeforeWire \o wire) \o one = BeforeWire \o (wire \o one)
      BY ONLY <3>1, Concatenated
    <3> QED BY <3>2 DEF one
  <2>5. Line \in Seq(Nat)
    BY LineTypes
  <2>6. Append(Line, n) = Line \o <<n>>
    BY ONLY <1>2, <2>5, AppendIsConcat
  <2> QED BY <1>1, <2>3, <2>4, <2>6
<1>3. ASSUME UNCHANGED <<taken, out, held, wire, openedAt, made>>, Carries' => Carries
      PROVE  Kept
  BY <1>3 DEF Kept, Same, Line
<1>4. CASE Watchdog
  <2>1. PICK n \in 0 .. Len(wire) : wire' = SubSeq(wire, 1, n)
    BY <1>4 DEF Watchdog
  <2>2. PICK t \in Seq(Nat) : wire = wire' \o t /\ wire' \in Seq(Nat)
    <3>1. /\ SubSeq(wire, 1, n) \in Seq(Nat)
          /\ SubSeq(wire, n + 1, Len(wire)) \in Seq(Nat)
      <4>1. Len(wire) \in Nat /\ \A i \in 1 .. Len(wire) : wire[i] \in Nat
        BY ONLY <1>1, LenProperties, ElementOfSeq
      <4>2. n \in Int /\ n + 1 \in Int /\ n \in 0 .. Len(wire)
        BY ONLY <2>1, <4>1
      <4>3. /\ \A i \in 1 .. n : wire[i] \in Nat
            /\ \A i \in n + 1 .. Len(wire) : wire[i] \in Nat
        BY ONLY <4>1, <4>2
      <4>4. SubSeq(wire, 1, n) \in Seq(Nat)
        BY ONLY <4>2, <4>3, SubSeqProperties
      <4>5. SubSeq(wire, n + 1, Len(wire)) \in Seq(Nat)
        BY ONLY <4>1, <4>2, <4>3, SubSeqProperties
      <4> QED BY <4>4, <4>5
    <3>2. SubSeq(wire, 1, n) \o SubSeq(wire, n + 1, Len(wire)) = SubSeq(wire, 1, Len(wire))
      <4>1. Len(wire) \in Nat /\ 1 \in 1 .. Len(wire) + 1 /\ n \in 1 - 1 .. Len(wire)
            /\ Len(wire) \in n .. Len(wire)
        BY <1>1
      <4> QED BY <1>1, <4>1, ConcatAdjacentSubSeq
    <3>3. SubSeq(wire, 1, Len(wire)) = wire
      BY <1>1, SubSeqFull
    <3> QED BY <2>1, <3>1, <3>2, <3>3
  <2>3. Line' = BeforeWire \o wire' /\ UNCHANGED made /\ ~ Carries'
    BY <1>4 DEF Watchdog, local, Line, BeforeWire, Carries
  <2>4. (BeforeWire \o wire') \o t = BeforeWire \o (wire' \o t) /\ BeforeWire \o wire' \in Seq(Nat)
    <3>1. (BeforeWire \o wire') \o t = BeforeWire \o (wire' \o t)
      <4>1. BeforeWire \in Seq(Nat) /\ wire' \in Seq(Nat) /\ t \in Seq(Nat)
        BY <1>1, <2>2
      <4> QED BY ONLY <4>1, Concatenated
    <3> QED BY ONLY <1>1, <2>2, <3>1, ConcatProperties
  <2> QED BY ONLY <1>1, <2>2, <2>3, <2>4 DEF Cut
<1>5. CASE MakeTx
  <2>1. UNCHANGED <<taken, out, held, openedAt, ctxDone, conn>> /\ made' = made + 1
    BY <1>5 DEF MakeTx, local
  <2>2. CASE Carries
    <3>1. wire' = Append(wire, made') /\ made' \in Nat
      BY <1>1, <1>5, <2>1, <2>2 DEF MakeTx
    <3> QED BY <1>2, <2>1, <2>2, <3>1 DEF Extended
  <2>3. CASE ~ Carries
    BY <1>5, <2>1, <2>3 DEF MakeTx, Missed, Line, Carries
  <2> QED BY <2>2, <2>3
<1>6. CASE SendOther
  <2>1. UNCHANGED <<taken, out, held, openedAt, made, ctxDone, conn>>
    BY <1>6 DEF SendOther, local
  <2>2. wire' = wire \/ wire' = Append(wire, 0)
    BY <1>6 DEF SendOther
  <2> QED BY <1>2, <1>3, <2>1, <2>2 DEF Marked, Same, Carries
<1>7. CASE Consume
  <2>1. /\ taken' = taken \o out /\ out' = <<>>
        /\ UNCHANGED <<held, wire, openedAt, made, ctxDone, conn>>
    BY <1>7 DEF Consume, local, upstream
  <2>2. (taken \o out) \o <<>> = taken \o out
    BY ONLY <1>1, ConcatEmptySeq
  <2>3. Line' = Line
    BY <2>1, <2>2 DEF Line
  <2> QED BY <2>1, <2>3 DEF Kept, Same, Carries
<1>8. CASE LosePeer \/ (\E err \in Codes : Break(err)) \/ Cancel \/ Tick \/ UNCHANGED vars
  BY <1>3, <1>8 DEF LosePeer, Break, Cancel, Tick, vars, local, upstream, Carries
<1> QED BY <1>4, <1>5, <1>6, <1>7, <1>8

LEMMA StepLine ==
  ASSUME TypeOK, [Next]_vars
  PROVE  Kept \/ Cut \/ Missed \/ Extended \/ Marked \/ Dropped
BY GoroutineLine, OtherLine DEF Next

-----------------------------------------------------------------------------
(***************************************************************************)
(* Order and completeness.                                                 *)
(***************************************************************************)
\* arkdsource.go:180-241: a transaction arkd made later is put behind the
\* others; where a stream is reopened, the line goes on behind the last.
THEOREM OrderKept == Spec => []PassedOnceInOrder
<1>1. Init => PassedOnceInOrder
  <2> SUFFICES ASSUME Init PROVE PassedOnceInOrder
    OBVIOUS
  <2>1. Line = <<>> \o <<>> \o <<>> \o <<>>
    BY DEF Init, Line
  <2>2. <<>> \o <<>> \o <<>> \o <<>> = <<>>
    BY EmptySeq, ConcatEmptySeq
  <2>3. DOMAIN Line = {}
    BY <2>1, <2>2
  <2> QED BY <2>3 DEF PassedOnceInOrder
<1>2. TypeOK /\ PassedOnceInOrder /\ [Next]_vars => PassedOnceInOrder'
  <2> SUFFICES ASSUME TypeOK, PassedOnceInOrder, [Next]_vars
               PROVE  PassedOnceInOrder'
    OBVIOUS
  <2>1. Line \in Seq(Nat) /\ made \in Nat /\ \A i \in DOMAIN Line : Line[i] < made + 1
    BY LineTypes
  <2>2. Ordered(Line)
    BY DEF PassedOnceInOrder, Ordered
  <2>3. SUFFICES Ordered(Line')
    BY <2>3 DEF PassedOnceInOrder, Ordered
  <2>4. CASE Kept \/ Missed
    BY <2>2, <2>4 DEF Kept, Missed
  <2>5. CASE Cut
    BY <2>2, <2>5, CutKeepsOrder DEF Cut
  <2>6. CASE Extended
    BY <2>1, <2>2, <2>6, AppendKeepsOrder DEF Extended
  <2>7. CASE Marked
    BY <2>1, <2>2, <2>7, AppendKeepsOrder DEF Marked
  <2>8. CASE Dropped
    BY <2>2, <2>8, DropKeepsRest DEF Dropped
  <2> QED BY <2>4, <2>5, <2>6, <2>7, <2>8, StepLine
<1> QED BY <1>1, <1>2, TypeCorrect, PTL DEF Spec

\* arkdsource.go:152-178 and 308-327: neither the buffer of one transaction nor
\* the reset of the watchdog loses a transaction of a stream that is open.
THEOREM NothingLost == Spec => []NothingLostWhileOpen
<1>1. Init => NothingLostWhileOpen
  BY DEF Init, NothingLostWhileOpen, Carries
<1>2. TypeOK /\ NothingLostWhileOpen /\ [Next]_vars => NothingLostWhileOpen'
  <2> SUFFICES ASSUME TypeOK, NothingLostWhileOpen, [Next]_vars, Carries'
               PROVE  \A n \in openedAt' + 1 .. made' : \E i \in DOMAIN Line' : Line'[i] = n
    BY DEF NothingLostWhileOpen
  <2>1. Line \in Seq(Nat) /\ made \in Nat /\ openedAt \in Nat
    BY LineTypes
  <2>2. CASE Kept
    BY <2>2 DEF Kept, Same, NothingLostWhileOpen
  <2>3. CASE Cut \/ Missed
    BY <2>1, <2>3 DEF Cut, Missed
  <2>4. CASE Extended
    <3>1. /\ Line' = Append(Line, made + 1) /\ made' = made + 1 /\ openedAt' = openedAt
          /\ Carries /\ made + 1 \in Nat
      BY <2>1, <2>4 DEF Extended
    <3>2. \A n \in openedAt + 1 .. made : \E i \in DOMAIN Line : Line[i] = n
      BY <3>1 DEF NothingLostWhileOpen
    <3>3. /\ \A i \in DOMAIN Line : i \in DOMAIN Line' /\ Line'[i] = Line[i]
          /\ \E i \in DOMAIN Line' : Line'[i] = made + 1
      BY <2>1, <3>1, AppendKeepsAll
    <3>4. \A n \in openedAt + 1 .. made + 1 : n = made + 1 \/ n \in openedAt + 1 .. made
      BY <2>1
    <3> QED BY <3>1, <3>2, <3>3, <3>4
  <2>5. CASE Marked
    <3>1. Line' = Append(Line, 0) /\ UNCHANGED <<made, openedAt>> /\ Carries
      BY <2>5 DEF Marked, Same
    <3>2. \A i \in DOMAIN Line : i \in DOMAIN Line' /\ Line'[i] = Line[i]
      BY <2>1, <3>1, AppendKeepsAll
    <3> QED BY <3>1, <3>2 DEF NothingLostWhileOpen
  <2>6. CASE Dropped
    <3>1. UNCHANGED <<made, openedAt>> /\ Carries
      BY <2>6 DEF Dropped, Same
    <3>2. PICK s \in Seq(Nat), w \in Seq(Nat) :
            w # <<>> /\ Head(w) = 0 /\ Line = s \o w /\ Line' = s \o Tail(w)
      BY <2>6 DEF Dropped
    <3>3. \A n \in Nat \ {0} : (\E i \in DOMAIN Line : Line[i] = n)
                                => \E i \in DOMAIN Line' : Line'[i] = n
      <4>1. \A n \in Nat \ {0} :
              (\E i \in DOMAIN (s \o w) : (s \o w)[i] = n)
                => \E i \in DOMAIN (s \o Tail(w)) : (s \o Tail(w))[i] = n
        BY <3>2, DropKeepsRest
      <4> QED BY <3>2, <4>1
    <3>4. \A n \in openedAt + 1 .. made : n \in Nat \ {0}
      BY <2>1
    <3>5. \A n \in openedAt + 1 .. made : \E i \in DOMAIN Line : Line[i] = n
      BY <3>1 DEF NothingLostWhileOpen
    <3>6. \A n \in openedAt + 1 .. made : \E i \in DOMAIN Line' : Line'[i] = n
      BY ONLY <3>3, <3>4, <3>5
    <3> QED BY ONLY <3>1, <3>6
  <2> QED BY <2>2, <2>3, <2>4, <2>5, <2>6, StepLine
<1> QED BY <1>1, <1>2, TypeCorrect, PTL DEF Spec
=============================================================================
