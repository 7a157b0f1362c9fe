----------------------------- MODULE ArkdSource -----------------------------
(***************************************************************************)
(* The executor.Source over arkd (pkg/executor/arkdsource/arkdsource.go),  *)
(* for one call of Subscribe.  A goroutine receives events of an upstream  *)
(* stream and sends the transactions among them on a channel of capacity   *)
(* one.  The filtered stream reopens itself after a transient error, and a *)
(* watchdog cancels it when Recv has been silent for too long; the         *)
(* unfiltered one relies on client-lib for both.                           *)
(*                                                                         *)
(* arkd's transactions are numbered in the order it makes them.  Nothing   *)
(* replays those it makes while no stream is open.                         *)
(***************************************************************************)
EXTENDS Integers, Sequences, SequencesExt

CONSTANTS
  StaleTimeout,  \* streamStaleTimeout, in ticks
  Heartbeat,     \* an open stream carries an event at least every Heartbeat ticks
  MaxTxs         \* bound of the model: transactions that arkd makes

ASSUME ArkdSourceAssumption ==
  Heartbeat \in Nat \ {0} /\ StaleTimeout \in Nat /\ MaxTxs \in Nat
  /\ Heartbeat < StaleTimeout

VARIABLES
  ctxDone,   \* the context given to Subscribe is canceled
  filtered,  \* Subscribe chose the indexer subscription
  pc,        \* "start", "refused", "backoff", "recv", "sending" or "closed"
  held,      \* the transactions in the hands of the goroutine: none or one
  out,       \* the buffer of the channel that Subscribe returned
  lastErr,   \* the last error of Recv or GetSubscription
  quiet,     \* ticks since the watchdog was armed or reset
  conn,      \* the upstream stream: "none", "open", "halfOpen" or "broken"
  code,      \* the error that a broken stream ends with
  wire,      \* its events not yet received: transactions and 0 for any other
  since,     \* ticks since arkd last put an event on it
  made,      \* how many transactions arkd has made
  openedAt,  \* made, when the current stream was opened
  taken      \* history: what the consumer has received

local    == <<ctxDone, filtered, pc, held, lastErr, quiet>>
upstream == <<conn, code, wire, since, openedAt>>
vars     == <<local, out, upstream, made, taken>>

Codes == {"transient", "permanent"}

Init ==
  /\ ctxDone = FALSE /\ filtered \in BOOLEAN /\ pc = "start"
  /\ held = <<>> /\ out = <<>> /\ lastErr = "none" /\ quiet = 0
  /\ conn = "none" /\ code = "none" /\ wire = <<>> /\ since = 0 /\ openedAt = 0
  /\ made = 0 /\ taken = <<>>

-----------------------------------------------------------------------------
(***************************************************************************)
(* Subscribe and the goroutine it starts.                                  *)
(***************************************************************************)
\* A fresh stream: readStream arms the watchdog and calls Recv.
Opens ==
  /\ pc' = "recv" /\ quiet' = 0
  /\ conn' = "open" /\ code' = "none" /\ wire' = <<>> /\ since' = 0
  /\ openedAt' = made

\* The stream that ended is not canceled, nor its timer stopped.
NoStream_Kept == UNCHANGED <<upstream, quiet>>

\* The deferred cancel and Stop: nothing is left of the stream and its timer.
NoStream ==
  /\ quiet' = 0
  /\ conn' = "none" /\ code' = "none" /\ wire' = <<>>
  /\ UNCHANGED <<since, openedAt>>

\* Any error ends the stream.
Final_Any(err) == TRUE

\* The errors that end the stream: for the filtered one, the permanent codes.
Final(err) == ~ filtered \/ err = "permanent"

\* GetTransactionsStream or the first GetSubscription.
Subscribe ==
  /\ pc = "start"
  /\ \/ Opens /\ UNCHANGED lastErr
     \/ \E err \in Codes :
          /\ lastErr' = err
          /\ pc' = IF Final(err) THEN "refused" ELSE "backoff"
          /\ UNCHANGED <<quiet, upstream>>
  /\ UNCHANGED <<ctxDone, filtered, held, out, made, taken>>

\* reopenSubscription sees the context canceled, in its backoff or after a
\* failed attempt.
GiveUp ==
  /\ pc = "backoff" /\ ctxDone
  /\ pc' = "closed"
  /\ UNCHANGED <<ctxDone, filtered, held, lastErr, quiet, out, upstream, made, taken>>

OpenSucceeds ==
  /\ pc = "backoff"
  /\ Opens
  /\ UNCHANGED <<ctxDone, filtered, held, lastErr, out, made, taken>>

OpenFails ==
  /\ pc = "backoff" /\ ~ ctxDone
  /\ \E err \in Codes :
       /\ lastErr' = err
       /\ pc' = IF Final(err) THEN "closed" ELSE "backoff"
  /\ UNCHANGED <<ctxDone, filtered, held, quiet, out, upstream, made, taken>>

\* Recv returns an event: the watchdog is reset, a transaction is sent on.
Receive ==
  /\ pc = "recv" /\ wire # <<>>
  /\ quiet' = 0
  /\ wire' = Tail(wire)
  /\ IF Head(wire) = 0
       THEN UNCHANGED <<pc, held>>
       ELSE pc' = "sending" /\ held' = <<Head(wire)>>
  /\ UNCHANGED <<ctxDone, filtered, lastErr, out, conn, code, since, openedAt, made, taken>>

\* What Recv may fail with; events received before a failure come first.
RecvErrors ==
  (IF ctxDone THEN {"transient"} ELSE {})
    \cup (IF conn = "broken" /\ wire = <<>> THEN {code} ELSE {})

RecvFails ==
  /\ pc = "recv"
  /\ \E err \in RecvErrors :
       /\ lastErr' = IF ctxDone THEN lastErr ELSE err
       /\ pc' = IF ctxDone \/ Final(err) THEN "closed" ELSE "backoff"
  /\ NoStream
  /\ UNCHANGED <<ctxDone, filtered, held, out, made, taken>>

\* A send that overwrites what the channel holds.
HasRoom_Overwrite == TRUE

HasRoom == out = <<>>

\* A send that may be tried again after it succeeded.
Send_Again ==
  /\ pc = "sending" /\ HasRoom
  /\ out' = held
  /\ \/ held' = <<>> /\ pc' = "recv"
     \/ UNCHANGED <<held, pc>>
  /\ UNCHANGED <<ctxDone, filtered, lastErr, quiet, upstream, made, taken>>

Send ==
  /\ pc = "sending" /\ HasRoom
  /\ out' = held
  /\ held' = <<>> /\ pc' = "recv"
  /\ UNCHANGED <<ctxDone, filtered, lastErr, quiet, upstream, made, taken>>

\* send only waits for room.
SendCanceled_Never == FALSE

\* send sees the context canceled; the transaction is dropped.
SendCanceled ==
  /\ pc = "sending" /\ ctxDone
  /\ held' = <<>> /\ pc' = "closed"
  /\ NoStream
  /\ UNCHANGED <<ctxDone, filtered, lastErr, out, made, taken>>

Reading == pc \in {"recv", "sending"}

\* No watchdog.
Stale_Never == FALSE

Stale == filtered /\ Reading /\ quiet = StaleTimeout

\* The timer cancels the stream's own context.  Recv may still return some of
\* the events that were there, then the error, or the one arkd had sent.
Watchdog ==
  /\ Stale
  /\ conn' = "broken"
  /\ code' \in {"transient"} \cup ({code} \ {"none"})
  /\ \E n \in 0 .. Len(wire) : wire' = SubSeq(wire, 1, n)
  /\ UNCHANGED <<local, out, since, openedAt, made, taken>>

-----------------------------------------------------------------------------
(***************************************************************************)
(* arkd, the connection, the consumer, the caller and the clock.           *)
(***************************************************************************)
Carries == conn = "open" /\ ~ ctxDone

MakeTx ==
  /\ made < MaxTxs
  /\ made' = made + 1
  /\ IF Carries THEN wire' = Append(wire, made') /\ since' = 0
                      ELSE UNCHANGED <<wire, since>>
  /\ UNCHANGED <<local, out, conn, code, openedAt, taken>>

\* A heartbeat, or an event without a transaction a plugin can read.  Several
\* of them in a row count as one.
SendOther ==
  /\ Carries
  /\ since' = 0
  /\ wire' = IF wire # <<>> /\ Last(wire) = 0 THEN wire ELSE Append(wire, 0)
  /\ UNCHANGED <<local, out, conn, code, openedAt, made, taken>>

\* arkd ends the stream with an error, or the transport does.
Break(err) ==
  /\ conn = "open"
  /\ conn' = "broken" /\ code' = err
  /\ UNCHANGED <<local, out, wire, since, openedAt, made, taken>>

\* The peer is gone and nothing says so.
LosePeer ==
  /\ conn = "open" /\ filtered
  /\ conn' = "halfOpen"
  /\ UNCHANGED <<local, out, code, wire, since, openedAt, made, taken>>

Consume ==
  /\ out # <<>>
  /\ taken' = taken \o out
  /\ out' = <<>>
  /\ UNCHANGED <<local, upstream, made>>

Cancel ==
  /\ ~ ctxDone
  /\ ctxDone' = TRUE
  /\ UNCHANGED <<filtered, pc, held, lastErr, quiet, out, upstream, made, taken>>

\* Time passes while the goroutine waits for arkd or for the consumer; it does
\* not pass over a step the goroutine can take, or over a heartbeat.
Tick ==
  /\ Reading /\ quiet < StaleTimeout
  /\ pc = "recv" => wire = <<>> /\ RecvErrors = {}
  /\ pc = "sending" => ~ HasRoom /\ ~ ctxDone
  /\ Carries => since < Heartbeat
  /\ quiet' = quiet + 1
  /\ since' = IF Carries THEN since + 1 ELSE since
  /\ UNCHANGED <<ctxDone, filtered, pc, held, lastErr, out, conn, code, wire,
                 openedAt, made, taken>>

-----------------------------------------------------------------------------
Goroutine ==
  \/ Subscribe \/ GiveUp \/ OpenSucceeds \/ OpenFails
  \/ Receive \/ RecvFails \/ Send \/ SendCanceled

Next ==
  \/ Goroutine \/ Watchdog
  \/ MakeTx \/ SendOther \/ LosePeer \/ \E err \in Codes : Break(err)
  \/ Consume \/ Cancel \/ Tick

Spec == Init /\ [][Next]_vars

\* The goroutine, the timer and the clock go on; arkd heartbeats, accepts a
\* subscription again some day; the executor takes what is on the channel
\* until the context is canceled.
FairSpec ==
  /\ Spec
  /\ WF_vars(Goroutine) /\ WF_vars(Watchdog) /\ WF_vars(Tick)
  /\ WF_vars(OpenSucceeds)
  /\ WF_vars(SendOther /\ since = Heartbeat)
  /\ WF_vars(~ ctxDone /\ Consume)

-----------------------------------------------------------------------------
\* The types of the variables; only a goroutine that reads has a stream, with
\* its events and its timer, and only one that sends holds a transaction; a
\* broken stream has an error to end with, and only a filtered one is half-open.
TypeOK ==
  /\ ctxDone \in BOOLEAN /\ filtered \in BOOLEAN
  /\ pc \in {"start", "refused", "backoff", "recv", "sending", "closed"}
  /\ lastErr \in {"none"} \cup Codes
  /\ quiet \in 0 .. StaleTimeout /\ since \in 0 .. Heartbeat
  /\ conn \in {"none", "open", "halfOpen", "broken"}
  /\ Reading <=> conn # "none"
  /\ ~ Reading => wire = <<>> /\ quiet = 0
  /\ conn = "halfOpen" => filtered
  /\ code \in {"none"} \cup Codes /\ (code \in Codes <=> conn = "broken")
  /\ made \in 0 .. MaxTxs /\ openedAt \in 0 .. made
  /\ wire \in Seq(0 .. made)
  /\ held \in Seq(1 .. made) /\ (IF pc = "sending" THEN Len(held) = 1 ELSE held = <<>>)
  /\ out \in Seq(1 .. made) /\ Len(out) <= 1
  /\ taken \in Seq(1 .. made)

\* All that the source has passed on or still may, in the order it was sent.
Line == taken \o out \o held \o wire

IsTx(n) == n > 0

\* However often the stream is reopened, no transaction reaches the executor
\* twice or after one that arkd made later.
PassedOnceInOrder ==
  \A i, j \in DOMAIN Line :
    i < j /\ IsTx(Line[i]) /\ IsTx(Line[j]) => Line[i] < Line[j]

\* While a stream is open, everything arkd made since it was opened is passed
\* on, however slow the consumer is.
NothingLostWhileOpen ==
  Carries => \A n \in openedAt + 1 .. made : \E i \in DOMAIN Line : Line[i] = n

\* arkdsource.go:131-134 and 217-220: a filtered stream ends on cancellation or
\* on a permanent error, and it is never reopened after a permanent error.
EndsForCause ==
  filtered =>
    /\ pc = "closed" => ctxDone \/ lastErr = "permanent"
    /\ lastErr = "permanent" => pc \in {"refused", "closed"}

\* arkdsource.go:53-55 and 303-306: a stream that is silent past the timeout is
\* a dead connection, so the watchdog never cancels one that works.
StaleMeansDead == Stale => conn \in {"halfOpen", "broken"}

\* arkdsource.go:131-134: the channel is closed once the context is canceled,
\* though nobody reads from it any more.
CanceledCloses ==
  ctxDone /\ pc \notin {"start", "refused"} ~> pc = "closed"

\* A filtered stream that broke, or went silent without an error, is replaced
\* by an open one unless it ended for cause.
DownComesBack ==
  filtered /\ conn \in {"halfOpen", "broken"} ~> conn = "open" \/ pc = "closed"
=============================================================================
