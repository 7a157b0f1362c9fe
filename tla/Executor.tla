------------------------------ MODULE Executor ------------------------------
(***************************************************************************)
(* The runtime that drives plugins against transaction streams             *)
(* (pkg/executor/executor.go): Run subscribes each plugin in turn and      *)
(* starts a consumer for it; a consumer hands each transaction to Match    *)
(* and starts a goroutine for Solve when it matches; Run returns once      *)
(* every consumer has drained its Solves.                                  *)
(*                                                                         *)
(* A plugin is its position in Executor.plugins, a transaction is its      *)
(* position in the stream of its plugin.  Sources and plugins are the      *)
(* interfaces of the code: they may do whatever their contracts allow.     *)
(***************************************************************************)
EXTENDS Integers, Sequences, FiniteSets

CONSTANTS
  NumPlugins,  \* len(Executor.plugins)
  MaxSent      \* bound of the model: items a source sends on one stream

ASSUME ExecutorAssumption == NumPlugins \in Nat /\ MaxSent \in Nat

Plugins == 1 .. NumPlugins

VARIABLES
  canceled,    \* the context of Run is canceled
  main,        \* where Run is: "subscribing", "waiting", "draining", "returned"
  result,      \* what Run returned
  next,        \* the plugin Run subscribes next
  sent,        \* plugin |-> the items its source has sent, "tx" or "nil"
  closed,      \* plugin |-> the source has closed the channel
  taken,       \* plugin |-> how many items the consumer has received
  consumer,    \* plugin |-> where its consumer goroutine is
  inflight     \* plugin |-> the transactions that a Solve is working on

source == <<sent, closed>>
run    == <<main, result, next>>
vars   == <<canceled, run, source, taken, consumer, inflight>>

Init ==
  /\ canceled = FALSE
  /\ main = "subscribing" /\ result = "none" /\ next = 1
  /\ sent = [p \in Plugins |-> <<>>]
  /\ closed = [p \in Plugins |-> FALSE]
  /\ taken = [p \in Plugins |-> 0]
  /\ consumer = [p \in Plugins |-> "none"]
  /\ inflight = [p \in Plugins |-> {}]

-----------------------------------------------------------------------------
(***************************************************************************)
(* Run.                                                                    *)
(***************************************************************************)
\* The next plugin gets a stream and a consumer, or is skipped on an error.
Subscribe ==
  /\ main = "subscribing" /\ next <= NumPlugins
  /\ \E outcome \in {"loop", "skipped"} :
       consumer' = [consumer EXCEPT ![next] = outcome]
  /\ next' = next + 1
  /\ UNCHANGED <<canceled, main, result, source, taken, inflight>>

StartWaiting ==
  /\ main = "subscribing" /\ next > NumPlugins
  /\ main' = "waiting"
  /\ UNCHANGED <<canceled, result, next, source, taken, consumer, inflight>>

\* The done channel closes when one consumer has ended.
ConsumersEnded_Any == \E p \in Plugins : consumer[p] \in {"skipped", "done"}

\* A plugin that could not subscribe is waited for all the same.
ConsumersEnded_Skipped == \A p \in Plugins : consumer[p] = "done"

\* The done channel is closed: wg.Wait has returned.
ConsumersEnded == \A p \in Plugins : consumer[p] \in {"skipped", "done"}

\* case <-ctx.Done(): wait for done, then return ctx.Err().
SeeCancel ==
  /\ main = "waiting" /\ canceled
  /\ main' = "draining"
  /\ UNCHANGED <<canceled, result, next, source, taken, consumer, inflight>>

ReturnCanceled ==
  /\ main = "draining" /\ ConsumersEnded
  /\ main' = "returned" /\ result' = "ctx.Err"
  /\ UNCHANGED <<canceled, next, source, taken, consumer, inflight>>

\* The result when done is closed, without a look at the context.
ResultWhenDone_NoCheck == "ErrAllStreamsClosed"

ResultWhenDone == IF canceled THEN "ctx.Err" ELSE "ErrAllStreamsClosed"

\* case <-done.
ReturnDone ==
  /\ main = "waiting" /\ ConsumersEnded
  /\ main' = "returned" /\ result' = ResultWhenDone
  /\ UNCHANGED <<canceled, next, source, taken, consumer, inflight>>

-----------------------------------------------------------------------------
(***************************************************************************)
(* consume, one for each subscribed plugin.  When the context is canceled  *)
(* and the channel is ready, select takes either case.                     *)
(***************************************************************************)
Goto(p, place) == consumer' = [consumer EXCEPT ![p] = place]

\* case <-ctx.Done().
LeaveOnCancel(p) ==
  /\ consumer[p] = "loop" /\ canceled
  /\ Goto(p, "draining")
  /\ UNCHANGED <<canceled, run, source, taken, inflight>>

\* A closed channel looks like one more nil transaction.
StreamEnded_Ignored(p) == FALSE

StreamEnded(p) == closed[p] /\ taken[p] = Len(sent[p])

\* case tx, ok := <-txs with ok = false.
LeaveOnClose(p) ==
  /\ consumer[p] = "loop" /\ StreamEnded(p)
  /\ Goto(p, "draining")
  /\ UNCHANGED <<canceled, run, source, taken, inflight>>

\* case tx, ok := <-txs with ok = true; a nil transaction is skipped.
Take(p) ==
  /\ consumer[p] = "loop" /\ taken[p] < Len(sent[p])
  /\ taken' = [taken EXCEPT ![p] = @ + 1]
  /\ Goto(p, IF sent[p][taken'[p]] = "nil" THEN "loop" ELSE "matching")
  /\ UNCHANGED <<canceled, run, source, inflight>>

\* Match is called on the consumer's goroutine: the stream waits for it.
MatchDeclines(p) ==
  /\ consumer[p] = "matching"
  /\ Goto(p, "loop")
  /\ UNCHANGED <<canceled, run, source, taken, inflight>>

\* The goroutine of a Match that panics is gone.
AfterPanic_Unrecovered == "dead"

\* safeMatch recovers and reports no match.
AfterPanic == "loop"

MatchPanics(p) ==
  /\ consumer[p] = "matching"
  /\ Goto(p, AfterPanic)
  /\ UNCHANGED <<canceled, run, source, taken, inflight>>

MatchSucceeds(p) ==
  /\ consumer[p] = "matching"
  /\ Goto(p, "loop")
  /\ inflight' = [inflight EXCEPT ![p] = @ \cup {taken[p]}]
  /\ UNCHANGED <<canceled, run, source, taken>>

\* safeSolve returns, also when Solve panics.
SolveReturns(p, i) ==
  /\ i \in inflight[p]
  /\ inflight' = [inflight EXCEPT ![p] = @ \ {i}]
  /\ UNCHANGED <<canceled, run, source, taken, consumer>>

\* consume returns without the deferred wg.Wait.
Drained_NoWait(p) == TRUE

Drained(p) == inflight[p] = {}

\* The deferred wg.Wait of consume, then that of Run's goroutine.
Finish(p) ==
  /\ consumer[p] = "draining" /\ Drained(p)
  /\ Goto(p, "done")
  /\ UNCHANGED <<canceled, run, source, taken, inflight>>

-----------------------------------------------------------------------------
(***************************************************************************)
(* The caller and the source.                                              *)
(***************************************************************************)
Cancel ==
  /\ ~ canceled
  /\ canceled' = TRUE
  /\ UNCHANGED <<run, source, taken, consumer, inflight>>

Subscribed(p) == consumer[p] \notin {"none", "skipped"}

Send(p, item) ==
  /\ Subscribed(p) /\ ~ closed[p] /\ Len(sent[p]) < MaxSent
  /\ sent' = [sent EXCEPT ![p] = Append(@, item)]
  /\ UNCHANGED <<canceled, run, closed, taken, consumer, inflight>>

\* The upstream stream ended, or the source saw the context canceled.
Close(p) ==
  /\ Subscribed(p) /\ ~ closed[p]
  /\ closed' = [closed EXCEPT ![p] = TRUE]
  /\ UNCHANGED <<canceled, run, sent, taken, consumer, inflight>>

-----------------------------------------------------------------------------
Main == Subscribe \/ StartWaiting \/ SeeCancel \/ ReturnCanceled \/ ReturnDone

Consume(p) == LeaveOnCancel(p) \/ LeaveOnClose(p) \/ Take(p) \/ Finish(p)

MatchReturns(p) == MatchDeclines(p) \/ MatchPanics(p) \/ MatchSucceeds(p)

Next ==
  \/ Main
  \/ \E p \in Plugins :
       \/ Consume(p) \/ MatchReturns(p)
       \/ \E i \in inflight[p] : SolveReturns(p, i)
       \/ \E item \in {"tx", "nil"} : Send(p, item)
       \/ Close(p)
  \/ Cancel

Spec == Init /\ [][Next]_vars

\* Goroutines are scheduled, and Match and Solve return: the plugins bound
\* their own work.  Sources, cancellation and the choice of select are free.
FairSpec ==
  /\ Spec
  /\ WF_vars(Main)
  /\ \A p \in Plugins :
       /\ WF_vars(Consume(p))
       /\ WF_vars(MatchReturns(p))
       /\ \A i \in 1 .. MaxSent : WF_vars(SolveReturns(p, i))

-----------------------------------------------------------------------------
(***************************************************************************)
(* Safety.                                                                 *)
(***************************************************************************)
\* The types of the variables.
TypeOK ==
  /\ canceled \in BOOLEAN
  /\ main \in {"subscribing", "waiting", "draining", "returned"}
  /\ result \in {"none", "ctx.Err", "ErrAllStreamsClosed"}
  /\ next \in 1 .. NumPlugins + 1
  /\ sent \in [Plugins -> Seq({"tx", "nil"})]
  /\ closed \in [Plugins -> BOOLEAN]
  /\ taken \in [Plugins -> Nat]
  /\ consumer \in [Plugins -> {"none", "skipped", "loop", "matching", "draining", "done"}]
  /\ inflight \in [Plugins -> SUBSET Nat]

\* executor.go:62-64 "Run waits for all in-flight Solves before returning": once
\* Run has returned, no consumer runs and no Solve that Run started is at work.
ReturnIsQuiet ==
  main = "returned" => \A p \in Plugins :
                         consumer[p] \in {"skipped", "done"} /\ inflight[p] = {}

\* executor.go:68-70: Run reports ErrAllStreamsClosed only if every stream has
\* ended and each item it carried has been through Match.
AllClosedMeansAllHandled ==
  result = "ErrAllStreamsClosed" =>
    \A p \in Plugins :
      consumer[p] = "skipped" \/ (closed[p] /\ taken[p] = Len(sent[p]))

\* A consumer that leaves without a cancellation has handled its whole stream.
LeavesForCause ==
  \A p \in Plugins :
    consumer[p] \in {"draining", "done"} =>
      canceled \/ (closed[p] /\ taken[p] = Len(sent[p]))

\* Run's progress through its plugins, and what an ended consumer leaves.
IInv ==
  /\ TypeOK
  /\ main # "subscribing" => next > NumPlugins
  /\ \A p \in Plugins : p >= next <=> consumer[p] = "none"
  /\ \A p \in Plugins : consumer[p] \in {"none", "skipped", "done"} => inflight[p] = {}
  /\ LeavesForCause
  /\ ReturnIsQuiet
  /\ AllClosedMeansAllHandled
  /\ result # "none" <=> main = "returned"

-----------------------------------------------------------------------------
(***************************************************************************)
(* Liveness.                                                               *)
(***************************************************************************)
\* Each item that a source sends is taken by its consumer unless the caller
\* cancels, whatever the other plugins and their streams do and although any
\* Match may panic.
SentIsTaken ==
  \A p \in Plugins, n \in 1 .. MaxSent :
    Len(sent[p]) >= n ~> taken[p] >= n \/ canceled

\* executor.go:68: a canceled Run returns.
CanceledReturns == canceled ~> main = "returned"

\* executor.go:69-70: Run returns when every stream has ended.
AllClosedReturns ==
  (\A p \in Plugins : closed[p] \/ consumer[p] = "skipped") ~> main = "returned"
=============================================================================
