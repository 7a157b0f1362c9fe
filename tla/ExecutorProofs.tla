--------------------------- MODULE ExecutorProofs ---------------------------
(***************************************************************************)
(* Theorems about Executor for every number of plugins and every length of *)
(* their streams, checked by TLAPS.                                        *)
(*                                                                         *)
(* ReturnIsQuiet alone is not inductive: that a consumer which has ended   *)
(* left no Solve behind, that Run subscribed every plugin before it waits, *)
(* and that a consumer leaves only on a cancellation or at the end of its  *)
(* stream are the other parts of IInv.                                     *)
(***************************************************************************)
EXTENDS Executor, TLAPS

LEMMA InitIInv == Init => IInv
<1> SUFFICES ASSUME Init PROVE IInv
  OBVIOUS
<1>1. TypeOK
  <2>1. <<>> \in Seq({"tx", "nil"}) /\ 0 \in Nat /\ {} \in SUBSET Nat
    OBVIOUS
  <2>2. sent \in [Plugins -> Seq({"tx", "nil"})]
    BY <2>1 DEF Init
  <2>3. taken \in [Plugins -> Nat] /\ inflight \in [Plugins -> SUBSET Nat]
    BY <2>1 DEF Init
  <2>4. closed \in [Plugins -> BOOLEAN]
    BY DEF Init
  <2>5. consumer \in [Plugins -> {"none", "skipped", "loop", "matching",
                                  "draining", "done"}]
    BY DEF Init
  <2>6. 1 \in 1 .. NumPlugins + 1
    BY ExecutorAssumption
  <2>7. next \in 1 .. NumPlugins + 1
    BY <2>6 DEF Init
  <2> QED BY <2>2, <2>3, <2>4, <2>5, <2>7 DEF Init, TypeOK
<1>2. \A p \in Plugins : /\ consumer[p] = "none" /\ inflight[p] = {} /\ p >= next
  BY ExecutorAssumption DEF Init, Plugins
<1>3. main = "subscribing" /\ result = "none"
  BY DEF Init
<1> QED BY <1>1, <1>2, <1>3
        DEF IInv, LeavesForCause, ReturnIsQuiet, AllClosedMeansAllHandled

\* The consumer of one plugin goes somewhere; the others stay.
LEMMA GotoFacts ==
  ASSUME TypeOK, NEW p \in Plugins, NEW place, Goto(p, place)
  PROVE  /\ consumer'[p] = place
         /\ \A q \in Plugins \ {p} : consumer'[q] = consumer[q]
         /\ place \in {"none", "skipped", "loop", "matching", "draining", "done"} =>
              consumer' \in [Plugins -> {"none", "skipped", "loop", "matching",
                                         "draining", "done"}]
  BY DEF TypeOK, Goto

\* Every consumer that has ended holds after Run's last look at it.
LEMMA EndedIsQuiet ==
  ASSUME IInv, ConsumersEnded
  PROVE  \A p \in Plugins :
           /\ consumer[p] \in {"skipped", "done"} /\ inflight[p] = {}
           /\ \/ canceled \/ consumer[p] = "skipped"
              \/ closed[p] /\ taken[p] = Len(sent[p])
  BY DEF IInv, ConsumersEnded, LeavesForCause

LEMMA MainIInv ==
  ASSUME IInv, Main
  PROVE  IInv'
<1>1. CASE Subscribe
  <2>1. next \in Plugins /\ next' = next + 1 /\ consumer[next] = "none"
    BY <1>1, ExecutorAssumption DEF Subscribe, IInv, TypeOK, Plugins
  <2>2. PICK outcome \in {"loop", "skipped"} :
          consumer' = [consumer EXCEPT ![next] = outcome]
    BY <1>1 DEF Subscribe
  <2>3. /\ consumer' \in [Plugins -> {"none", "skipped", "loop", "matching",
                                      "draining", "done"}]
        /\ \A p \in Plugins : consumer'[p] = IF p = next THEN outcome ELSE consumer[p]
    BY <2>1, <2>2 DEF IInv, TypeOK
  <2>4. TypeOK'
    BY <1>1, <2>1, <2>3, ExecutorAssumption
       DEF Subscribe, source, IInv, TypeOK, Plugins
  <2>5. \A p \in Plugins : p >= next' <=> consumer'[p] = "none"
    BY <2>1, <2>3 DEF IInv, TypeOK, Plugins
  <2> QED BY <1>1, <2>1, <2>3, <2>4, <2>5
          DEF Subscribe, source, IInv, LeavesForCause, ReturnIsQuiet,
              AllClosedMeansAllHandled
<1>2. CASE StartWaiting
  BY <1>2 DEF StartWaiting, source, IInv, TypeOK, LeavesForCause, ReturnIsQuiet,
              AllClosedMeansAllHandled
<1>3. CASE SeeCancel
  BY <1>3 DEF SeeCancel, source, IInv, TypeOK, LeavesForCause, ReturnIsQuiet,
              AllClosedMeansAllHandled
<1>4. CASE ReturnCanceled \/ ReturnDone
  <2>1. UNCHANGED <<canceled, next, sent, closed, taken, consumer, inflight>>
    BY <1>4 DEF ReturnCanceled, ReturnDone, source
  <2>2. ReturnIsQuiet' /\ AllClosedMeansAllHandled'
    BY <1>4, <2>1, EndedIsQuiet
       DEF ReturnCanceled, ReturnDone, ResultWhenDone, ReturnIsQuiet,
           AllClosedMeansAllHandled
  <2> QED BY <1>4, <2>1, <2>2
          DEF ReturnCanceled, ReturnDone, ResultWhenDone, IInv, TypeOK, LeavesForCause
<1> QED BY <1>1, <1>2, <1>3, <1>4 DEF Main

\* While a consumer runs, Run has not returned.
LEMMA RunningMeansNotReturned ==
  ASSUME IInv, NEW p \in Plugins, consumer[p] \in {"loop", "matching", "draining"}
  PROVE  main # "returned" /\ result = "none"
  BY DEF IInv, ReturnIsQuiet

\* A consumer that stays in its loop, or leaves it for cause, keeps IInv.
LEMMA ConsumerIInv ==
  ASSUME IInv, NEW p \in Plugins, Consume(p) \/ MatchReturns(p)
  PROVE  IInv'
<1>1. /\ consumer[p] \in {"loop", "matching", "draining"}
      /\ main # "returned" /\ result = "none"
  BY RunningMeansNotReturned
     DEF Consume, LeaveOnCancel, LeaveOnClose, Take, Finish, MatchReturns,
         MatchDeclines, MatchPanics, MatchSucceeds
<1>2. UNCHANGED <<canceled, main, result, next, sent, closed>>
  BY DEF Consume, LeaveOnCancel, LeaveOnClose, Take, Finish, MatchReturns,
         MatchDeclines, MatchPanics, MatchSucceeds, run, source
<1>3. PICK place \in {"loop", "matching", "draining", "done"} :
        /\ Goto(p, place)
        /\ place \in {"draining", "done"} =>
             /\ UNCHANGED <<taken, inflight>>
             /\ canceled \/ (closed[p] /\ taken[p] = Len(sent[p]))
        /\ place = "done" => inflight[p] = {}
  BY DEF Consume, LeaveOnCancel, LeaveOnClose, StreamEnded, Take, Finish, Drained,
         MatchReturns, MatchDeclines, MatchPanics, AfterPanic, MatchSucceeds,
         IInv, LeavesForCause
<1>4. /\ consumer' \in [Plugins -> {"none", "skipped", "loop", "matching",
                                    "draining", "done"}]
      /\ consumer'[p] = place
      /\ \A q \in Plugins \ {p} : consumer'[q] = consumer[q]
  BY <1>3, GotoFacts DEF IInv
<1>5. /\ taken' \in [Plugins -> Nat] /\ inflight' \in [Plugins -> SUBSET Nat]
      /\ \A q \in Plugins \ {p} : taken'[q] = taken[q] /\ inflight'[q] = inflight[q]
  <2>1. CASE Take(p)
    <3>1. taken' = [taken EXCEPT ![p] = taken[p] + 1] /\ inflight' = inflight
      BY <2>1 DEF Take
    <3> QED BY <3>1 DEF IInv, TypeOK
  <2>2. CASE MatchSucceeds(p)
    <3>1. taken' = taken /\ inflight' = [inflight EXCEPT ![p] = inflight[p] \cup {taken[p]}]
      BY <2>2 DEF MatchSucceeds
    <3>2. inflight[p] \cup {taken[p]} \in SUBSET Nat
      BY DEF IInv, TypeOK
    <3> QED BY <3>1, <3>2 DEF IInv, TypeOK
  <2>3. CASE UNCHANGED <<taken, inflight>>
    BY <2>3 DEF IInv, TypeOK
  <2> QED BY <2>1, <2>2, <2>3
          DEF Consume, LeaveOnCancel, LeaveOnClose, Finish, MatchReturns,
              MatchDeclines, MatchPanics
<1>6. TypeOK'
  BY <1>2, <1>4, <1>5 DEF IInv, TypeOK
<1>7. LeavesForCause'
  BY <1>2, <1>3, <1>4, <1>5 DEF IInv, LeavesForCause
<1>8. \A q \in Plugins :
        consumer'[q] \in {"none", "skipped", "done"} => inflight'[q] = {}
  BY <1>3, <1>4, <1>5 DEF IInv
<1>9. \A q \in Plugins : q >= next' <=> consumer'[q] = "none"
  BY <1>1, <1>2, <1>4 DEF IInv
<1> QED BY <1>1, <1>2, <1>6, <1>7, <1>8, <1>9
        DEF IInv, ReturnIsQuiet, AllClosedMeansAllHandled

LEMMA SolveReturnsIInv ==
  ASSUME IInv, NEW p \in Plugins, NEW i \in inflight[p], SolveReturns(p, i)
  PROVE  IInv'
<1>1. UNCHANGED <<canceled, main, result, next, sent, closed, taken, consumer>>
  BY DEF SolveReturns, run, source
<1>2. /\ inflight' \in [Plugins -> SUBSET Nat]
      /\ \A q \in Plugins : inflight'[q] \subseteq inflight[q]
  BY DEF SolveReturns, IInv, TypeOK
<1> QED BY <1>1, <1>2
        DEF IInv, TypeOK, LeavesForCause, ReturnIsQuiet, AllClosedMeansAllHandled

\* A source only works for a consumer that Run started, on a channel it has
\* not closed; it cannot undo that a stream has ended.
LEMMA SourceIInv ==
  ASSUME IInv, NEW p \in Plugins,
         Close(p) \/ \E item \in {"tx", "nil"} : Send(p, item)
  PROVE  IInv'
<1>1. UNCHANGED <<canceled, main, result, next, taken, consumer, inflight>>
  BY DEF Close, Send, run
<1>2. /\ sent' \in [Plugins -> Seq({"tx", "nil"})] /\ closed' \in [Plugins -> BOOLEAN]
      /\ ~ closed[p]
      /\ \A q \in Plugins : closed[q] => closed'[q] /\ sent'[q] = sent[q]
  <2>1. CASE Close(p)
    BY <2>1 DEF Close, IInv, TypeOK
  <2>2. CASE \E item \in {"tx", "nil"} : Send(p, item)
    <3> PICK item \in {"tx", "nil"} : Send(p, item)
      BY <2>2
    <3>1. /\ closed' = closed /\ ~ closed[p]
          /\ sent' = [sent EXCEPT ![p] = Append(sent[p], item)]
      BY DEF Send
    <3>2. Append(sent[p], item) \in Seq({"tx", "nil"})
      BY DEF IInv, TypeOK
    <3> QED BY <3>1, <3>2 DEF IInv, TypeOK
  <2> QED BY <2>1, <2>2
<1>3. TypeOK'
  BY <1>1, <1>2 DEF IInv, TypeOK
<1>4. LeavesForCause' /\ AllClosedMeansAllHandled'
  BY <1>1, <1>2 DEF IInv, LeavesForCause, AllClosedMeansAllHandled
<1> QED BY <1>1, <1>3, <1>4 DEF IInv, ReturnIsQuiet

LEMMA CancelIInv ==
  ASSUME IInv, Cancel
  PROVE  IInv'
  BY DEF Cancel, run, source, IInv, TypeOK, LeavesForCause, ReturnIsQuiet,
         AllClosedMeansAllHandled

LEMMA StutterIInv ==
  ASSUME IInv, UNCHANGED vars
  PROVE  IInv'
  BY DEF vars, run, source, IInv, TypeOK, LeavesForCause, ReturnIsQuiet,
         AllClosedMeansAllHandled

-----------------------------------------------------------------------------
\* Where Run and its consumers can be together, in every reachable state.
THEOREM Invariance == Spec => []IInv
<1>1. Init => IInv
  BY InitIInv
<1>2. IInv /\ [Next]_vars => IInv'
  BY MainIInv, ConsumerIInv, SolveReturnsIInv, SourceIInv, CancelIInv, StutterIInv
     DEF Next
<1> QED BY <1>1, <1>2, PTL DEF Spec

\* executor.go:62-64: Run returns only after the Solves it started.
THEOREM RunWaitsForSolves == Spec => []ReturnIsQuiet
<1>1. IInv => ReturnIsQuiet
  BY DEF IInv
<1> QED BY <1>1, Invariance, PTL

\* executor.go:68-70: ErrAllStreamsClosed means that nothing was left in a stream.
THEOREM NothingLeftBehind == Spec => []AllClosedMeansAllHandled
<1>1. IInv => AllClosedMeansAllHandled
  BY DEF IInv
<1> QED BY <1>1, Invariance, PTL
=============================================================================
