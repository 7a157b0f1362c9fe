------------------------------ MODULE Covclaimd ------------------------------
(***************************************************************************)
(* The covclaimd process (cmd/covclaimd/main.go): it loads its             *)
(* configuration, connects, starts its servers, runs the executor over the *)
(* reveal plugin until a signal or the end of the stream, stops the        *)
(* servers and exits.  Reveal calls come in over gRPC and over the HTTP    *)
(* gateway (internal/interface/grpc/server.go) while all this goes on.     *)
(*                                                                         *)
(* The plugin is RevealPlugin, whose actions are taken here when the       *)
(* process lets them happen; the goroutines of the executor are translated *)
(* again with the plugin in the place of its interface, and the refinement *)
(* below shows that they still do what module Executor says.               *)
(***************************************************************************)
EXTENDS ClaimEngine

CONSTANTS
  Requests, Background, Consumer, MaxRegistrations, RegistrationTTL,
  IndexerLeads, TimeoutsHappen, MaxTime, MaxFaults,  \* as in RevealPlugin
  Unset,         \* a variable of the environment that is empty
  SecretKeys,    \* the values that decode to 32 bytes and are not zero
  Environments,  \* the environments covclaimd may be started in
  HeldPorts,     \* the sets of ports that other processes may hold
  MaxCalls       \* bound of the model: calls from clients

ASSUME CallsAssumption == MaxCalls \in Nat

VARIABLES
  packets, up, go, now, stream, streamed, indexed, claimed, withdrawn, faults,
  accepted, submitted,  \* as in RevealPlugin
  cfg,       \* what config.Load returned
  held,      \* the ports that other processes hold
  hung,      \* the emulator and the indexer have stopped answering
  phase,     \* where run() is
  exit,      \* how it ended: "none", "ok" or "error"
  canceled,  \* SIGINT or SIGTERM was received
  main,      \* where Executor.Run is
  result,    \* what it returned
  consumer,  \* where Executor.consume is
  closed,    \* the source has closed the plugin's channel
  received,  \* history: the transactions the consumer has taken, in order
  listener,  \* "grpc" and "http" |-> the state of the listener
  calls,     \* the transports with a call in progress; the model has one each
  arrived    \* calls so far

P == INSTANCE RevealPlugin

\* Goroutines are distinct, and so are those of Submit, of the executor and of
\* its consumer.
ASSUME GoroutinesAssumption ==
  /\ IsFiniteSet(Txs)
  /\ Consumer \notin Txs
  /\ Background \cap (Txs \cup {Consumer}) = {}

\* What RevealPlugin assumes of the constants that are handed on to it.
ASSUME PluginAssumption ==
  /\ MaxRegistrations \in Nat \ {0} /\ RegistrationTTL \in Nat
  /\ MaxTime \in Nat /\ MaxFaults \in Nat
  /\ \A q \in Requests : P!WellFormed(q) => q.packet.minAmount \in Nat \cup {None}

plugin   == <<packets, up, go, now, stream, streamed, indexed, claimed, withdrawn, faults,
              accepted, submitted>>
servers  == <<listener, calls, arrived>>
executor == <<main, result, consumer, received>>
world    == <<held, hung>>
vars     == <<plugin, cfg, world, phase, exit, canceled, executor, closed, servers>>

Transports == {"grpc", "http"}

Init ==
  /\ P!Init
  /\ cfg = None
  /\ held \in HeldPorts /\ hung = FALSE
  /\ phase = "load" /\ exit = "none" /\ canceled = FALSE
  /\ main = "subscribing" /\ result = "none" /\ consumer = "none"
  /\ closed = FALSE /\ received = <<>>
  /\ listener = [c \in Transports |-> "off"]
  /\ calls = {} /\ arrived = 0

Alive == phase # "exited"

-----------------------------------------------------------------------------
(***************************************************************************)
(* config.Load.                                                            *)
(***************************************************************************)
\* envInt and envBool: the default for an empty value, None for one that does
\* not parse.
Env(value, default) == IF value = Unset THEN default ELSE value

Port(value, default) ==
  LET port == Env(value, default) IN IF port \in 1 .. 65535 THEN port ELSE None

\* The ports are not compared with each other.
PortsOf_AnyTwo(env) == <<Port(env.grpcPort, 7070), Port(env.httpPort, 7071)>>

\* The two ports, or None if one is out of range or both are the same.
PortsOf(env) ==
  LET grpc == Port(env.grpcPort, 7070)
      http == Port(env.httpPort, 7071)
  IN  IF grpc = http \/ None \in {grpc, http} THEN None ELSE <<grpc, http>>

Load(env) ==
  LET ports     == PortsOf(env)
      encrypted == Env(env.encryptedEnabled, TRUE)
      reveal    == Env(env.revealEnabled, FALSE)
  IN  IF \/ Unset \in {env.arkURL, env.emulatorURL}
         \/ ports = None
         \/ env.secretKey \notin SecretKeys
         \/ None \in {Env(env.logLevel, 4), encrypted, reveal}
         \/ {encrypted, reveal} = {FALSE}
        THEN None
        ELSE [grpc |-> ports[1], http |-> ports[2], reveal |-> reveal]

-----------------------------------------------------------------------------
(***************************************************************************)
(* run(), up to the executor.                                              *)
(***************************************************************************)
ExitWith(code) == phase' = "exited" /\ exit' = code

Configure ==
  /\ phase = "load"
  /\ \E env \in Environments : cfg' = Load(env)
  /\ IF cfg' = None THEN ExitWith("error") ELSE phase' = "connect" /\ UNCHANGED exit
  /\ UNCHANGED <<plugin, world, canceled, executor, closed, servers>>

\* GetInfo of the emulator and of arkd.
Connect ==
  /\ phase = "connect" /\ ~ hung
  /\ phase' = "listen"
  /\ UNCHANGED <<plugin, cfg, world, exit, canceled, executor, closed, servers>>

ConnectFails ==
  /\ phase = "connect"
  /\ ExitWith("error")
  /\ UNCHANGED <<plugin, cfg, world, canceled, executor, closed, servers>>

\* Server.Start: the gRPC port is bound before it returns, the HTTP port by a
\* goroutine afterwards.
Start ==
  /\ phase = "listen"
  /\ IF cfg.grpc \in held
       THEN ExitWith("error") /\ UNCHANGED listener
       ELSE /\ phase' = "running"
            /\ listener' = [grpc |-> "serving", http |-> "starting"]
            /\ UNCHANGED exit
  /\ UNCHANGED <<plugin, cfg, world, canceled, executor, closed, calls, arrived>>

\* ListenAndServe of the gateway.  A failure is logged and nothing else.
BindHTTP ==
  /\ Alive /\ listener.http = "starting"
  /\ LET taken == held \cup (IF listener.grpc = "serving" THEN {cfg.grpc} ELSE {})
     IN  listener' = [listener EXCEPT !.http = IF cfg.http \in taken THEN "failed" ELSE "serving"]
  /\ UNCHANGED <<plugin, cfg, world, phase, exit, canceled, executor, closed, calls, arrived>>

-----------------------------------------------------------------------------
(***************************************************************************)
(* Calls from clients, on goroutines of the servers.                       *)
(***************************************************************************)
Arrive(c) ==
  /\ Alive /\ listener[c] = "serving"
  /\ c \notin calls /\ arrived < MaxCalls
  /\ calls' = calls \cup {c}
  /\ arrived' = arrived + 1
  /\ UNCHANGED <<plugin, cfg, world, phase, exit, canceled, executor, closed, listener>>

\* The handler ends: Reveal, or another method or a body that does not decode.
Answer(c) ==
  /\ Alive /\ c \in calls
  /\ \/ cfg.reveal /\ P!Reveal
     \/ UNCHANGED plugin
  /\ calls' = calls \ {c}
  /\ UNCHANGED <<cfg, world, phase, exit, canceled, executor, closed, listener, arrived>>

-----------------------------------------------------------------------------
(***************************************************************************)
(* Executor.Run and consume, with the reveal plugin.                       *)
(***************************************************************************)
Subscribe ==
  /\ phase = "running" /\ main = "subscribing" /\ consumer = "none"
  /\ consumer' \in {"loop", "skipped"}
  /\ UNCHANGED <<plugin, cfg, world, phase, exit, canceled, main, result, received,
                 closed, servers>>

ConsumerEnded == consumer \in {"skipped", "done"}

\* The two selects of Run.
RunExecutor ==
  /\ phase = "running"
  /\ \/ /\ main = "subscribing" /\ consumer # "none"
        /\ main' = "waiting" /\ UNCHANGED result
     \/ /\ main = "waiting" /\ canceled
        /\ main' = "draining" /\ UNCHANGED result
     \/ /\ main = "draining" /\ ConsumerEnded
        /\ main' = "returned" /\ result' = "ctx.Err"
     \/ /\ main = "waiting" /\ ConsumerEnded
        /\ main' = "returned"
        /\ result' = IF canceled THEN "ctx.Err" ELSE "ErrAllStreamsClosed"
  /\ UNCHANGED <<plugin, cfg, world, phase, exit, canceled, consumer, received,
                 closed, servers>>

\* The goroutines of Match and Solve that the executor started.
Started == {g \in Txs \cup {Consumer} : go[g] # P!Idle}

\* consume returns without waiting for Solve.
Drained_NoWait == go[Consumer] = P!Idle

Drained == Started = {}

\* select of consume: the context, the end of the channel, a transaction; then
\* the deferred wait for Solve.
Consume ==
  /\ Alive /\ go[Consumer] = P!Idle
  /\ \/ /\ consumer = "loop" /\ (canceled \/ (closed /\ stream = <<>>))
        /\ consumer' = "draining" /\ UNCHANGED <<plugin, received>>
     \/ /\ consumer = "loop" /\ P!Receive
        /\ received' = Append(received, Head(stream)) /\ UNCHANGED consumer
     \/ /\ consumer = "draining" /\ Drained
        /\ consumer' = "done" /\ UNCHANGED <<plugin, received>>
  /\ UNCHANGED <<cfg, world, phase, exit, canceled, main, result, closed, servers>>

-----------------------------------------------------------------------------
(***************************************************************************)
(* The plugin's goroutines.  Those of the executor work under the context  *)
(* of run(); those of Submit under one that is not canceled, with a        *)
(* deadline of their own.                                                  *)
(***************************************************************************)
Work(g) ==
  /\ Alive
  /\ \/ P!MatchRegistered(g)
     \/ ~ hung /\ (P!GateSpendable(g) \/ P!SubmitTx(g) \/ P!Remove(g))
     \/ g \in Background /\ ~ hung /\ P!ClaimIfAlreadyFunded(g)
     \/ g \in Background /\ hung /\ P!Timeout(g)
     \/ g \notin Background /\ canceled /\ P!Abort(g) /\ UNCHANGED faults
  /\ UNCHANGED <<cfg, world, phase, exit, canceled, executor, closed, servers>>

\* The source sends on after it has closed the channel.
Listening_Closed == consumer \notin {"none", "skipped"}

Listening == consumer \notin {"none", "skipped"} /\ ~ closed

\* That owners spend their outputs in other ways is left to RevealPlugin.
World ==
  /\ Alive
  /\ \E t \in Txs :
       P!Index(t) \/ (Listening /\ P!Stream(t)) \/ (~ Listening /\ P!Unheard(t))
  /\ UNCHANGED <<cfg, world, phase, exit, canceled, executor, closed, servers>>

\* The emulator and the indexer answer no more.
Hang ==
  /\ phase \notin {"load", "exited"} /\ ~ hung
  /\ hung' = TRUE
  /\ UNCHANGED <<plugin, cfg, held, phase, exit, canceled, executor, closed, servers>>

\* A permanent error, or the end of client-lib's own reconnects.
CloseStream ==
  /\ Alive /\ Listening
  /\ closed' = TRUE
  /\ UNCHANGED <<plugin, cfg, world, phase, exit, canceled, executor, servers>>

\* SIGINT or SIGTERM, once the context exists.
Cancel ==
  /\ phase \notin {"load", "exited"} /\ ~ canceled
  /\ canceled' = TRUE
  /\ UNCHANGED <<plugin, cfg, world, phase, exit, executor, closed, servers>>

-----------------------------------------------------------------------------
(***************************************************************************)
(* The deferred srv.Stop, then the deferred closing of the connections.    *)
(***************************************************************************)
\* Shutdown: no more connections.
StopHTTP ==
  /\ phase = "running" /\ main = "returned"
  /\ phase' = "stopHTTP"
  /\ listener' = [listener EXCEPT !.http = "stopped"]
  /\ UNCHANGED <<plugin, cfg, world, exit, canceled, executor, closed, calls, arrived>>

\* Shutdown without a deadline.
ShutdownEnds_NoTimeout == "http" \notin calls

\* Shutdown returns when the calls have ended or after its five seconds, that
\* is at any time: a call may outlive it.
ShutdownEnds == TRUE

\* GracefulStop: no more gRPC calls.
StopGRPC ==
  /\ phase = "stopHTTP" /\ ShutdownEnds
  /\ phase' = "stopGRPC"
  /\ listener' = [listener EXCEPT !.grpc = "stopped"]
  /\ UNCHANGED <<plugin, cfg, world, exit, canceled, executor, closed, calls, arrived>>

\* Any end of the executor counts as a clean one.
ExitCode_Always == "ok"

ExitCode == IF result = "ctx.Err" THEN "ok" ELSE "error"

Exit ==
  /\ phase = "stopGRPC" /\ "grpc" \notin calls
  /\ ExitWith(ExitCode)
  /\ UNCHANGED <<plugin, cfg, world, canceled, executor, closed, servers>>

-----------------------------------------------------------------------------
Main ==
  \/ Configure \/ Connect \/ (canceled /\ ConnectFails) \/ Start
  \/ Subscribe \/ RunExecutor \/ StopHTTP \/ StopGRPC \/ Exit

Goroutines == Background \cup Txs \cup {Consumer}

Next ==
  \/ Main \/ ConnectFails \/ BindHTTP
  \/ \E c \in Transports : Arrive(c) \/ Answer(c)
  \/ Consume
  \/ \E g \in Goroutines : Work(g)
  \/ World \/ Hang \/ CloseStream \/ Cancel

Spec == Init /\ [][Next]_vars

(***************************************************************************)
(* Fairness: goroutines are scheduled, calls to the indexer and the        *)
(* emulator are answered unless these hang, timers fire, and the stream    *)
(* carries what the indexer knows.  A gRPC client completes its call; an   *)
(* HTTP client may never do so.                                            *)
(***************************************************************************)
FairSpec ==
  /\ Spec
  /\ WF_vars(Main)
  /\ WF_vars(Consume)
  /\ \A g \in Goroutines : WF_vars(Work(g))
  /\ WF_vars(Answer("grpc"))
  /\ WF_vars(World /\ \E t \in indexed : P!Stream(t))

-----------------------------------------------------------------------------
\* The types of the variables, and which of them go together.
TypeOK ==
  /\ P!TypeOK
  /\ held \in HeldPorts /\ {hung, canceled, closed} \subseteq BOOLEAN
  /\ phase \in {"load", "connect", "listen", "running", "stopHTTP", "stopGRPC", "exited"}
  /\ exit \in {"none", "ok", "error"} /\ (exit # "none" <=> phase = "exited")
  /\ main \in {"subscribing", "waiting", "draining", "returned"}
  /\ result \in {"none", "ctx.Err", "ErrAllStreamsClosed"}
  /\ result # "none" <=> main = "returned"
  /\ consumer \in {"none", "skipped", "loop", "draining", "done"}
  /\ received \in Seq(Txs)
  /\ listener \in [Transports -> {"off", "starting", "serving", "failed", "stopped"}]
  /\ calls \subseteq Transports
  /\ arrived \in 0 .. MaxCalls

\* executor.go:62-64 "Run waits for all in-flight Solves before returning, so
\* callers get clean shutdown semantics": from the return of Run to the closing
\* of the connections, no goroutine of the executor makes a call.
DrainedBeforeClose == main = "returned" => Started = {}

\* The gateway is missing only because another process holds its port: the two
\* listeners of covclaimd never get in each other's way.
GatewayFailsForCause == listener.http = "failed" => cfg.http \in held

\* main.go:132: covclaimd reports success only if it was told to stop, and once
\* the executor has run it reports an error only if its stream had ended, with
\* every transaction on it handled, or was never there.
ExitTellsWhy ==
  /\ exit = "ok" => canceled
  /\ exit = "error" /\ main = "returned" =>
       consumer = "skipped" \/ (closed /\ stream = <<>> /\ Started = {})

\* A configuration that was accepted keeps the two listeners apart, and there
\* is no listener before there is one.
ListenersApart ==
  /\ phase \notin {"load", "exited"} => cfg # None /\ cfg.grpc # cfg.http
  /\ phase \in {"load", "connect", "listen"} => listener.http = "off"
  /\ GatewayFailsForCause

\* The source has carried everything it ever will, and all of it was taken.
StreamOver == closed /\ stream = <<>>

\* How far run(), Run and consume are, one with respect to the other.
InStep ==
  /\ phase \in {"load", "connect", "listen"} => main = "subscribing" /\ consumer = "none"
  /\ phase \in {"stopHTTP", "stopGRPC"} => main = "returned"
  /\ main # "subscribing" => consumer # "none"
  /\ main = "draining" => canceled
  /\ main = "returned" => ConsumerEnded
  /\ result = "ctx.Err" => canceled
  /\ result = "ErrAllStreamsClosed" => consumer = "skipped" \/ StreamOver
  /\ consumer \in {"draining", "done"} => canceled \/ StreamOver
  /\ exit = "ok" => canceled
  /\ exit = "error" /\ main = "returned" => consumer = "skipped" \/ StreamOver

\* The consumer is in Match for the transaction it took last, and a Solve is at
\* work only for a transaction it has taken, until it has waited for them all.
SolvesAreTaken ==
  /\ go[Consumer] # P!Idle =>
       /\ consumer = "loop" /\ received # <<>>
       /\ LET latest == received[Len(received)]
          IN  \/ go[Consumer].pc = "scan" /\ go[Consumer].tx = latest
              \/ go[Consumer].pc = "gate" /\ go[Consumer].claim.outpoint.tx = latest
  /\ \A t \in Txs : go[t] # P!Idle => \E i \in DOMAIN received : received[i] = t
  /\ consumer \in {"none", "skipped", "done"} => Started = {}

\* No transaction is taken twice: arkd sends it once.
TakenOnce ==
  /\ \A i, j \in DOMAIN received : received[i] = received[j] => i = j
  /\ \A i, j \in DOMAIN stream : stream[i] = stream[j] => i = j
  /\ \A i \in DOMAIN received, j \in DOMAIN stream : received[i] # stream[j]
  /\ \A i \in DOMAIN received : received[i] \in streamed
  /\ \A j \in DOMAIN stream : stream[j] \in streamed
  /\ Len(received) + Len(stream) <= Cardinality(streamed)

\* The inductive invariant, with that of the plugin: whatever the process does
\* around the plugin, its claims stay entitled.
IInv ==
  /\ TypeOK
  /\ P!IInv
  /\ ListenersApart
  /\ InStep
  /\ SolvesAreTaken
  /\ TakenOnce

-----------------------------------------------------------------------------
(***************************************************************************)
(* The goroutines of the executor still do what module Executor says.      *)
(***************************************************************************)
NextPlugin == IF consumer = "none" THEN 1 ELSE 2

\* In the model, Match is under way from Receive until the goroutine is idle.
ConsumerAt == IF go[Consumer] = P!Idle THEN consumer ELSE "matching"

\* What the source has sent: the items taken, and those still in the channel.
Sent == [i \in 1 .. Len(received) + Len(stream) |-> "tx"]

\* The transactions that a Solve is working on, by their position in the stream.
Solves == {i \in DOMAIN received : go[received[i]] # P!Idle}

X == INSTANCE Executor
       WITH NumPlugins <- 1,
            MaxSent    <- Cardinality(Txs),
            next       <- NextPlugin,
            sent       <- <<Sent>>,
            closed     <- <<closed>>,
            taken      <- <<Len(received)>>,
            consumer   <- <<ConsumerAt>>,
            inflight   <- <<Solves>>

\* Match and Solve of the reveal plugin keep the contract that the executor has
\* with a plugin, canceled or not; so what module Executor guarantees holds of
\* the process.
ImplementsExecutor == X!Spec

-----------------------------------------------------------------------------
(***************************************************************************)
(* Liveness.                                                               *)
(***************************************************************************)
\* main.go:46: a signal ends the process, although the indexer and the emulator
\* hang and although an HTTP client never completes its call.
CanceledExits == canceled ~> phase = "exited"

\* reveal_plugin.go:72: a background goroutine ends although the indexer and
\* the emulator never answer, also while the process is stopping.
BackgroundFinishes == \A b \in Background : go[b] # P!Idle ~> go[b] = P!Idle \/ ~ Alive

\* Either the stream has still to show o, or a background goroutine has still
\* to ask the indexer, which knows o.
WillBeSeen(o) ==
  \/ consumer = "loop" /\ o.tx \notin streamed
  \/ \E b \in Background : go[b] = P!Looking(OutputAt(o).pkScript)

\* README.md:46-48: a registration that covclaimd answered with success is
\* claimed once it is funded, or the process ends; a signal, the end of the
\* stream or a failed subscription may end it, a call not answered stops both.
ServedIsClaimed ==
  \A o \in Outpoints :
    P!Due(o) /\ WillBeSeen(o)
      ~> o \in claimed \/ ~ Alive \/ hung
=============================================================================
